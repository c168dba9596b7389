------------------------------ MODULE HostProofs ------------------------------
(***************************************************************************)
(* What is proved of the components that live on the machine of the Agent: *)
(* how the page calls it (LocalBridge), the staged source of a recording   *)
(* (CraigStaging), the installed versions of the program                   *)
(* (InstallationMaintenance), and the preparation of a profile             *)
(* (ProfilePreparation).  Each component is an instance; what its theorems *)
(* assume of the constants is a definition of its own.                     *)
(***************************************************************************)
EXTENDS Integers, Sequences, FiniteSets, FiniteSetTheorems, TLAPS

CONSTANT Nil   \* no value

-----------------------------------------------------------------------------
(* LocalBridge *)
CONSTANTS Caller, MaxToken, MaxSessions, MaxBreak
VARIABLES agent, bridge, callers, mail, breaks

Bridge == INSTANCE LocalBridge

(* "No value" is none of the words and numbers. *)
BridgeInstance ==
  /\ Nil \notin {"ok", "unauthorized", "timeout", "unreachable", "payload_too_large", "version_incompatible",
                 "controller", "form", "cancel"}
                \cup Bridge!Token \cup {Bridge!Legacy}
  /\ MaxToken \in Nat

CallRecord ==
  [pc : {"unused", "sent", "health", "session", "again", "done"},
   owner : Bridge!Owner \cup {Nil}, endpoint : Bridge!Endpoint \cup {"session", Nil},
   size : Bridge!Size, aborted : BOOLEAN, tries : {0, 1, 2},
   answer : {"ok", "unauthorized", Nil},
   result : {"ok", "unauthorized", "timeout", "unreachable", "payload_too_large",
             "version_incompatible", Nil},
   applied : {0, 1}]

Pairing == {"health", "session", "again"}

(* What a call c was told is what was done; sent: it has a request under   *)
(* way, and only then may it still be done.                                *)
CallSound(c, sent) ==
  /\ c \in CallRecord
  /\ c.answer = "ok" => c.applied = 1
  /\ c.answer = "unauthorized" => c.applied = 0
  /\ c.pc \in {"unused"} \cup Pairing => c.applied = 0 /\ c.tries # 2
  /\ c.result # Nil => c.pc = "done"
  /\ c.result = "ok" /\ c.endpoint # "session" => c.applied = 1
  /\ c.result \in {"unauthorized", "payload_too_large", "version_incompatible"} => c.applied = 0
  /\ sent => /\ c.pc \in {"sent", "done"} /\ c.applied = 0 /\ c.answer = Nil
             /\ c.result \in {Nil, "timeout", "unreachable"}

Sent(m, c) == \E q \in m : q.call = c

MailSound ==
  /\ \A q \in mail : q.call \in Caller
  /\ \A q, r \in mail : q.call = r.call => q = r

(* A call that can still pair the page has its user's wish, or a page that *)
(* is paired, or is the cancellation of a preparation.                     *)
Wanted(c, b) ==
  /\ c.pc \in {"sent"} \cup Pairing => c.owner \in Bridge!Owner
  /\ c.pc \in {"sent"} \cup Pairing /\ ~ c.aborted /\ c.owner \in {"controller", "form"}
       => b.wanted \/ b.token # Nil

AgentRecord == [sessions : SUBSET Nat, issued : Nat, automatic : BOOLEAN]

BridgeRecord ==
  [token : {Nil, Bridge!Legacy} \cup Bridge!Token, mode : {"none", "legacy", "browser"},
   wanted : BOOLEAN, by : Bridge!Owner \cup {Nil, "user"}]

BridgeInv ==
  /\ callers = [c \in Caller |-> callers[c]]
  /\ agent \in AgentRecord
  /\ bridge \in BridgeRecord
  /\ MailSound
  /\ \A c \in Caller : CallSound(callers[c], Sent(mail, c)) /\ Wanted(callers[c], bridge)
  /\ Bridge!StaysDisconnected

\* One call changes, and the pairing does not.
LEMMA OneCall ==
  ASSUME BridgeInv, NEW c \in Caller, NEW r, callers' = [callers EXCEPT ![c] = r],
         UNCHANGED bridge, agent' \in AgentRecord, MailSound', \A d \in Caller \ {c} : Sent(mail', d) => Sent(mail, d),
         CallSound(r, Sent(mail', c)), Wanted(r, bridge)
  PROVE  BridgeInv'
<1>1. ASSUME NEW d \in Caller PROVE CallSound(callers'[d], Sent(mail', d)) /\ Wanted(callers'[d], bridge')
  <2>1. CASE d = c
    BY <2>1 DEF BridgeInv
  <2>2. CASE d # c
    <3>1. callers'[d] = callers[d]
      BY <2>2 DEF BridgeInv
    <3>2. CallSound(callers[d], Sent(mail', d))
      BY <2>2 DEF BridgeInv, CallSound
    <3> QED BY <3>1, <3>2 DEF BridgeInv
  <2> QED BY <2>1, <2>2
<1>2. callers' = [d \in Caller |-> callers'[d]]
  BY DEF BridgeInv
<1> QED BY <1>1, <1>2 DEF BridgeInv, Bridge!StaysDisconnected

\* No request is sent, or one goes.
LEMMA MailShrinks ==
  ASSUME MailSound, mail' \subseteq mail
  PROVE  MailSound' /\ \A d \in Caller : Sent(mail', d) => Sent(mail, d)
BY DEF MailSound, Sent

(* A call goes on, or ends. *)
Moved(rec, p) == [rec EXCEPT !.pc = p]

LEMMA Moves ==
  ASSUME NEW rec \in CallRecord,
         NEW p \in {"unused", "sent", "health", "session", "again", "done"}, NEW r,
         r = Moved(rec, p)
  PROVE  /\ r \in CallRecord /\ r.pc = p /\ r.owner = rec.owner /\ r.endpoint = rec.endpoint
         /\ r.aborted = rec.aborted /\ r.tries = rec.tries /\ r.answer = rec.answer
         /\ r.result = rec.result /\ r.applied = rec.applied
BY DEF CallRecord, Moved

\* The records of a call that ends, that is sent, that has its answer.
Ended(rec, x) == [rec EXCEPT !.pc = "done", !.result = x]
AsSent(rec, n) == [rec EXCEPT !.pc = "sent", !.tries = n, !.answer = Nil]
Answered(rec, n, a) == [rec EXCEPT !.applied = n, !.answer = a]

Results == {"ok", "unauthorized", "timeout", "unreachable", "payload_too_large", "version_incompatible"}

LEMMA Ends ==
  ASSUME NEW rec \in CallRecord, NEW x \in Results, NEW r,
         r = Ended(rec, x)
  PROVE  /\ r \in CallRecord /\ r.pc = "done" /\ r.result = x /\ r.endpoint = rec.endpoint
         /\ r.answer = rec.answer /\ r.applied = rec.applied
BY DEF CallRecord, Results, Ended

LEMMA IsSent ==
  ASSUME NEW rec \in CallRecord, NEW n \in {0, 1, 2}, NEW r,
         r = AsSent(rec, n)
  PROVE  /\ r \in CallRecord /\ r.pc = "sent" /\ r.tries = n /\ r.answer = Nil /\ r.owner = rec.owner
         /\ r.result = rec.result /\ r.applied = rec.applied /\ r.aborted = rec.aborted
BY DEF CallRecord, AsSent

\* A try of a call that is not under way.
LEMMA TryStep ==
  ASSUME BridgeInstance, BridgeInv, UNCHANGED <<bridge, agent>>, NEW c \in Caller, NEW rec,
         Bridge!Try(c, rec), rec \in CallRecord, rec.tries # 2, rec.applied = 0, rec.answer # "ok",
         rec.result = Nil, ~ Sent(mail, c), rec.owner \in Bridge!Owner,
         ~ rec.aborted /\ rec.owner \in {"controller", "form"} => bridge.wanted \/ bridge.token # Nil
  PROVE  BridgeInv'
<1>1. ASSUME NEW x \in {"unauthorized", "payload_too_large"},
             callers' = [callers EXCEPT ![c] = [rec EXCEPT !.pc = "done", !.result = x]],
             mail' = mail
      PROVE  BridgeInv'
  <2>1. PICK r : r = Ended(rec, x)
    OBVIOUS
  <2>2. /\ r \in CallRecord /\ r.pc = "done" /\ r.result = x
        /\ r.answer = rec.answer /\ r.applied = rec.applied
    BY <2>1, Ends DEF Results
  <2>3. CallSound(r, FALSE) /\ Wanted(r, bridge)
    BY <2>2 DEF CallSound, Wanted, Pairing
  <2>4. MailSound' /\ ~ Sent(mail', c) /\ \A d \in Caller : Sent(mail', d) => Sent(mail, d)
    BY <1>1 DEF BridgeInv, MailSound
  <2>5. CallSound(r, Sent(mail', c))
    BY <2>3, <2>4 DEF CallSound
  <2>6. callers' = [callers EXCEPT ![c] = r] /\ agent' \in AgentRecord
    BY <1>1, <2>1 DEF BridgeInv, Ended
  <2> QED BY <2>3, <2>4, <2>5, <2>6, OneCall
<1>2. ASSUME callers' = [callers EXCEPT ![c] = [rec EXCEPT !.pc = "sent", !.tries = @ + 1, !.answer = Nil]],
             mail' = mail \cup {Bridge!Request(c, rec.tries + 1, bridge.token)}
      PROVE  BridgeInv'
  <2>1. PICK n \in {0, 1, 2} : n = rec.tries + 1
    BY DEF CallRecord
  <2>2. PICK r : r = AsSent(rec, n)
    OBVIOUS
  <2>3. /\ r \in CallRecord /\ r.pc = "sent" /\ r.answer = Nil /\ r.owner = rec.owner
        /\ r.result = Nil /\ r.applied = 0 /\ r.aborted = rec.aborted
    BY <2>2, IsSent
  <2>4. PICK q : q = Bridge!Request(c, rec.tries + 1, bridge.token)
    OBVIOUS
  <2>5. q.call = c
    BY <2>4 DEF Bridge!Request
  <2>6. mail' = mail \cup {q}
    BY <1>2, <2>4
  <2>7. MailSound'
    BY <2>5, <2>6 DEF BridgeInv, MailSound, Sent
  <2>8. \A d \in Caller \ {c} : Sent(mail', d) => Sent(mail, d)
    BY <2>5, <2>6 DEF Sent
  <2>9. CallSound(r, Sent(mail', c)) /\ Wanted(r, bridge)
    BY <2>3 DEF CallSound, Wanted, Pairing, BridgeInstance
  <2>10. callers' = [callers EXCEPT ![c] = r]
    BY <1>2, <2>1, <2>2 DEF CallRecord, AsSent
  <2>11. agent' \in AgentRecord
    BY DEF BridgeInv
  <2> QED BY <2>7, <2>8, <2>9, <2>10, <2>11, OneCall
<1> QED BY <1>1, <1>2 DEF Bridge!Try, Bridge!With

LEMMA UnusedCall ==
  /\ Bridge!Unused \in CallRecord /\ Bridge!Unused.tries = 0 /\ Bridge!Unused.applied = 0
  /\ Bridge!Unused.answer = Nil /\ Bridge!Unused.result = Nil /\ Bridge!Unused.aborted = FALSE
  /\ Bridge!Unused.pc = "unused"
BY DEF Bridge!Unused, CallRecord, Bridge!Size

LEMMA CallStep ==
  ASSUME BridgeInstance, BridgeInv, NEW c \in Caller, Bridge!Call(c) PROVE BridgeInv'
<1>1. PICK owner \in Bridge!Owner, endpoint \in Bridge!Endpoint, size \in Bridge!Size :
        /\ callers[c].pc = "unused" /\ bridge.token # Nil
        /\ owner = "cancel" => endpoint = "json" /\ size = 4096
        /\ owner = "controller" => endpoint # "upload"
        /\ owner = "form" => endpoint # "review"
        /\ Bridge!Try(c, [Bridge!Unused EXCEPT !.owner = owner, !.endpoint = endpoint, !.size = size])
        /\ UNCHANGED <<agent, bridge, breaks>>
  BY DEF Bridge!Call
<1>2. PICK rec : rec = [Bridge!Unused EXCEPT !.owner = owner, !.endpoint = endpoint, !.size = size]
  OBVIOUS
<1>3. /\ rec \in CallRecord /\ rec.tries = 0 /\ rec.applied = 0 /\ rec.answer = Nil /\ rec.result = Nil
      /\ rec.owner = owner
  BY <1>2 DEF Bridge!Unused, CallRecord
<1>4. ~ Sent(mail, c)
  BY <1>1 DEF BridgeInv, CallSound
<1>5. Bridge!Try(c, rec)
  BY <1>1, <1>2
<1>6. rec.answer # "ok" /\ rec.tries # 2 /\ rec.owner \in Bridge!Owner
  BY <1>3 DEF BridgeInstance
<1> QED BY <1>1, <1>3, <1>4, <1>5, <1>6, TryStep

LEMMA AgainStep ==
  ASSUME BridgeInstance, BridgeInv, NEW c \in Caller, Bridge!Again(c) PROVE BridgeInv'
<1>1. PICK rec : rec = callers[c]
  OBVIOUS
<1>2. CallSound(rec, Sent(mail, c)) /\ Wanted(rec, bridge) /\ rec.pc = "again"
  BY <1>1 DEF BridgeInv, Bridge!Again
<1>3. /\ rec \in CallRecord /\ rec.tries # 2 /\ rec.applied = 0 /\ rec.answer # "ok" /\ rec.result = Nil
      /\ ~ Sent(mail, c) /\ rec.owner \in Bridge!Owner
      /\ ~ rec.aborted /\ rec.owner \in {"controller", "form"} => bridge.wanted \/ bridge.token # Nil
  BY <1>2 DEF CallSound, Wanted, Pairing
<1>4. CASE rec.aborted
  <2>1. PICK r : r = Ended(rec, "unreachable")
    OBVIOUS
  <2>2. /\ r \in CallRecord /\ r.pc = "done" /\ r.result = "unreachable"
        /\ r.answer = rec.answer /\ r.applied = rec.applied
    BY <1>3, <2>1, Ends DEF Results
  <2>3. callers' = [callers EXCEPT ![c] = r] /\ UNCHANGED <<bridge, agent, mail>>
    BY <1>1, <1>4, <2>1 DEF Bridge!Again, Bridge!With, Bridge!End, Ended
  <2>4. MailSound' /\ \A d \in Caller : Sent(mail', d) => Sent(mail, d)
    BY <2>3, MailShrinks DEF BridgeInv
  <2>5. CallSound(r, Sent(mail', c)) /\ Wanted(r, bridge)
    BY <1>3, <2>2, <2>4 DEF CallSound, Wanted, Pairing
  <2>6. agent' \in AgentRecord
    BY <2>3 DEF BridgeInv
  <2> QED BY <2>3, <2>4, <2>5, <2>6, OneCall
<1>5. CASE ~ rec.aborted
  BY <1>1, <1>3, <1>5, TryStep DEF Bridge!Again
<1> QED BY <1>4, <1>5

\* The Agent does what it is asked when it knows the token.
LEMMA HandleCall ==
  ASSUME BridgeInstance, BridgeInv, NEW q \in mail, Bridge!Handle(q) PROVE BridgeInv'
<1>1. PICK c \in Caller : c = q.call
  BY DEF BridgeInv, MailSound
<1>0. PICK rec : rec = callers[c]
  OBVIOUS
<1>2. CallSound(rec, TRUE) /\ Wanted(rec, bridge)
  BY <1>0, <1>1 DEF BridgeInv, CallSound, Sent
<1>3. rec \in CallRecord /\ rec.pc \in {"sent", "done"} /\ rec.applied = 0 /\ rec.answer = Nil
      /\ rec.result \in {Nil, "timeout", "unreachable"} /\ (rec.result # Nil => rec.pc = "done")
  BY <1>2 DEF CallSound
<1>4. PICK n \in {0, 1}, a \in {"ok", "unauthorized", Nil} :
        /\ callers' = [callers EXCEPT ![c] = Answered(rec, n, a)]
        /\ a = "ok" => n = 1
        /\ a = "unauthorized" => n = 0
  <2>1. PICK told \in {IF Bridge!Authorized(q.token) THEN "ok" ELSE "unauthorized", Nil} :
          callers' = [callers EXCEPT ![c] = [rec EXCEPT
            !.applied = @ + (IF Bridge!Authorized(q.token) THEN 1 ELSE 0),
            !.answer = IF (rec.pc = "sent" /\ rec.tries = q.try) /\ told # Nil THEN told ELSE @]]
    BY <1>0, <1>1 DEF Bridge!Handle, Bridge!With
  <2>2. PICK n, a : /\ n = IF Bridge!Authorized(q.token) THEN 1 ELSE 0
                    /\ a = IF (rec.pc = "sent" /\ rec.tries = q.try) /\ told # Nil THEN told ELSE Nil
    OBVIOUS
  <2>3. n \in {0, 1} /\ a \in {"ok", "unauthorized", Nil}
    BY <2>2
  <2>4. (a = "ok" => n = 1) /\ (a = "unauthorized" => n = 0)
    BY <2>2 DEF BridgeInstance
  <2>5. PICK r :
          r = [rec EXCEPT
                !.applied = @ + (IF Bridge!Authorized(q.token) THEN 1 ELSE 0),
                !.answer = IF (rec.pc = "sent" /\ rec.tries = q.try) /\ told # Nil THEN told ELSE @]
    OBVIOUS
  <2>6. r = Answered(rec, n, a)
    BY <1>3, <2>2, <2>5 DEF CallRecord, Answered
  <2>7. callers' = [callers EXCEPT ![c] = r]
    BY ONLY <2>1, <2>5
  <2> QED BY <2>3, <2>4, <2>6, <2>7
<1>5. PICK r : r = Answered(rec, n, a)
  OBVIOUS
<1>6. /\ r.pc = rec.pc /\ r.applied = n /\ r.answer = a /\ r.result = rec.result
      /\ r.owner = rec.owner /\ r.aborted = rec.aborted /\ r.tries = rec.tries /\ r.endpoint = rec.endpoint
  BY <1>3, <1>5 DEF CallRecord, Answered
<1>7. r \in CallRecord
  BY ZenonT(30), <1>3, <1>5 DEF CallRecord, Answered
<1>8. mail' = mail \ {q} /\ UNCHANGED <<agent, bridge>>
  BY DEF Bridge!Handle
<1>9. MailSound' /\ ~ Sent(mail', c) /\ \A d \in Caller : Sent(mail', d) => Sent(mail, d)
  <2>1. ~ Sent(mail', c)
    BY <1>1, <1>8 DEF Sent, BridgeInv, MailSound
  <2> QED BY <1>8, <2>1, MailShrinks DEF BridgeInv
<1>10. CallSound(r, Sent(mail', c))
  <2>1. r.answer = "ok" => r.applied = 1
    BY <1>4, <1>6
  <2>2. r.answer = "unauthorized" => r.applied = 0
    BY <1>4, <1>6
  <2>3. r.result \notin {"ok", "unauthorized", "payload_too_large", "version_incompatible"}
    BY <1>3, <1>6 DEF BridgeInstance
  <2> QED BY <1>3, <1>6, <1>7, <1>9, <2>1, <2>2, <2>3 DEF CallSound, Pairing
<1>11. Wanted(r, bridge)
  BY <1>2, <1>6 DEF Wanted
<1>12. callers' = [callers EXCEPT ![c] = r] /\ agent' \in AgentRecord
  BY <1>4, <1>5, <1>8 DEF BridgeInv
<1> QED BY <1>8, <1>9, <1>10, <1>11, <1>12, OneCall

LEMMA LoseCall ==
  ASSUME BridgeInv, NEW q \in mail, Bridge!Lose(q) PROVE BridgeInv'
<1>1. mail' = mail \ {q} /\ UNCHANGED <<agent, bridge, callers>>
  BY DEF Bridge!Lose
<1>2. MailSound' /\ \A d \in Caller : Sent(mail', d) => Sent(mail, d)
  BY <1>1, MailShrinks DEF BridgeInv
<1>3. ASSUME NEW d \in Caller PROVE CallSound(callers[d], Sent(mail', d))
  BY <1>2 DEF BridgeInv, CallSound
<1> QED BY <1>1, <1>2, <1>3 DEF BridgeInv, Bridge!StaysDisconnected

\* What is left of a call when it is aborted.
LEMMA Aborts ==
  ASSUME NEW rec \in CallRecord, NEW r, r = [rec EXCEPT !.aborted = TRUE], NEW sent, CallSound(rec, sent)
  PROVE  CallSound(r, sent) /\ r.pc = rec.pc /\ r.owner = rec.owner /\ r.aborted
<1>1. /\ r \in CallRecord /\ r.pc = rec.pc /\ r.owner = rec.owner /\ r.aborted
      /\ r.endpoint = rec.endpoint /\ r.tries = rec.tries /\ r.answer = rec.answer
      /\ r.result = rec.result /\ r.applied = rec.applied
  BY DEF CallRecord
<1> QED BY <1>1 DEF CallSound

LEMMA AbortStep ==
  ASSUME BridgeInv, NEW S, Bridge!Abort(S), UNCHANGED mail, NEW c \in Caller
  PROVE  /\ CallSound(callers'[c], Sent(mail', c))
         /\ callers'[c].pc = callers[c].pc /\ callers'[c].owner = callers[c].owner
         /\ callers[c].owner \in S => callers'[c].aborted
         /\ callers[c].owner \notin S => callers'[c] = callers[c]
<1>1. PICK rec : rec = callers[c]
  OBVIOUS
<1>2. rec \in CallRecord /\ CallSound(rec, Sent(mail', c))
  BY <1>1 DEF BridgeInv, CallSound, Sent
<1>3. CASE rec.owner \in S
  <2>1. PICK r : r = [rec EXCEPT !.aborted = TRUE]
    OBVIOUS
  <2>2. callers'[c] = r
    BY <1>1, <1>3, <2>1 DEF Bridge!Abort
  <2> QED BY <1>1, <1>2, <1>3, <2>1, <2>2, Aborts
<1>4. CASE rec.owner \notin S
  <2>1. callers'[c] = rec
    BY <1>1, <1>4 DEF Bridge!Abort
  <2> QED BY <1>1, <1>2, <1>4, <2>1
<1> QED BY <1>3, <1>4

LEMMA DisconnectStep ==
  ASSUME BridgeInstance, BridgeInv, Bridge!disconnect PROVE BridgeInv'
<1>1. /\ Bridge!Abort({"controller", "form"}) /\ UNCHANGED <<agent, mail>>
      /\ bridge' = [token |-> Nil, mode |-> "none", wanted |-> FALSE, by |-> Nil]
  BY DEF Bridge!disconnect
<1>2. ASSUME NEW c \in Caller PROVE CallSound(callers'[c], Sent(mail', c)) /\ Wanted(callers'[c], bridge')
  <2>1. Wanted(callers[c], bridge)
    BY DEF BridgeInv
  <2>2. /\ CallSound(callers'[c], Sent(mail', c))
        /\ callers'[c].pc = callers[c].pc /\ callers'[c].owner = callers[c].owner
        /\ callers[c].owner \in {"controller", "form"} => callers'[c].aborted
    BY <1>1, AbortStep
  <2> QED BY <2>1, <2>2 DEF Wanted
<1>3. callers' = [c \in Caller |-> callers'[c]]
  BY <1>1 DEF Bridge!Abort
<1>4. bridge' \in BridgeRecord /\ bridge'.token = Nil
  BY <1>1 DEF BridgeRecord
<1>5. MailSound'
  BY <1>1 DEF BridgeInv, MailSound
<1> QED BY <1>1, <1>2, <1>3, <1>4, <1>5 DEF BridgeInv, Bridge!StaysDisconnected

LEMMA PairStep ==
  ASSUME BridgeInstance, BridgeInv, Bridge!pair PROVE BridgeInv'
<1>1. /\ Bridge!Abort({"controller"}) /\ UNCHANGED <<agent, mail>>
      /\ bridge' = [token |-> Bridge!Legacy, mode |-> "legacy", wanted |-> TRUE, by |-> "user"]
  BY DEF Bridge!pair
<1>2. bridge' \in BridgeRecord /\ bridge'.wanted
  BY <1>1 DEF BridgeRecord
<1>3. ASSUME NEW c \in Caller PROVE CallSound(callers'[c], Sent(mail', c)) /\ Wanted(callers'[c], bridge')
  <2>1. Wanted(callers[c], bridge)
    BY DEF BridgeInv
  <2>2. /\ CallSound(callers'[c], Sent(mail', c))
        /\ callers'[c].pc = callers[c].pc /\ callers'[c].owner = callers[c].owner
    BY <1>1, AbortStep
  <2> QED BY <1>2, <2>1, <2>2 DEF Wanted
<1>4. callers' = [c \in Caller |-> callers'[c]]
  BY <1>1 DEF Bridge!Abort
<1>5. MailSound'
  BY <1>1 DEF BridgeInv, MailSound
<1> QED BY <1>1, <1>2, <1>3, <1>4, <1>5 DEF BridgeInv, Bridge!StaysDisconnected

LEMMA Bootstraps ==
  ASSUME NEW r, r = [Bridge!Unused EXCEPT !.pc = "health", !.owner = "controller",
                                          !.endpoint = "session", !.tries = 1]
  PROVE  /\ r \in CallRecord /\ r.pc = "health" /\ r.owner = "controller" /\ r.tries = 1
         /\ r.applied = 0 /\ r.answer = Nil /\ r.result = Nil
<1>1. PICK u : u = [Bridge!Unused EXCEPT !.pc = "health"]
  OBVIOUS
<1>2. PICK v : v = [u EXCEPT !.owner = "controller"]
  OBVIOUS
<1>3. PICK w : w = [v EXCEPT !.endpoint = "session"]
  OBVIOUS
<1>4. r = [w EXCEPT !.tries = 1]
  BY <1>1, <1>2, <1>3
<1>5. u \in CallRecord /\ u.pc = "health" /\ u.applied = 0 /\ u.answer = Nil /\ u.result = Nil
  BY <1>1, UnusedCall DEF CallRecord
<1>6. v \in CallRecord /\ v.pc = "health" /\ v.applied = 0 /\ v.answer = Nil /\ v.result = Nil
      /\ v.owner = "controller"
  BY <1>2, <1>5 DEF CallRecord, Bridge!Owner
<1>7. w \in CallRecord /\ w.pc = "health" /\ w.applied = 0 /\ w.answer = Nil /\ w.result = Nil
      /\ w.owner = "controller"
  BY <1>3, <1>6 DEF CallRecord
<1> QED BY <1>4, <1>7 DEF CallRecord

LEMMA ConnectStep ==
  ASSUME BridgeInstance, BridgeInv, NEW c \in Caller, Bridge!connect(c) PROVE BridgeInv'
<1>1. /\ callers[c].pc = "unused" /\ bridge' = [bridge EXCEPT !.wanted = TRUE]
      /\ UNCHANGED <<agent, mail>>
  BY DEF Bridge!connect
<1>2. bridge' \in BridgeRecord /\ bridge'.wanted
  BY <1>1 DEF BridgeInv, BridgeRecord
<1>3. CallSound(callers'[c], Sent(mail', c)) /\ Wanted(callers'[c], bridge')
  <2>1. PICK r : r = [Bridge!Unused EXCEPT !.pc = "health", !.owner = "controller",
                                    !.endpoint = "session", !.tries = 1]
    OBVIOUS
  <2>2. callers'[c] = r
    BY <2>1 DEF Bridge!connect
  <2>3. /\ r \in CallRecord /\ r.pc = "health" /\ r.owner = "controller" /\ r.tries = 1
        /\ r.applied = 0 /\ r.answer = Nil /\ r.result = Nil
    BY <2>1, Bootstraps
  <2>4. ~ Sent(mail', c)
    BY <1>1 DEF BridgeInv, CallSound, Sent
  <2>5. CallSound(r, FALSE)
    BY <2>3 DEF CallSound, Pairing, BridgeInstance
  <2>6. Wanted(r, bridge')
    BY <1>2, <2>3 DEF Wanted, Bridge!Owner
  <2> QED BY <2>2, <2>4, <2>5, <2>6 DEF CallSound
<1>4. ASSUME NEW d \in Caller, d # c PROVE CallSound(callers'[d], Sent(mail', d)) /\ Wanted(callers'[d], bridge')
  <2>1. PICK rec : rec = callers[d]
    OBVIOUS
  <2>2. rec \in CallRecord /\ CallSound(rec, Sent(mail', d)) /\ Wanted(rec, bridge)
    BY <1>1, <2>1 DEF BridgeInv, CallSound, Sent
  <2>3. CASE rec.owner = "controller"
    <3>1. PICK r : r = [rec EXCEPT !.aborted = TRUE]
      OBVIOUS
    <3>2. callers'[d] = r
      BY <1>4, <2>1, <2>3, <3>1 DEF Bridge!connect
    <3>3. CallSound(r, Sent(mail', d)) /\ r.pc = rec.pc /\ r.owner = rec.owner
      BY <2>2, <3>1, Aborts
    <3> QED BY <1>2, <2>2, <3>2, <3>3 DEF Wanted
  <2>4. CASE rec.owner # "controller"
    <3>1. callers'[d] = rec
      BY <1>4, <2>1, <2>4 DEF Bridge!connect
    <3> QED BY <1>2, <2>2, <3>1 DEF Wanted
  <2> QED BY <2>3, <2>4
<1>5. callers' = [d \in Caller |-> callers'[d]]
  BY DEF Bridge!connect
<1>6. MailSound'
  BY <1>1 DEF BridgeInv, MailSound
<1> QED BY <1>1, <1>2, <1>3, <1>4, <1>5, <1>6 DEF BridgeInv, Bridge!StaysDisconnected

\* The Agent forgets sessions, or opens one.
LEMMA AgentStep ==
  ASSUME BridgeInv, Bridge!Restart \/ (\E t \in Bridge!Token : Bridge!Expire(t)) PROVE BridgeInv'
<1>1. agent' \in AgentRecord /\ UNCHANGED <<bridge, callers, mail>>
  BY DEF Bridge!Restart, Bridge!Expire, BridgeInv, AgentRecord
<1>2. MailSound' /\ \A c \in Caller : Sent(mail', c) <=> Sent(mail, c)
  BY <1>1 DEF BridgeInv, MailSound, Sent
<1> QED BY <1>1, <1>2 DEF BridgeInv, Bridge!StaysDisconnected, CallSound

LEMMA IssuedSession ==
  ASSUME BridgeInv
  PROVE  Bridge!Issued \in AgentRecord
<1>1. PICK kept \in SUBSET agent.sessions :
        Bridge!Issued = [agent EXCEPT !.sessions = kept \cup {agent.issued + 1}, !.issued = @ + 1]
  BY DEF Bridge!Issued
<1>2. PICK i : i = Bridge!Issued
  OBVIOUS
<1>3. agent \in AgentRecord
  BY DEF BridgeInv
<1>4. i = [sessions |-> kept \cup {agent.issued + 1}, issued |-> agent.issued + 1, automatic |-> agent.automatic]
  BY <1>1, <1>2, <1>3 DEF AgentRecord
<1>5. kept \cup {agent.issued + 1} \in SUBSET Nat /\ agent.issued + 1 \in Nat /\ agent.automatic \in BOOLEAN
  <2>1. agent.sessions \in SUBSET Nat /\ agent.issued \in Nat /\ agent.automatic \in BOOLEAN
    BY <1>3 DEF AgentRecord
  <2> QED BY ONLY <1>1, <2>1, SMT
<1> QED BY <1>2, <1>4, <1>5 DEF AgentRecord

(* A call ends: what it is told, it may say. *)
LEMMA EndStep ==
  ASSUME BridgeInv, NEW c \in Caller, NEW rec, rec = callers[c], NEW x \in Results,
         callers' = [callers EXCEPT ![c] = Ended(rec, x)],
         UNCHANGED <<bridge, mail>>, agent' \in AgentRecord,
         x = "ok" /\ rec.endpoint # "session" => rec.applied = 1,
         x \in {"unauthorized", "payload_too_large", "version_incompatible"} => rec.applied = 0,
         Sent(mail, c) => x \in {"timeout", "unreachable"}
  PROVE  BridgeInv'
<1>1. CallSound(rec, Sent(mail, c))
  BY DEF BridgeInv
<1>2. PICK r : r = Ended(rec, x)
  OBVIOUS
<1>3. /\ r \in CallRecord /\ r.pc = "done" /\ r.result = x /\ r.endpoint = rec.endpoint
      /\ r.answer = rec.answer /\ r.applied = rec.applied
  BY <1>1, <1>2, Ends DEF CallSound
<1>4. MailSound' /\ \A d \in Caller : Sent(mail', d) => Sent(mail, d)
  BY MailShrinks DEF BridgeInv
<1>5. CallSound(r, Sent(mail', c)) /\ Wanted(r, bridge)
  BY <1>1, <1>3, <1>4 DEF CallSound, Wanted, Pairing
<1> QED BY <1>2, <1>4, <1>5, OneCall

\* A call goes from one step of its pairing to the next.
LEMMA MoveStep ==
  ASSUME BridgeInv, NEW c \in Caller, NEW rec, rec = callers[c], NEW p \in {"health", "session"},
         callers' = [callers EXCEPT ![c] = Moved(rec, p)],
         UNCHANGED <<bridge, mail, agent>>, rec.pc \in {"sent"} \cup Pairing,
         rec.applied = 0, rec.tries # 2, ~ Sent(mail, c)
  PROVE  BridgeInv'
<1>1. CallSound(rec, Sent(mail, c)) /\ Wanted(rec, bridge)
  BY DEF BridgeInv
<1>2. PICK r : r = Moved(rec, p)
  OBVIOUS
<1>3. /\ r \in CallRecord /\ r.pc = p /\ r.owner = rec.owner /\ r.endpoint = rec.endpoint
      /\ r.aborted = rec.aborted /\ r.tries = rec.tries /\ r.answer = rec.answer
      /\ r.result = rec.result /\ r.applied = rec.applied
  BY <1>1, <1>2, Moves DEF CallSound
<1>4. MailSound' /\ ~ Sent(mail', c) /\ \A d \in Caller : Sent(mail', d) => Sent(mail, d)
  BY MailShrinks DEF BridgeInv
<1>5. rec.result = Nil
  BY <1>1 DEF CallSound, Pairing
<1>6. CallSound(r, Sent(mail', c)) /\ Wanted(r, bridge)
  BY <1>1, <1>3, <1>4, <1>5 DEF CallSound, Wanted, Pairing
<1>7. agent' \in AgentRecord
  BY DEF BridgeInv
<1> QED BY <1>2, <1>4, <1>6, <1>7, OneCall

LEMMA AnswerStep ==
  ASSUME BridgeInstance, BridgeInv, NEW c \in Caller, Bridge!requestOnce(c) PROVE BridgeInv'
<1>1. PICK rec : rec = callers[c]
  OBVIOUS
<1>2. CallSound(rec, Sent(mail, c)) /\ rec.pc = "sent" /\ UNCHANGED <<agent, bridge, mail>>
  BY <1>1 DEF BridgeInv, Bridge!requestOnce
<1>3. CASE Bridge!Retries(rec)
  <2>1. callers' = [callers EXCEPT ![c] = Moved(rec, "health")]
    BY <1>1, <1>3 DEF Bridge!requestOnce, Bridge!With, Moved
  <2>2. rec.applied = 0 /\ rec.tries # 2 /\ ~ Sent(mail, c)
    BY <1>2, <1>3 DEF Bridge!Retries, CallSound, BridgeInstance
  <2> QED BY <1>1, <1>2, <2>1, <2>2, MoveStep DEF Pairing
<1>4. CASE ~ Bridge!Retries(rec)
  <2>1. PICK x : x = CASE rec.aborted -> "unreachable"
                      [] ~rec.aborted /\ rec.answer = Nil -> "timeout"
                      [] OTHER -> rec.answer
    OBVIOUS
  <2>2. callers' = [callers EXCEPT ![c] = Ended(rec, x)]
    BY <1>1, <1>4, <2>1 DEF Bridge!requestOnce, Bridge!With, Moved, Bridge!End, Ended
  <2>3. rec.aborted \in BOOLEAN /\ rec.answer \in {"ok", "unauthorized", Nil}
    BY <1>2 DEF CallSound, CallRecord
  <2>4. \/ x = "unreachable"
        \/ x = "timeout"
        \/ x = rec.answer /\ rec.answer # Nil
    BY <2>1, <2>3
  <2>5. x \in Results
    BY <2>3, <2>4 DEF Results
  <2>6. /\ x = "ok" => rec.applied = 1
        /\ x \in {"unauthorized", "payload_too_large", "version_incompatible"} => rec.applied = 0
        /\ Sent(mail, c) => x \in {"timeout", "unreachable"}
    BY <1>2, <2>3, <2>4 DEF CallSound
  <2>7. agent' \in AgentRecord
    BY <1>2 DEF BridgeInv
  <2> QED BY <1>1, <1>2, <2>2, <2>5, <2>6, <2>7, EndStep
<1> QED BY <1>3, <1>4

\* What a call that pairs the page can say of itself.
LEMMA PairingCall ==
  ASSUME BridgeInv, NEW c \in Caller, callers[c].pc \in Pairing
  PROVE  ~ Sent(mail, c) /\ callers[c].applied = 0 /\ callers[c].tries # 2 /\ callers[c].result = Nil
BY DEF BridgeInv, CallSound, Pairing

LEMMA HealthStep ==
  ASSUME BridgeInstance, BridgeInv, NEW c \in Caller, Bridge!Health(c) PROVE BridgeInv'
<1>1. PICK rec : rec = callers[c]
  OBVIOUS
<1>2. rec.pc = "health" /\ UNCHANGED <<agent, bridge, mail>>
  BY <1>1 DEF Bridge!Health
<1>3. ~ Sent(mail, c) /\ rec.applied = 0 /\ rec.tries # 2 /\ rec.result = Nil /\ rec.pc \in Pairing
  BY <1>1, <1>2, PairingCall DEF Pairing
<1>4. CASE callers' = [callers EXCEPT ![c] = Moved(rec, "session")]
  BY <1>1, <1>2, <1>3, <1>4, MoveStep DEF Pairing
<1>5. ASSUME NEW x \in {"version_incompatible", "unreachable"},
             callers' = [callers EXCEPT ![c] = Ended(rec, x)]
      PROVE  BridgeInv'
  <2>1. agent' \in AgentRecord /\ x \in Results
    BY <1>2 DEF BridgeInv, Results
  <2> QED BY <1>1, <1>2, <1>3, <1>5, <2>1, EndStep
<1> QED BY <1>1, <1>4, <1>5 DEF Bridge!Health, Bridge!With, Moved, Bridge!End, Ended

LEMMA UnansweredStep ==
  ASSUME BridgeInstance, BridgeInv, NEW c \in Caller, Bridge!Unanswered(c) PROVE BridgeInv'
<1>1. PICK rec : rec = callers[c]
  OBVIOUS
<1>2. callers' = [callers EXCEPT ![c] = Ended(rec, "timeout")]
      /\ UNCHANGED <<bridge, mail>> /\ rec.pc \in Pairing
  BY <1>1 DEF Bridge!Unanswered, Bridge!With, Moved, Bridge!End, Ended, Pairing
<1>3. agent' = agent \/ agent' = Bridge!Issued
  BY DEF Bridge!Unanswered
<1>4. agent' \in AgentRecord
  BY <1>3, IssuedSession DEF BridgeInv
<1>5. ~ Sent(mail, c)
  BY <1>1, <1>2, PairingCall
<1> QED BY <1>1, <1>2, <1>4, <1>5, EndStep DEF Results

\* A session is opened, and the page takes its token.
LEMMA SessionStep ==
  ASSUME BridgeInstance, BridgeInv, NEW c \in Caller, Bridge!Session(c) PROVE BridgeInv'
<1>1. PICK rec : rec = callers[c]
  OBVIOUS
<1>2. rec.pc = "session" /\ UNCHANGED mail /\ CallSound(rec, Sent(mail, c)) /\ Wanted(rec, bridge)
  BY <1>1 DEF Bridge!Session, BridgeInv
<1>3. ~ Sent(mail, c) /\ rec.applied = 0 /\ rec.tries # 2 /\ rec.result = Nil /\ rec.pc \in Pairing
  BY <1>1, <1>2, PairingCall DEF Pairing
<1>4. CASE rec.aborted
  <2>1. callers' = [callers EXCEPT ![c] = Ended(rec, "unreachable")]
        /\ UNCHANGED <<agent, bridge>>
    BY <1>1, <1>4 DEF Bridge!Session, Bridge!Pairs, Bridge!With, Moved, Bridge!End, Ended
  <2>2. agent' \in AgentRecord
    BY <2>1 DEF BridgeInv
  <2> QED BY <1>1, <1>2, <1>3, <2>1, <2>2, EndStep DEF Results
<1>5. CASE ~ rec.aborted
  <2>1. /\ agent.issued < MaxToken /\ agent' = Bridge!Issued
        /\ bridge' = [bridge EXCEPT !.token = agent.issued + 1, !.mode = "browser",
                                    !.by = IF bridge.token = Nil THEN rec.owner ELSE @]
        /\ callers' = [callers EXCEPT ![c] =
             IF rec.endpoint = "session" THEN Ended(rec, "ok")
             ELSE Moved(rec, "again")]
    BY <1>1, <1>5 DEF Bridge!Session, Bridge!Pairs, Bridge!With, Moved, Bridge!End, Ended
  <2>2. PICK t : t = agent.issued + 1
    OBVIOUS
  <2>3. t \in Bridge!Token /\ t # Nil
    BY <2>1, <2>2 DEF BridgeInv, AgentRecord, BridgeInstance, Bridge!Token
  <2>4. agent' \in AgentRecord
    BY <2>1, IssuedSession
  <2>5. PICK p : p = IF bridge.token = Nil THEN rec.owner ELSE bridge.by
    OBVIOUS
  <2>6. rec.owner \in Bridge!Owner
    BY <1>2 DEF Wanted, Pairing
  <2>7. p \in Bridge!Owner \cup {Nil, "user"}
    BY <2>5, <2>6 DEF BridgeInv, BridgeRecord
  <2>8. /\ bridge' \in BridgeRecord /\ bridge'.token = t /\ bridge'.by = p
        /\ bridge'.wanted = bridge.wanted
    BY <2>1, <2>2, <2>3, <2>5, <2>7 DEF BridgeInv, BridgeRecord
  <2>9. ASSUME NEW d \in Caller PROVE Wanted(callers'[d], bridge') /\ CallSound(callers'[d], Sent(mail', d))
    <3>1. CASE d # c
      <4>1. callers'[d] = callers[d]
        BY <2>1, <3>1 DEF BridgeInv
      <4>2. CallSound(callers[d], Sent(mail, d)) /\ Wanted(callers[d], bridge)
        BY DEF BridgeInv
      <4>3. Wanted(callers[d], bridge')
        BY <2>3, <2>8, <4>2 DEF Wanted
      <4> QED BY <1>2, <4>1, <4>2, <4>3 DEF Sent
    <3>2. CASE d = c /\ rec.endpoint = "session"
      <4>1. PICK r : r = Ended(rec, "ok")
        OBVIOUS
      <4>2. callers'[d] = r
        BY <2>1, <3>2, <4>1 DEF BridgeInv
      <4>3. /\ r \in CallRecord /\ r.pc = "done" /\ r.result = "ok" /\ r.endpoint = "session"
            /\ r.answer = rec.answer /\ r.applied = rec.applied
        BY <1>2, <3>2, <4>1, Ends DEF CallSound, Results
      <4>4. ~ Sent(mail', d)
        BY <1>2, <1>3, <3>2 DEF Sent
      <4> QED BY <1>2, <4>2, <4>3, <4>4 DEF CallSound, Wanted, Pairing
    <3>3. CASE d = c /\ rec.endpoint # "session"
      <4>1. PICK r : r = Moved(rec, "again")
        OBVIOUS
      <4>2. callers'[d] = r
        BY <2>1, <3>3, <4>1 DEF BridgeInv
      <4>3. /\ r \in CallRecord /\ r.pc = "again" /\ r.owner = rec.owner /\ r.tries = rec.tries
            /\ r.answer = rec.answer /\ r.applied = rec.applied /\ r.result = rec.result
        BY <1>2, <4>1, Moves DEF CallSound
      <4>4. ~ Sent(mail', d)
        BY <1>2, <1>3, <3>3 DEF Sent
      <4>5. CallSound(r, FALSE)
        BY <1>2, <1>3, <4>3, <4>4 DEF CallSound, Pairing, BridgeInstance
      <4>6. Wanted(r, bridge')
        BY <2>3, <2>6, <2>8, <4>3 DEF Wanted
      <4> QED BY <4>2, <4>4, <4>5, <4>6 DEF CallSound
    <3> QED BY <3>1, <3>2, <3>3
  <2>10. callers' = [d \in Caller |-> callers'[d]]
    BY <2>1 DEF BridgeInv
  <2>11. MailSound'
    BY <1>2 DEF BridgeInv, MailSound
  <2>12. Bridge!StaysDisconnected'
    <3>1. bridge.token # Nil \/ bridge.wanted \/ p = "cancel"
      BY <1>2, <1>5, <2>5, <2>6 DEF Wanted, Pairing, Bridge!Owner
    <3>2. ~ bridge.wanted => p = "cancel"
      BY <2>5, <3>1 DEF BridgeInv, Bridge!StaysDisconnected
    <3> QED BY <2>8, <3>2 DEF Bridge!StaysDisconnected
  <2> QED BY <2>4, <2>8, <2>9, <2>10, <2>11, <2>12 DEF BridgeInv
<1> QED BY <1>2, <1>4, <1>5 DEF CallSound, CallRecord

LEMMA BridgeInit == ASSUME BridgeInstance, Bridge!Init PROVE BridgeInv
<1>1. callers = [c \in Caller |-> Bridge!Unused] /\ mail = {} /\ bridge.token = Nil
  BY DEF Bridge!Init
<1>2. MailSound /\ \A c \in Caller : ~ Sent(mail, c)
  BY <1>1 DEF MailSound, Sent
<1>3. CallSound(Bridge!Unused, FALSE) /\ Wanted(Bridge!Unused, bridge)
  BY UnusedCall DEF CallSound, Wanted, Pairing, BridgeInstance
<1>4. agent \in AgentRecord /\ bridge \in BridgeRecord
  BY DEF Bridge!Init, AgentRecord, BridgeRecord
<1>5. \A c \in Caller : CallSound(callers[c], Sent(mail, c))
  BY <1>1, <1>2, <1>3 DEF CallSound
<1> QED BY <1>1, <1>2, <1>3, <1>4, <1>5 DEF BridgeInv, Bridge!StaysDisconnected

LEMMA BridgeNext == ASSUME BridgeInstance, BridgeInv, [Bridge!Next]_Bridge!vars PROVE BridgeInv'
<1>1. CASE UNCHANGED Bridge!vars
  <2>1. UNCHANGED <<agent, bridge, callers, mail>>
    BY <1>1 DEF Bridge!vars
  <2>2. MailSound' /\ \A c \in Caller : Sent(mail', c) <=> Sent(mail, c)
    BY <2>1 DEF BridgeInv, MailSound, Sent
  <2> QED BY <2>1, <2>2 DEF BridgeInv, Bridge!StaysDisconnected, CallSound
<1>2. CASE Bridge!Next
  <2>1. ASSUME NEW q \in mail, Bridge!Handle(q) \/ Bridge!Lose(q) PROVE BridgeInv'
    BY <2>1, HandleCall, LoseCall
  <2>2. ASSUME NEW c \in Caller, Bridge!connect(c) \/ Bridge!Call(c) \/ Bridge!requestOnce(c)
                 \/ Bridge!Health(c) \/ Bridge!Session(c) \/ Bridge!Unanswered(c) \/ Bridge!Again(c)
        PROVE  BridgeInv'
    BY <2>2, ConnectStep, CallStep, AnswerStep, HealthStep, SessionStep, UnansweredStep, AgainStep
  <2> QED BY <1>2, <2>1, <2>2, AgentStep, DisconnectStep, PairStep DEF Bridge!Next
<1> QED BY <1>1, <1>2

(* What every call of the page was told, and who may still pair it, holds  *)
(* for any number of calls, sessions, restarts and changes of the pairing. *)
THEOREM BridgeInvariant == ASSUME BridgeInstance PROVE Bridge!Spec => []BridgeInv
<1>1. Bridge!Init => BridgeInv
  BY BridgeInit
<1>2. BridgeInv /\ [Bridge!Next]_Bridge!vars => BridgeInv'
  BY BridgeNext
<1> QED BY <1>1, <1>2, PTL DEF Bridge!Spec

(* requestOnce and bootstrap (local-companion.ts): a request is done at    *)
(* most once, and what the call was told of it is what the Agent did.      *)
THEOREM BridgeCallsOnce == ASSUME BridgeInstance PROVE Bridge!Spec => []Bridge!AppliedOnce
<1>1. BridgeInv => Bridge!AppliedOnce
  BY DEF BridgeInv, CallSound, CallRecord, Bridge!AppliedOnce
<1> QED BY <1>1, BridgeInvariant, PTL

(* disconnect aborts whoever could pair the page again, except the         *)
(* cancellation of a preparation.                                          *)
THEOREM BridgeStaysDisconnected == ASSUME BridgeInstance PROVE Bridge!Spec => []Bridge!StaysDisconnected
<1>1. BridgeInv => Bridge!StaysDisconnected
  BY DEF BridgeInv
<1> QED BY <1>1, BridgeInvariant, PTL

-----------------------------------------------------------------------------
(* CraigStaging *)
CONSTANTS Upload, Run, MaxDamage, MaxCrash, MaxFault
VARIABLES current, repl, backup, displaced, up, gate, worker, host, sealed, reviewed, count

Staging == INSTANCE CraigStaging WITH agent <- host

(* "No value" is neither a package nor an upload. *)
StagingInstance == Nil \notin Staging!PackageType \cup Upload

UploadState ==
  {"unsent", "ingesting", "relooking", "repairing", "waiting", "copying", "moving in",
   "cleaning", "answered", "refused"}

Counts == [damage : Nat, crash : Nat, fault : Nat]

StagingTyped ==
  /\ current \in Staging!PackageType \cup {Nil}
  /\ repl \in [Upload -> Staging!PackageType \cup {Nil}]
  /\ backup \in [Upload -> Staging!PackageType \cup {Nil}]
  /\ displaced \subseteq Staging!PackageType
  /\ up \in [Upload -> UploadState]
  /\ gate \in Upload \cup {Nil}
  /\ host \in {"down", "recovering", "sweeping", "up"}
  /\ worker # Nil => worker.run \in Run
  /\ count \in Counts

(* An exchange of directories is made by the upload that holds the gate,   *)
(* while no job reads the source; an Agent that starts serves nobody yet.  *)
GateHeld ==
  /\ \A u \in Upload : up[u] \in {"copying", "moving in"} => gate = u
  /\ gate # Nil => worker = Nil
  /\ host # "up" => /\ gate = Nil /\ worker = Nil
                    /\ \A u \in Upload : up[u] \in {"unsent", "answered", "refused"}

(* What a repair has in hand at each of its steps. *)
RepairSound ==
  /\ \A u \in Upload : up[u] \in {"waiting", "copying", "moving in"} => repl[u] # Nil
  /\ \A u \in Upload : up[u] = "copying" => current # Nil
  /\ \A u \in Upload :
       up[u] \notin {"moving in", "cleaning", "answered", "refused"} => backup[u] = Nil
  /\ \A u \in Upload : up[u] = "moving in" /\ backup[u] # Nil => backup[u].runs \subseteq repl[u].runs

Behind == displaced # {} \/ \E u \in Upload : backup[u] # Nil

(* Where the source is. *)
SourcePlaced ==
  /\ (\E u \in Upload : up[u] = "cleaning") =>
       current # Nil \/ \E v \in Upload : up[v] = "moving in" /\ backup[v] # Nil
  /\ host = "sweeping" => current # Nil \/ ~ Behind
  /\ (\E u \in Upload : up[u] = "answered") => current # Nil \/ Behind

StagingInv == StagingTyped /\ GateHeld /\ RepairSound /\ SourcePlaced /\ Staging!SourceIsStill

(* Without a death of the Agent a completed run is in the source, or in a  *)
(* backup that no upload will remove.                                      *)
RunKept(r) ==
  \/ current # Nil /\ r \in current.runs
  \/ \E u \in Upload : up[u] \in {"moving in", "refused"} /\ backup[u] # Nil /\ r \in backup[u].runs

RunsInv == StagingInv /\ host = "up" /\ count.crash = 0 /\ \A r \in sealed : RunKept(r)

LEMMA FreshPackage ==
  ASSUME StagingInstance, NEW u \in Upload
  PROVE  /\ Staging!Package(u) \in Staging!PackageType /\ Staging!Package(u).runs = {}
         /\ Staging!Package(u) # Nil
<1>1. Staging!Package(u) \in Staging!PackageType /\ Staging!Package(u).runs = {}
  BY DEF Staging!Package, Staging!PackageType
<1> QED BY <1>1 DEF StagingInstance

\* What a change of one field leaves of a package.
LEMMA RunAdded ==
  ASSUME StagingInstance, NEW p \in Staging!PackageType, NEW r \in Run, NEW q, q = [p EXCEPT !.runs = @ \cup {r}]
  PROVE  q \in Staging!PackageType /\ q.runs = p.runs \cup {r} /\ q.of = p.of /\ q # Nil
<1>1. q \in Staging!PackageType /\ q.runs = p.runs \cup {r} /\ q.of = p.of
  BY DEF Staging!PackageType
<1> QED BY <1>1 DEF StagingInstance

LEMMA ReviewAdded ==
  ASSUME StagingInstance, NEW p \in Staging!PackageType, NEW r \in Run, NEW q, q = [p EXCEPT !.reviews = @ \cup {r}]
  PROVE  q \in Staging!PackageType /\ q.runs = p.runs /\ q.of = p.of /\ q # Nil
<1>1. q \in Staging!PackageType /\ q.runs = p.runs /\ q.of = p.of
  BY DEF Staging!PackageType
<1> QED BY <1>1 DEF StagingInstance

LEMMA Damaged ==
  ASSUME StagingInstance, NEW p \in Staging!PackageType, NEW q, q = [p EXCEPT !.whole = FALSE]
  PROVE  q \in Staging!PackageType /\ q.runs = p.runs /\ q.of = p.of /\ q # Nil
<1>1. q \in Staging!PackageType /\ q.runs = p.runs /\ q.of = p.of
  BY DEF Staging!PackageType
<1> QED BY <1>1 DEF StagingInstance

LEMMA Counted ==
  ASSUME count \in Counts,
         \/ Staging!Fault
         \/ count' = [count EXCEPT !.damage = @ + 1]
         \/ count' = [count EXCEPT !.crash = @ + 1]
  PROVE  count' \in Counts
BY DEF Counts, Staging!Fault

(* The package of the directory changes, and nothing else that matters. *)
LEMMA PackageChanges ==
  ASSUME StagingInstance, StagingInv, current # Nil, NEW q \in Staging!PackageType, current' = q, q # Nil,
         q.of = current.of, UNCHANGED <<repl, backup, displaced, up, gate, host>>,
         UNCHANGED worker \/ worker' = Nil, count' \in Counts
  PROVE  StagingInv'
<1>1. StagingTyped'
  BY DEF StagingInv, StagingTyped
<1>2. GateHeld'
  BY DEF StagingInv, GateHeld
<1>3. RepairSound'
  BY DEF StagingInv, RepairSound
<1>4. SourcePlaced'
  BY DEF StagingInv, SourcePlaced, Behind
<1>5. Staging!SourceIsStill'
  BY DEF StagingInv, Staging!SourceIsStill
<1> QED BY <1>1, <1>2, <1>3, <1>4, <1>5 DEF StagingInv

LEMMA WhatIsBehind ==
  ASSUME StagingTyped
  PROVE  /\ Behind <=> Staging!Backups # {}
         /\ ~ Staging!Left => ~ Behind
         /\ Staging!Replacements \cup Staging!Backups \subseteq Staging!PackageType
<1>1. Behind <=> Staging!Backups # {}
  BY DEF StagingTyped, Behind, Staging!Backups
<1>2. Staging!Replacements \cup Staging!Backups \subseteq Staging!PackageType
  BY DEF StagingTyped, Staging!Backups, Staging!Replacements
<1> QED BY <1>1, <1>2 DEF Staging!Left

(* One lemma for each action. *)
LEMMA StagingLook ==
  ASSUME StagingInstance, StagingInv, NEW u \in Upload, Staging!Look(u) PROVE StagingInv'
<1>1. StagingTyped'
  BY DEF StagingInv, StagingTyped, UploadState, Staging!Look, Staging!At, Staging!Goes,
         Staging!Reusable, Staging!Invalid, Staging!places, Staging!work
<1>2. GateHeld'
  BY DEF StagingInv, StagingInstance, StagingTyped, GateHeld, Staging!Look, Staging!At,
         Staging!Goes, Staging!Reusable, Staging!Invalid, Staging!places, Staging!work
<1>3. RepairSound'
  BY DEF StagingInv, StagingInstance, StagingTyped, UploadState, GateHeld, RepairSound,
         Staging!Look, Staging!At, Staging!Goes, Staging!Reusable, Staging!Invalid,
         Staging!places, Staging!work
<1>4. SourcePlaced'
  BY DEF StagingInv, StagingInstance, StagingTyped, GateHeld, RepairSound, SourcePlaced, Behind,
         Staging!Look, Staging!At, Staging!Goes, Staging!Reusable, Staging!Invalid,
         Staging!places, Staging!work
<1>5. Staging!SourceIsStill'
  BY DEF StagingInv, StagingInstance, StagingTyped, GateHeld, Staging!SourceIsStill,
         Staging!Look, Staging!At, Staging!Goes, Staging!Reusable, Staging!Invalid,
         Staging!places, Staging!work
<1> QED BY <1>1, <1>2, <1>3, <1>4, <1>5 DEF StagingInv

LEMMA StagingIngest ==
  ASSUME StagingInstance, StagingInv, NEW u \in Upload, Staging!Ingest(u) PROVE StagingInv'
<1>1. StagingTyped'
  BY FreshPackage DEF StagingInv, StagingTyped, UploadState, Staging!Ingest, Staging!At,
         Staging!Goes, Staging!work
<1>2. GateHeld'
  BY FreshPackage DEF StagingInv, StagingInstance, StagingTyped, GateHeld, Staging!Ingest,
         Staging!At, Staging!Goes, Staging!work
<1>3. RepairSound'
  BY FreshPackage DEF StagingInv, StagingInstance, StagingTyped, UploadState, GateHeld,
         RepairSound, Staging!Ingest, Staging!At, Staging!Goes, Staging!work
<1>4. SourcePlaced'
  BY FreshPackage DEF StagingInv, StagingInstance, StagingTyped, GateHeld, RepairSound,
         SourcePlaced, Behind, Staging!Ingest, Staging!At, Staging!Goes, Staging!work
<1>5. Staging!SourceIsStill'
  BY FreshPackage DEF StagingInv, StagingInstance, StagingTyped, GateHeld, Staging!SourceIsStill,
         Staging!Ingest, Staging!At, Staging!Goes, Staging!work
<1> QED BY <1>1, <1>2, <1>3, <1>4, <1>5 DEF StagingInv

LEMMA StagingRelook ==
  ASSUME StagingInstance, StagingInv, NEW u \in Upload, Staging!Relook(u) PROVE StagingInv'
<1>1. StagingTyped'
  BY DEF StagingInv, StagingTyped, UploadState, Staging!Relook, Staging!At, Staging!Goes,
         Staging!Reusable, Staging!Invalid, Staging!places, Staging!work
<1>2. GateHeld'
  BY DEF StagingInv, StagingInstance, StagingTyped, GateHeld, Staging!Relook, Staging!At,
         Staging!Goes, Staging!Reusable, Staging!Invalid, Staging!places, Staging!work
<1>3. RepairSound'
  BY DEF StagingInv, StagingInstance, StagingTyped, UploadState, GateHeld, RepairSound,
         Staging!Relook, Staging!At, Staging!Goes, Staging!Reusable, Staging!Invalid,
         Staging!places, Staging!work
<1>4. SourcePlaced'
  BY DEF StagingInv, StagingInstance, StagingTyped, GateHeld, RepairSound, SourcePlaced, Behind,
         Staging!Relook, Staging!At, Staging!Goes, Staging!Reusable, Staging!Invalid,
         Staging!places, Staging!work
<1>5. Staging!SourceIsStill'
  BY DEF StagingInv, StagingInstance, StagingTyped, GateHeld, Staging!SourceIsStill,
         Staging!Relook, Staging!At, Staging!Goes, Staging!Reusable, Staging!Invalid,
         Staging!places, Staging!work
<1> QED BY <1>1, <1>2, <1>3, <1>4, <1>5 DEF StagingInv

LEMMA StagingRepairLooks ==
  ASSUME StagingInstance, StagingInv, NEW u \in Upload, Staging!RepairLooks(u) PROVE StagingInv'
<1>1. StagingTyped'
  BY FreshPackage DEF StagingInv, StagingTyped, UploadState, Staging!RepairLooks, Staging!At,
         Staging!InUse, Staging!Goes, Staging!work
<1>2. GateHeld'
  BY FreshPackage DEF StagingInv, StagingInstance, StagingTyped, GateHeld, Staging!RepairLooks,
         Staging!At, Staging!InUse, Staging!Goes, Staging!work
<1>3. RepairSound'
  BY ZenonT(30), FreshPackage DEF StagingInv, StagingInstance, StagingTyped, UploadState, GateHeld,
         RepairSound, Staging!RepairLooks, Staging!At, Staging!InUse, Staging!Goes, Staging!work
<1>4. SourcePlaced'
  BY ZenonT(30), FreshPackage DEF StagingInv, StagingInstance, StagingTyped, GateHeld, RepairSound,
         SourcePlaced, Behind, Staging!RepairLooks, Staging!At, Staging!InUse, Staging!Goes,
         Staging!work
<1>5. Staging!SourceIsStill'
  BY FreshPackage DEF StagingInv, StagingInstance, StagingTyped, GateHeld, Staging!SourceIsStill,
         Staging!RepairLooks, Staging!At, Staging!InUse, Staging!Goes, Staging!work
<1> QED BY <1>1, <1>2, <1>3, <1>4, <1>5 DEF StagingInv

LEMMA StagingRepairBegins ==
  ASSUME StagingInstance, StagingInv, NEW u \in Upload, Staging!RepairBegins(u) PROVE StagingInv'
<1>1. StagingTyped'
  BY DEF StagingInv, StagingTyped, UploadState, Staging!RepairBegins, Staging!At, Staging!InUse,
         Staging!Reusable, Staging!Goes, Staging!Drop, Staging!work
<1>2. GateHeld'
  BY DEF StagingInv, StagingInstance, StagingTyped, GateHeld, Staging!RepairBegins, Staging!At,
         Staging!InUse, Staging!Reusable, Staging!Goes, Staging!Drop, Staging!work
<1>3. RepairSound'
  BY DEF StagingInv, StagingInstance, StagingTyped, UploadState, GateHeld, RepairSound,
         Staging!RepairBegins, Staging!At, Staging!InUse, Staging!Reusable, Staging!Goes,
         Staging!Drop, Staging!work
<1>4. SourcePlaced'
  BY DEF StagingInv, StagingInstance, StagingTyped, GateHeld, RepairSound, SourcePlaced, Behind,
         Staging!RepairBegins, Staging!At, Staging!InUse, Staging!Reusable, Staging!Goes,
         Staging!Drop, Staging!work
<1>5. Staging!SourceIsStill'
  BY DEF StagingInv, StagingInstance, StagingTyped, GateHeld, Staging!SourceIsStill,
         Staging!RepairBegins, Staging!At, Staging!InUse, Staging!Reusable, Staging!Goes,
         Staging!Drop, Staging!work
<1> QED BY <1>1, <1>2, <1>3, <1>4, <1>5 DEF StagingInv

LEMMA StagingCopyRunHistory ==
  ASSUME StagingInstance, StagingInv, NEW u \in Upload, Staging!CopyRunHistory(u) PROVE StagingInv'
<1>1. /\ host = "up" /\ up[u] = "copying"
      /\ UNCHANGED <<current, backup, displaced, up, gate, host, worker, count>>
  BY DEF Staging!CopyRunHistory, Staging!At, Staging!work
<1>2. PICK r \in current.runs \ repl[u].runs : repl' = [repl EXCEPT ![u].runs = @ \cup {r}]
  BY DEF Staging!CopyRunHistory
<1>3. repl[u] \in Staging!PackageType /\ current \in Staging!PackageType
  BY <1>1 DEF StagingInv, StagingTyped, RepairSound
<1>4. r \in Run
  BY <1>3 DEF Staging!PackageType
<1>5. PICK p : p = repl[u]
  OBVIOUS
<1>6. PICK q : q = [p EXCEPT !.runs = @ \cup {r}]
  OBVIOUS
<1>7. repl' = [repl EXCEPT ![u] = q]
  BY <1>2, <1>5, <1>6
<1>8. q \in Staging!PackageType /\ q # Nil
  BY <1>3, <1>4, <1>5, <1>6, RunAdded
<1>9. StagingTyped'
  BY <1>1, <1>7, <1>8 DEF StagingInv, StagingTyped
<1>10. GateHeld'
  BY <1>1 DEF StagingInv, GateHeld
<1>11. RepairSound'
  BY <1>1, <1>7, <1>8 DEF StagingInv, StagingTyped, RepairSound
<1>12. SourcePlaced' /\ Staging!SourceIsStill'
  BY <1>1 DEF StagingInv, SourcePlaced, Behind, Staging!SourceIsStill
<1> QED BY <1>9, <1>10, <1>11, <1>12 DEF StagingInv

LEMMA StagingMoveAway ==
  ASSUME StagingInstance, StagingInv, NEW u \in Upload, Staging!MoveAway(u) PROVE StagingInv'
<1>1. StagingTyped'
  BY DEF StagingInv, StagingTyped, UploadState, Staging!MoveAway, Staging!At, Staging!Goes,
         Staging!work
<1>2. GateHeld'
  BY DEF StagingInv, StagingInstance, StagingTyped, GateHeld, Staging!MoveAway, Staging!At,
         Staging!Goes, Staging!work
<1>3. RepairSound'
  BY DEF StagingInv, StagingInstance, StagingTyped, UploadState, GateHeld, RepairSound,
         Staging!MoveAway, Staging!At, Staging!Goes, Staging!work
<1>4. SourcePlaced'
  BY DEF StagingInv, StagingInstance, StagingTyped, GateHeld, RepairSound, SourcePlaced, Behind,
         Staging!MoveAway, Staging!At, Staging!Goes, Staging!work
<1>5. Staging!SourceIsStill'
  BY DEF StagingInv, StagingInstance, StagingTyped, GateHeld, Staging!SourceIsStill,
         Staging!MoveAway, Staging!At, Staging!Goes, Staging!work
<1> QED BY <1>1, <1>2, <1>3, <1>4, <1>5 DEF StagingInv

LEMMA StagingCopyFails ==
  ASSUME StagingInstance, StagingInv, NEW u \in Upload, Staging!CopyFails(u) PROVE StagingInv'
<1>1. StagingTyped'
  BY Counted DEF StagingInv, StagingTyped, UploadState, Staging!CopyFails, Staging!At,
         Staging!Refuse, Staging!Goes, Staging!Drop, Staging!work
<1>2. GateHeld'
  BY DEF StagingInv, StagingInstance, StagingTyped, GateHeld, Staging!CopyFails, Staging!At,
         Staging!Refuse, Staging!Goes, Staging!Drop, Staging!work
<1>3. RepairSound'
  BY DEF StagingInv, StagingInstance, StagingTyped, UploadState, GateHeld, RepairSound,
         Staging!CopyFails, Staging!At, Staging!Refuse, Staging!Goes, Staging!Drop, Staging!work
<1>4. SourcePlaced'
  BY DEF StagingInv, StagingInstance, StagingTyped, GateHeld, RepairSound, SourcePlaced, Behind,
         Staging!CopyFails, Staging!At, Staging!Refuse, Staging!Goes, Staging!Drop, Staging!work
<1>5. Staging!SourceIsStill'
  BY DEF StagingInv, StagingInstance, StagingTyped, GateHeld, Staging!SourceIsStill,
         Staging!CopyFails, Staging!At, Staging!Refuse, Staging!Goes, Staging!Drop, Staging!work
<1> QED BY <1>1, <1>2, <1>3, <1>4, <1>5 DEF StagingInv

LEMMA StagingMoveIn ==
  ASSUME StagingInstance, StagingInv, NEW u \in Upload, Staging!MoveIn(u) PROVE StagingInv'
<1>1. StagingTyped'
  BY DEF StagingInv, StagingTyped, UploadState, Staging!MoveIn, Staging!At, Staging!Drop,
         Staging!Goes, Staging!Refuse, Staging!work
<1>2. GateHeld'
  BY DEF StagingInv, StagingInstance, StagingTyped, GateHeld, Staging!MoveIn, Staging!At,
         Staging!Drop, Staging!Goes, Staging!Refuse, Staging!work
<1>3. RepairSound'
  BY DEF StagingInv, StagingInstance, StagingTyped, UploadState, GateHeld, RepairSound,
         Staging!MoveIn, Staging!At, Staging!Drop, Staging!Goes, Staging!Refuse, Staging!work
<1>4. SourcePlaced'
  BY DEF StagingInv, StagingInstance, StagingTyped, GateHeld, RepairSound, SourcePlaced, Behind,
         Staging!MoveIn, Staging!At, Staging!Drop, Staging!Goes, Staging!Refuse, Staging!work
<1>5. Staging!SourceIsStill'
  BY DEF StagingInv, StagingInstance, StagingTyped, GateHeld, Staging!SourceIsStill,
         Staging!MoveIn, Staging!At, Staging!Drop, Staging!Goes, Staging!Refuse, Staging!work
<1> QED BY <1>1, <1>2, <1>3, <1>4, <1>5 DEF StagingInv

LEMMA StagingMoveInFails ==
  ASSUME StagingInstance, StagingInv, NEW u \in Upload, Staging!MoveInFails(u) PROVE StagingInv'
<1>1. StagingTyped'
  BY Counted DEF StagingInv, StagingTyped, UploadState, Staging!MoveInFails, Staging!At,
         Staging!Drop, Staging!Refuse, Staging!Goes, Staging!work
<1>2. GateHeld'
  BY DEF StagingInv, StagingInstance, StagingTyped, GateHeld, Staging!MoveInFails, Staging!At,
         Staging!Drop, Staging!Refuse, Staging!Goes, Staging!work
<1>3. RepairSound'
  BY DEF StagingInv, StagingInstance, StagingTyped, UploadState, GateHeld, RepairSound,
         Staging!MoveInFails, Staging!At, Staging!Drop, Staging!Refuse, Staging!Goes, Staging!work
<1>4. SourcePlaced'
  BY DEF StagingInv, StagingInstance, StagingTyped, GateHeld, RepairSound, SourcePlaced, Behind,
         Staging!MoveInFails, Staging!At, Staging!Drop, Staging!Refuse, Staging!Goes, Staging!work
<1>5. Staging!SourceIsStill'
  BY DEF StagingInv, StagingInstance, StagingTyped, GateHeld, Staging!SourceIsStill,
         Staging!MoveInFails, Staging!At, Staging!Drop, Staging!Refuse, Staging!Goes, Staging!work
<1> QED BY <1>1, <1>2, <1>3, <1>4, <1>5 DEF StagingInv

LEMMA StagingClean ==
  ASSUME StagingInstance, StagingInv, NEW u \in Upload, Staging!Clean(u) PROVE StagingInv'
<1>1. StagingTyped'
  BY Counted DEF StagingInv, StagingTyped, UploadState, Staging!Clean, Staging!At, Staging!Drop,
         Staging!Goes, Staging!work
<1>2. GateHeld'
  BY DEF StagingInv, StagingInstance, StagingTyped, GateHeld, Staging!Clean, Staging!At,
         Staging!Drop, Staging!Goes, Staging!work
<1>3. RepairSound'
  BY DEF StagingInv, StagingInstance, StagingTyped, UploadState, GateHeld, RepairSound,
         Staging!Clean, Staging!At, Staging!Drop, Staging!Goes, Staging!work
<1>4. SourcePlaced'
  BY DEF StagingInv, StagingInstance, StagingTyped, GateHeld, RepairSound, SourcePlaced, Behind,
         Staging!Clean, Staging!At, Staging!Drop, Staging!Goes, Staging!work
<1>5. Staging!SourceIsStill'
  BY DEF StagingInv, StagingInstance, StagingTyped, GateHeld, Staging!SourceIsStill,
         Staging!Clean, Staging!At, Staging!Drop, Staging!Goes, Staging!work
<1> QED BY <1>1, <1>2, <1>3, <1>4, <1>5 DEF StagingInv

LEMMA StagingClaim ==
  ASSUME StagingInstance, StagingInv, Staging!Claim PROVE StagingInv'
<1>1. PICK r \in Run : worker' = [run |-> r, of |-> current.of]
  BY DEF Staging!Claim
<1>2. /\ UNCHANGED <<current, repl, backup, displaced, up, gate, host, count>>
      /\ host = "up" /\ gate = Nil /\ current # Nil
  BY DEF Staging!Claim, Staging!places, Staging!Serving, Staging!Reusable
<1>3. worker'.run = r /\ worker'.of = current.of
  BY <1>1
<1>4. StagingTyped'
  BY <1>2, <1>3 DEF StagingInv, StagingTyped
<1>5. GateHeld'
  BY <1>2 DEF StagingInv, GateHeld
<1>6. RepairSound' /\ SourcePlaced'
  BY <1>2 DEF StagingInv, RepairSound, SourcePlaced, Behind
<1>7. Staging!SourceIsStill'
  BY <1>2, <1>3 DEF Staging!SourceIsStill
<1> QED BY <1>4, <1>5, <1>6, <1>7 DEF StagingInv

LEMMA StagingSeal ==
  ASSUME StagingInstance, StagingInv, Staging!Seal PROVE StagingInv'
<1>1. /\ worker # Nil /\ current # Nil /\ worker' = Nil
      /\ UNCHANGED <<repl, backup, displaced, up, gate, host, count>>
  BY DEF Staging!Seal
<1>2. current \in Staging!PackageType /\ worker.run \in Run /\ count' \in Counts
  BY <1>1 DEF StagingInv, StagingTyped
<1>3. PICK p, r : p = current /\ r = worker.run
  OBVIOUS
<1>4. PICK q : q = [p EXCEPT !.runs = @ \cup {r}]
  OBVIOUS
<1>5. current' = q
  BY <1>3, <1>4 DEF Staging!Seal
<1>6. q \in Staging!PackageType /\ q.of = p.of /\ q # Nil
  BY <1>2, <1>3, <1>4, RunAdded
<1> QED BY <1>1, <1>2, <1>3, <1>5, <1>6, PackageChanges

LEMMA StagingJobFails ==
  ASSUME StagingInstance, StagingInv, Staging!JobFails PROVE StagingInv'
<1>1. StagingTyped'
  BY DEF StagingInv, StagingTyped, UploadState, Staging!JobFails, Staging!places
<1>2. GateHeld'
  BY DEF StagingInv, StagingInstance, StagingTyped, GateHeld, Staging!JobFails, Staging!places
<1>3. RepairSound'
  BY DEF StagingInv, StagingInstance, StagingTyped, UploadState, GateHeld, RepairSound,
         Staging!JobFails, Staging!places
<1>4. SourcePlaced'
  BY DEF StagingInv, StagingInstance, StagingTyped, GateHeld, RepairSound, SourcePlaced, Behind,
         Staging!JobFails, Staging!places
<1>5. Staging!SourceIsStill'
  BY DEF StagingInv, StagingInstance, StagingTyped, GateHeld, Staging!SourceIsStill,
         Staging!JobFails, Staging!places
<1> QED BY <1>1, <1>2, <1>3, <1>4, <1>5 DEF StagingInv

LEMMA StagingSaveReview ==
  ASSUME StagingInstance, StagingInv, Staging!SaveReview PROVE StagingInv'
<1>1. PICK r \in current.runs : current' = [current EXCEPT !.reviews = @ \cup {r}]
  BY DEF Staging!SaveReview
<1>2. current # Nil /\ UNCHANGED <<repl, backup, displaced, up, gate, worker, host, count>>
  BY DEF Staging!SaveReview, Staging!Reusable
<1>3. current \in Staging!PackageType /\ count' \in Counts
  BY <1>2 DEF StagingInv, StagingTyped
<1>4. PICK p : p = current
  OBVIOUS
<1>5. r \in Run /\ p \in Staging!PackageType
  BY <1>3, <1>4 DEF Staging!PackageType
<1>6. PICK q : q = [p EXCEPT !.reviews = @ \cup {r}]
  OBVIOUS
<1>7. current' = q
  BY <1>1, <1>4, <1>6
<1>8. q \in Staging!PackageType /\ q.of = p.of /\ q # Nil
  BY <1>5, <1>6, ReviewAdded
<1> QED BY <1>2, <1>3, <1>4, <1>7, <1>8, PackageChanges

LEMMA StagingDamage ==
  ASSUME StagingInstance, StagingInv, Staging!Damage PROVE StagingInv'
<1>1. current # Nil /\ UNCHANGED <<repl, backup, displaced, up, gate, worker, host>>
  BY DEF Staging!Damage, Staging!Reusable, Staging!work
<1>2. current \in Staging!PackageType /\ count' \in Counts
  BY <1>1, Counted DEF StagingInv, StagingTyped, Staging!Damage
<1>3. PICK p : p = current
  OBVIOUS
<1>4. PICK q : q = [p EXCEPT !.whole = FALSE]
  OBVIOUS
<1>5. current' = q
  BY <1>3, <1>4 DEF Staging!Damage
<1>6. q \in Staging!PackageType /\ q.of = p.of /\ q # Nil
  BY <1>2, <1>3, <1>4, Damaged
<1> QED BY <1>1, <1>2, <1>3, <1>5, <1>6, PackageChanges

LEMMA StagingCrash ==
  ASSUME StagingInstance, StagingInv, Staging!Crash PROVE StagingInv'
<1>1. StagingTyped'
  BY Counted DEF StagingInv, StagingTyped, UploadState, Staging!Crash, Staging!places
<1>2. GateHeld'
  BY DEF StagingInv, StagingInstance, StagingTyped, GateHeld, Staging!Crash, Staging!places
<1>3. RepairSound'
  BY DEF StagingInv, StagingInstance, StagingTyped, UploadState, GateHeld, RepairSound,
         Staging!Crash, Staging!places
<1>4. SourcePlaced'
  BY DEF StagingInv, StagingInstance, StagingTyped, GateHeld, RepairSound, SourcePlaced, Behind,
         Staging!Crash, Staging!places
<1>5. Staging!SourceIsStill'
  BY DEF StagingInv, StagingInstance, StagingTyped, GateHeld, Staging!SourceIsStill,
         Staging!Crash, Staging!places
<1> QED BY <1>1, <1>2, <1>3, <1>4, <1>5 DEF StagingInv

LEMMA StagingStart ==
  ASSUME StagingInstance, StagingInv, Staging!Start PROVE StagingInv'
<1>1. StagingTyped'
  BY DEF StagingInv, StagingTyped, UploadState, Staging!Start, Staging!places, Staging!work
<1>2. GateHeld'
  BY DEF StagingInv, StagingInstance, StagingTyped, GateHeld, Staging!Start, Staging!places,
         Staging!work
<1>3. RepairSound'
  BY DEF StagingInv, StagingInstance, StagingTyped, UploadState, GateHeld, RepairSound,
         Staging!Start, Staging!places, Staging!work
<1>4. SourcePlaced'
  BY DEF StagingInv, StagingInstance, StagingTyped, GateHeld, RepairSound, SourcePlaced, Behind,
         Staging!Start, Staging!places, Staging!work
<1>5. Staging!SourceIsStill'
  BY DEF StagingInv, StagingInstance, StagingTyped, GateHeld, Staging!SourceIsStill,
         Staging!Start, Staging!places, Staging!work
<1> QED BY <1>1, <1>2, <1>3, <1>4, <1>5 DEF StagingInv

LEMMA StagingRecoverKeeps ==
  ASSUME StagingInstance, StagingInv, Staging!RecoverKeeps PROVE StagingInv'
<1>1. StagingTyped'
  BY DEF StagingInv, StagingTyped, UploadState, Staging!RecoverKeeps, Staging!Reusable,
         Staging!places, Staging!work
<1>2. GateHeld'
  BY DEF StagingInv, StagingInstance, StagingTyped, GateHeld, Staging!RecoverKeeps,
         Staging!Reusable, Staging!places, Staging!work
<1>3. RepairSound'
  BY DEF StagingInv, StagingInstance, StagingTyped, UploadState, GateHeld, RepairSound,
         Staging!RecoverKeeps, Staging!Reusable, Staging!places, Staging!work
<1>4. SourcePlaced'
  <2>1. current # Nil \/ ~ Behind
    BY WhatIsBehind DEF StagingInv, Staging!RecoverKeeps, Staging!Reusable
  <2> QED BY <2>1 DEF StagingInv, SourcePlaced, Behind, Staging!RecoverKeeps, Staging!places
<1>5. Staging!SourceIsStill'
  BY DEF StagingInv, StagingInstance, StagingTyped, GateHeld, Staging!SourceIsStill,
         Staging!RecoverKeeps, Staging!Reusable, Staging!places, Staging!work
<1> QED BY <1>1, <1>2, <1>3, <1>4, <1>5 DEF StagingInv

LEMMA StagingRecoverDisplaces ==
  ASSUME StagingInstance, StagingInv, Staging!RecoverDisplaces PROVE StagingInv'
<1>1. StagingTyped'
  BY Counted DEF StagingInv, StagingTyped, UploadState, Staging!RecoverDisplaces,
         Staging!Invalid, Staging!Reusable, Staging!work
<1>2. GateHeld'
  BY DEF StagingInv, StagingInstance, StagingTyped, GateHeld, Staging!RecoverDisplaces,
         Staging!Invalid, Staging!Reusable, Staging!work
<1>3. RepairSound'
  BY DEF StagingInv, StagingInstance, StagingTyped, UploadState, GateHeld, RepairSound,
         Staging!RecoverDisplaces, Staging!Invalid, Staging!Reusable, Staging!work
<1>4. SourcePlaced'
  BY DEF StagingInv, StagingInstance, StagingTyped, GateHeld, RepairSound, SourcePlaced, Behind,
         Staging!RecoverDisplaces, Staging!Invalid, Staging!Reusable, Staging!work
<1>5. Staging!SourceIsStill'
  BY DEF StagingInv, StagingInstance, StagingTyped, GateHeld, Staging!SourceIsStill,
         Staging!RecoverDisplaces, Staging!Invalid, Staging!Reusable, Staging!work
<1> QED BY <1>1, <1>2, <1>3, <1>4, <1>5 DEF StagingInv

LEMMA StagingRecoverPromotes ==
  ASSUME StagingInstance, StagingInv, Staging!RecoverPromotes PROVE StagingInv'
<1>1. PICK d \in Staging!Replacements \cup Staging!Backups :
        /\ current' = d
        /\ repl' = [u \in Upload |-> IF repl[u] = d THEN Nil ELSE repl[u]]
        /\ backup' = [u \in Upload |-> IF backup[u] = d THEN Nil ELSE backup[u]]
        /\ displaced' = displaced \ {d}
  BY DEF Staging!RecoverPromotes
<1>2. d \in Staging!PackageType /\ d # Nil
  BY WhatIsBehind DEF StagingInv, StagingInstance
<1>3. host = "recovering" /\ host' = "sweeping" /\ UNCHANGED <<up, gate, worker, count>>
  BY DEF Staging!RecoverPromotes, Staging!work
<1>4. gate = Nil /\ worker = Nil /\ \A u \in Upload : up[u] \in {"unsent", "answered", "refused"}
  BY <1>3 DEF StagingInv, GateHeld
<1>5. StagingTyped'
  BY <1>1, <1>2, <1>3 DEF StagingInv, StagingTyped
<1>6. GateHeld'
  BY <1>3, <1>4 DEF GateHeld
<1>7. RepairSound'
  <2>1. ASSUME NEW u \in Upload PROVE up'[u] = "unsent" => backup'[u] = Nil
    BY <1>1, <1>3 DEF StagingInv, RepairSound
  <2> QED BY <1>3, <1>4, <2>1 DEF RepairSound
<1>8. SourcePlaced' /\ Staging!SourceIsStill'
  BY <1>1, <1>2, <1>3, <1>4 DEF SourcePlaced, Staging!SourceIsStill
<1> QED BY <1>5, <1>6, <1>7, <1>8 DEF StagingInv

LEMMA StagingRecoverFails ==
  ASSUME StagingInstance, StagingInv, Staging!RecoverFails PROVE StagingInv'
<1>1. StagingTyped'
  BY Counted DEF StagingInv, StagingTyped, UploadState, Staging!RecoverFails, Staging!Nowhere,
         Staging!work
<1>2. GateHeld'
  BY DEF StagingInv, StagingInstance, StagingTyped, GateHeld, Staging!RecoverFails,
         Staging!Nowhere, Staging!work
<1>3. RepairSound'
  BY DEF StagingInv, StagingInstance, StagingTyped, UploadState, GateHeld, RepairSound,
         Staging!RecoverFails, Staging!Nowhere, Staging!work
<1>4. SourcePlaced'
  BY DEF StagingInv, StagingInstance, StagingTyped, GateHeld, RepairSound, SourcePlaced, Behind,
         Staging!RecoverFails, Staging!Nowhere, Staging!work
<1>5. Staging!SourceIsStill'
  BY DEF StagingInv, StagingInstance, StagingTyped, GateHeld, Staging!SourceIsStill,
         Staging!RecoverFails, Staging!Nowhere, Staging!work
<1> QED BY <1>1, <1>2, <1>3, <1>4, <1>5 DEF StagingInv

LEMMA StagingRecoverSweeps ==
  ASSUME StagingInstance, StagingInv, Staging!RecoverSweeps PROVE StagingInv'
<1>1. StagingTyped'
  BY DEF StagingInv, StagingTyped, UploadState, Staging!RecoverSweeps, Staging!Nowhere,
         Staging!work
<1>2. GateHeld'
  BY DEF StagingInv, StagingInstance, StagingTyped, GateHeld, Staging!RecoverSweeps,
         Staging!Nowhere, Staging!work
<1>3. RepairSound'
  BY DEF StagingInv, StagingInstance, StagingTyped, UploadState, GateHeld, RepairSound,
         Staging!RecoverSweeps, Staging!Nowhere, Staging!work
<1>4. SourcePlaced'
  BY DEF StagingInv, StagingInstance, StagingTyped, GateHeld, RepairSound, SourcePlaced, Behind,
         Staging!RecoverSweeps, Staging!Nowhere, Staging!work
<1>5. Staging!SourceIsStill'
  BY DEF StagingInv, StagingInstance, StagingTyped, GateHeld, Staging!SourceIsStill,
         Staging!RecoverSweeps, Staging!Nowhere, Staging!work
<1> QED BY <1>1, <1>2, <1>3, <1>4, <1>5 DEF StagingInv
LEMMA StagingInit == ASSUME StagingInstance, Staging!Init PROVE StagingInv
<1>1. /\ current = Nil /\ repl = [u \in Upload |-> Nil] /\ backup = [u \in Upload |-> Nil]
      /\ displaced = {} /\ up = [u \in Upload |-> "unsent"] /\ gate = Nil /\ worker = Nil /\ host = "up"
      /\ count = [damage |-> 0, crash |-> 0, fault |-> 0]
  BY DEF Staging!Init, Staging!Nowhere, Staging!NotSent
<1>2. StagingTyped
  BY <1>1 DEF StagingTyped, UploadState, Counts
<1>3. GateHeld /\ RepairSound /\ SourcePlaced /\ Staging!SourceIsStill
  BY <1>1 DEF GateHeld, RepairSound, SourcePlaced, Staging!SourceIsStill
<1> QED BY <1>2, <1>3 DEF StagingInv

LEMMA StagingNext == ASSUME StagingInstance, StagingInv, [Staging!Next]_Staging!vars PROVE StagingInv'
<1>1. CASE UNCHANGED Staging!vars
  BY <1>1 DEF Staging!vars, StagingInv, StagingTyped, GateHeld, RepairSound, SourcePlaced, Behind,
       Staging!SourceIsStill
<1>2. ASSUME NEW u \in Upload,
             \/ Staging!Look(u) \/ Staging!Ingest(u) \/ Staging!Relook(u) \/ Staging!RepairLooks(u)
             \/ Staging!RepairBegins(u) \/ Staging!CopyRunHistory(u) \/ Staging!MoveAway(u)
             \/ Staging!CopyFails(u) \/ Staging!MoveIn(u) \/ Staging!MoveInFails(u) \/ Staging!Clean(u)
      PROVE  StagingInv'
  BY <1>2, StagingLook, StagingIngest, StagingRelook, StagingRepairLooks, StagingRepairBegins,
     StagingCopyRunHistory, StagingMoveAway, StagingCopyFails, StagingMoveIn, StagingMoveInFails,
     StagingClean
<1>3. CASE \/ Staging!Claim \/ Staging!Seal \/ Staging!JobFails \/ Staging!SaveReview \/ Staging!Damage
  BY <1>3, StagingClaim, StagingSeal, StagingJobFails, StagingSaveReview, StagingDamage
<1>4. CASE \/ Staging!Crash \/ Staging!Start \/ Staging!RecoverKeeps \/ Staging!RecoverDisplaces
           \/ Staging!RecoverPromotes \/ Staging!RecoverFails \/ Staging!RecoverSweeps
  BY <1>4, StagingCrash, StagingStart, StagingRecoverKeeps, StagingRecoverDisplaces,
     StagingRecoverPromotes, StagingRecoverFails, StagingRecoverSweeps
<1> QED BY <1>1, <1>2, <1>3, <1>4 DEF Staging!Next

(* For any number of uploads, damages, faults and deaths of the Agent.     *)
THEOREM StagingInvariant == ASSUME StagingInstance PROVE Staging!Spec => []StagingInv
<1>1. Staging!Init => StagingInv
  BY StagingInit
<1>2. StagingInv /\ [Staging!Next]_Staging!vars => StagingInv'
  BY StagingNext
<1> QED BY <1>1, <1>2, PTL DEF Staging!Spec

(* _repair_existing_staging (craig_ingest.py): no repair exchanges the     *)
(* directory that a job reads, and what an accepted upload left is there,  *)
(* or behind in a backup, wherever a repair failed or the Agent died.      *)
THEOREM StagingSourceKept ==
  ASSUME StagingInstance PROVE Staging!Spec => [](Staging!SourceIsStill /\ Staging!AcceptedIsThere)
<1>1. StagingInv => Staging!SourceIsStill /\ Staging!AcceptedIsThere
  BY WhatIsBehind DEF StagingInv, SourcePlaced, Staging!AcceptedIsThere
<1> QED BY <1>1, StagingInvariant, PTL

-----------------------------------------------------------------------------
\* What a job, a user and a damage do to the source.
LEMMA RunsGrow ==
  ASSUME StagingInstance, StagingInv, Staging!Seal \/ Staging!SaveReview \/ Staging!Damage
  PROVE  /\ current # Nil /\ current' # Nil /\ current.runs \subseteq current'.runs
         /\ UNCHANGED <<up, backup>> /\ current'.of = current.of
         /\ Staging!Seal => current'.runs = current.runs \cup {worker.run}
<1>1. current # Nil /\ UNCHANGED <<up, backup>>
  BY DEF Staging!Seal, Staging!SaveReview, Staging!Damage, Staging!Reusable
<1>2. PICK p : p = current
  OBVIOUS
<1>3. p \in Staging!PackageType
  BY <1>1, <1>2 DEF StagingInv, StagingTyped
<1>4. CASE Staging!Seal
  <2>1. PICK r : r = worker.run
    OBVIOUS
  <2>2. PICK q : q = [p EXCEPT !.runs = @ \cup {r}]
    OBVIOUS
  <2>3. current' = q
    BY <1>2, <1>4, <2>1, <2>2 DEF Staging!Seal
  <2>4. r \in Run
    BY <1>4, <2>1 DEF Staging!Seal, StagingInv, StagingTyped
  <2>5. q.runs = p.runs \cup {r} /\ q.of = p.of /\ q # Nil
    BY <1>3, <2>2, <2>4, RunAdded
  <2> QED BY <1>1, <1>2, <2>1, <2>3, <2>5
<1>5. CASE Staging!SaveReview /\ ~ Staging!Seal
  <2>1. PICK r \in current.runs : current' = [current EXCEPT !.reviews = @ \cup {r}]
    BY <1>5 DEF Staging!SaveReview
  <2>2. PICK q : q = [p EXCEPT !.reviews = @ \cup {r}]
    OBVIOUS
  <2>3. r \in Run
    BY <1>2, <1>3, <2>1 DEF Staging!PackageType
  <2>4. q.runs = p.runs /\ q.of = p.of /\ q # Nil
    BY <1>3, <2>2, <2>3, ReviewAdded
  <2> QED BY <1>1, <1>2, <1>5, <2>1, <2>2, <2>4
<1>6. CASE Staging!Damage /\ ~ Staging!Seal
  <2>1. PICK q : q = [p EXCEPT !.whole = FALSE]
    OBVIOUS
  <2>2. current' = q
    BY <1>2, <1>6, <2>1 DEF Staging!Damage
  <2>3. q.runs = p.runs /\ q.of = p.of /\ q # Nil
    BY <1>3, <2>1, Damaged
  <2> QED BY <1>1, <1>2, <1>6, <2>2, <2>3
<1> QED BY <1>4, <1>5, <1>6

\* While the Agent lives, a run stays where it is or moves with the source.
LEMMA RunsStay ==
  ASSUME StagingInstance, RunsInv, MaxCrash = 0, NEW r, RunKept(r), [Staging!Next]_Staging!vars
  PROVE  RunKept(r)'
<1> USE DEF RunKept, RunsInv
<1>1. CASE UNCHANGED Staging!vars
  BY <1>1 DEF Staging!vars
<1>2. ASSUME NEW u \in Upload, Staging!Look(u) \/ Staging!Ingest(u) \/ Staging!Relook(u)
      PROVE  RunKept(r)'
  BY <1>2, FreshPackage DEF Staging!Look, Staging!Ingest, Staging!Relook, Staging!places, Staging!At, Staging!Goes, StagingInv, StagingTyped
<1>3. ASSUME NEW u \in Upload, Staging!RepairLooks(u) \/ Staging!RepairBegins(u) \/ Staging!CopyRunHistory(u)
      PROVE  RunKept(r)'
  BY <1>3 DEF Staging!RepairLooks, Staging!RepairBegins, Staging!CopyRunHistory, Staging!places, Staging!At, Staging!Goes, StagingInv, StagingTyped
<1>4. ASSUME NEW u \in Upload, Staging!MoveAway(u) PROVE RunKept(r)'
  BY <1>4 DEF Staging!MoveAway, Staging!At, Staging!Goes, StagingInv, StagingTyped, UploadState, RepairSound
<1>5. ASSUME NEW u \in Upload, Staging!CopyFails(u) PROVE RunKept(r)'
  BY <1>5 DEF Staging!CopyFails, Staging!Refuse, Staging!At, Staging!Goes, StagingInv, StagingTyped
<1>6. ASSUME NEW u \in Upload, Staging!MoveIn(u) PROVE RunKept(r)'
  BY <1>6 DEF Staging!MoveIn, Staging!Refuse, Staging!Drop, Staging!At, Staging!Goes, StagingInv, StagingTyped, RepairSound
<1>7. ASSUME NEW u \in Upload, Staging!MoveInFails(u) PROVE RunKept(r)'
  BY <1>7 DEF Staging!MoveInFails, Staging!Refuse, Staging!Drop, Staging!At, Staging!Goes, StagingInv, StagingTyped
<1>8. ASSUME NEW u \in Upload, Staging!Clean(u) PROVE RunKept(r)'
  BY <1>8 DEF Staging!Clean, Staging!Drop, Staging!At, Staging!Goes, StagingInv, StagingTyped
<1>9. CASE Staging!Seal \/ Staging!SaveReview \/ Staging!Damage
  <2>1. current # Nil /\ current' # Nil /\ current.runs \subseteq current'.runs /\ UNCHANGED <<up, backup>>
    BY <1>9, RunsGrow
  <2> QED BY <2>1
<1>10. CASE Staging!Claim \/ Staging!JobFails
  BY <1>10 DEF Staging!Claim, Staging!JobFails, Staging!places
<1>11. ~ Staging!Crash /\ host = "up"
  <2>1. host = "up" /\ count.crash = 0
    OBVIOUS
  <2>2. ~ (count.crash < MaxCrash)
    BY ONLY <2>1, MaxCrash = 0, SMT
  <2> QED BY ONLY <2>1, <2>2 DEF Staging!Crash
<1> QED BY <1>1, <1>2, <1>3, <1>4, <1>5, <1>6, <1>7, <1>8, <1>9, <1>10, <1>11
        DEF Staging!Next, Staging!Start, Staging!RecoverKeeps, Staging!RecoverDisplaces,
            Staging!RecoverPromotes, Staging!RecoverFails, Staging!RecoverSweeps

\* What no death of the Agent changes, and where the sealed runs come from.
LEMMA RunsStep ==
  ASSUME StagingInstance, RunsInv, MaxCrash = 0, [Staging!Next]_Staging!vars PROVE RunsInv'
<1>1. StagingInv'
  BY StagingNext DEF RunsInv
<1>2. host = "up" /\ count.crash = 0 /\ StagingInv
  BY DEF RunsInv
<1>3. ~ Staging!Crash
  <2>1. ~ (count.crash < MaxCrash)
    BY ONLY <1>2, MaxCrash = 0, SMT
  <2> QED BY ONLY <2>1 DEF Staging!Crash
<1>4. host' = "up"
  BY <1>2, <1>3 DEF Staging!Next, Staging!vars, Staging!Look, Staging!Ingest, Staging!Relook,
       Staging!RepairLooks, Staging!RepairBegins, Staging!CopyRunHistory, Staging!MoveAway,
       Staging!CopyFails, Staging!MoveIn, Staging!MoveInFails, Staging!Clean, Staging!Claim, Staging!Seal,
       Staging!JobFails, Staging!SaveReview, Staging!Damage, Staging!Start, Staging!RecoverKeeps,
       Staging!RecoverDisplaces, Staging!RecoverPromotes, Staging!RecoverFails, Staging!RecoverSweeps
<1>5. count'.crash = count.crash
  <2>1. \/ count' = count
        \/ count' = [count EXCEPT !.fault = @ + 1]
        \/ count' = [count EXCEPT !.damage = @ + 1]
    BY <1>3 DEF Staging!Next, Staging!vars, Staging!Look, Staging!Ingest, Staging!Relook, Staging!Fault,
       Staging!RepairLooks, Staging!RepairBegins, Staging!CopyRunHistory, Staging!MoveAway,
       Staging!CopyFails, Staging!MoveIn, Staging!MoveInFails, Staging!Clean, Staging!Claim, Staging!Seal,
       Staging!JobFails, Staging!SaveReview, Staging!Damage, Staging!Start, Staging!RecoverKeeps,
       Staging!RecoverDisplaces, Staging!RecoverPromotes, Staging!RecoverFails, Staging!RecoverSweeps
  <2>2. count \in Counts
    BY <1>2 DEF StagingInv, StagingTyped
  <2> QED BY <2>1, <2>2 DEF Counts
<1>6. ASSUME NEW r, r \in sealed' PROVE RunKept(r)'
  <2>1. CASE r \in sealed
    BY <2>1, RunsStay DEF RunsInv
  <2>2. CASE Staging!Seal /\ r = worker.run
    <3>1. current' # Nil /\ r \in current'.runs
      BY <1>2, <2>2, RunsGrow
    <3> QED BY <3>1 DEF RunKept
  <2>3. Staging!Seal \/ sealed' = sealed
    BY <1>3 DEF Staging!Next, Staging!vars, Staging!work, Staging!Look, Staging!Ingest, Staging!Relook,
       Staging!RepairLooks, Staging!RepairBegins, Staging!CopyRunHistory, Staging!MoveAway,
       Staging!CopyFails, Staging!MoveIn, Staging!MoveInFails, Staging!Clean, Staging!Claim,
       Staging!JobFails, Staging!SaveReview, Staging!Damage, Staging!Start, Staging!RecoverKeeps,
       Staging!RecoverDisplaces, Staging!RecoverPromotes, Staging!RecoverFails, Staging!RecoverSweeps
  <2>4. Staging!Seal => sealed' = sealed \cup {worker.run}
    BY DEF Staging!Seal
  <2> QED BY <1>6, <2>1, <2>2, <2>3, <2>4
<1> QED BY <1>1, <1>2, <1>4, <1>5, <1>6 DEF RunsInv

(* _copy_run_history (craig_ingest.py): a repair takes the completed runs  *)
(* along; as long as the Agent does not die in one, none is lost.          *)
THEOREM StagingRunsKept ==
  ASSUME StagingInstance, MaxCrash = 0 PROVE Staging!Spec => []Staging!RunsAreKept
<1>1. Staging!Init => RunsInv
  <2>1. Staging!Init => sealed = {} /\ host = "up" /\ count.crash = 0
    BY DEF Staging!Init
  <2> QED BY <2>1, StagingInit DEF RunsInv
<1>2. RunsInv /\ [Staging!Next]_Staging!vars => RunsInv'
  BY RunsStep
<1>3. RunsInv => Staging!RunsAreKept
  <2> SUFFICES ASSUME RunsInv, NEW r \in sealed PROVE \E d \in Staging!OnDisk : r \in d.runs
    BY DEF Staging!RunsAreKept
  <2>1. RunKept(r)
    BY DEF RunsInv
  <2> QED BY <2>1 DEF RunKept, Staging!OnDisk, Staging!Backups
<1> QED BY <1>1, <1>2, <1>3, PTL DEF Staging!Spec


-----------------------------------------------------------------------------
(* InstallationMaintenance *)
CONSTANTS Process, Version, First, Stray, Wish, Trouble, MaxWish, MaxOpen, MaxTrouble
VARIABLES tree, marker, product, guard, mutex, proc, msi, helper, journal, stale, begun, proven, tally

Installation == INSTANCE InstallationMaintenance WITH count <- tally

Entry ==
  [id : Nat, action : {Nil, "update", "uninstall"}, target : Version \cup {Nil},
   status : {Nil, "running", "completed", "failed"},
   stage : {Nil, "waiting_for_ui_exit", "stopping_agent", "running_msi", "verifying_install",
            "verifying_agent", "restarting_ui", "completed", "failed", "closed"}]

ProcRecord ==
  [pc : {"off", "waiting", "deciding", "ending others", "cleaning", "marking", "recovering",
         "recovered", "up"},
   version : Version \cup {Nil}, read : Entry \cup {Nil}]

Trees == [Version -> {"absent", "partial", "whole"}]
Saved == [tree : Trees, marker : Version \cup {Nil}, product : Version \cup {Nil}]

MsiState ==
  {"idle", "asked", "stopping", "removing", "copying", "copied", "verifying", "awaiting",
   "registering", "erasing", "committing", "restoring", "reviving", "restarting"}

MsiRecord ==
  [pc : MsiState, kind : {Nil, "major_upgrade", "uninstall"}, target : Version \cup {Nil},
   asker : {Nil, "user", "helper"}, candidate : Process \cup {Nil}, saved : Saved \cup {Nil}]

HelperState ==
  {"idle", "guarding", "waiting", "stopped", "running_msi", "installed", "checking", "meeting",
   "awaiting", "completing", "failed"}

HelperRecord == [pc : HelperState, with : Process \cup {Nil}, record : Entry]

GuardRecord == [action : {"major_upgrade", "uninstall"}, target : Version \cup {Nil}, aged : BOOLEAN]

(* "No value" is no process, version, record or word of a journal.         *)
InstallationInstance ==
  /\ Nil \notin Process \cup Version \cup GuardRecord \cup Entry
                \cup {"msi", "major_upgrade", "uninstall", "recovered", "completed",
                      "verifying_install", "verifying_agent", "restarting_ui"}
  /\ "msi" \notin Process
  /\ First \in Version /\ Stray \subseteq {"absent", "partial", "whole"}

\* Where a transaction has saved what it will put back.
Changing == {"copying", "copied", "verifying", "awaiting", "registering", "erasing", "restoring"}

\* A process that closes a journal has read one.
ProcTyped ==
  /\ proc \in [Process -> ProcRecord]
  /\ \A p \in Process : proc[p].pc = "recovered" => proc[p].read \in Entry

InstallTyped ==
  /\ tree \in Trees /\ marker \in Version \cup {Nil} /\ product \in Version \cup {Nil}
  /\ guard \in GuardRecord \cup {Nil}
  /\ mutex \in Process \cup {Nil, "msi"}
  /\ ProcTyped
  /\ msi \in MsiRecord /\ helper \in HelperRecord
  /\ msi.pc # "idle" => msi.target \in Version /\ msi.kind # Nil
  /\ msi.pc \in Changing => msi.saved \in Saved
  /\ journal \in Entry /\ begun \in Seq(Version \cup {Nil})

(* The operation that the helper is about is the last that has begun, and  *)
(* once its transaction ended well it is proven.                           *)
Proven == {"verifying_install", "verifying_agent", "restarting_ui", "completed"}
HelperBegan ==
  /\ helper.pc # "idle" => helper.record.status = "running"
  /\ helper.pc = "guarding" =>
       helper.record.id = Len(begun) + 1 /\ helper.record.stage = "waiting_for_ui_exit"
  /\ helper.pc \notin {"idle", "guarding"} =>
       helper.record.id \in DOMAIN begun /\ begun[helper.record.id] = helper.record.target
HelperAsked ==
  helper.pc = "running_msi" =>
    msi.pc # "idle" /\ msi.asker = "helper" /\ msi.target = helper.record.target
HelperProven ==
  helper.pc \in {"installed", "checking", "meeting", "awaiting", "completing"} =>
    helper.record.id \in proven
JournalProven == journal.stage \in Proven \/ journal.status = "completed" => journal.id \in proven
ReadProven ==
  \A p \in Process : proc[p].read # Nil /\ proc[p].read.stage \in Proven => proc[p].read.id \in proven

ReceiptSound == HelperBegan /\ HelperAsked /\ HelperProven /\ JournalProven /\ ReadProven

(* Without uninstallations by the helper: while Windows Installer works    *)
(* its guard stands, and nobody is past it.                                *)
Guarded == Installation!Transaction \cup {"stopping", "reviving"}

RepairsHold ==
  /\ \A p \in Process : proc[p].pc \in Installation!Repairing => mutex = p
  /\ msi.pc = "stopping" => mutex = "msi"
GuardStands == msi.pc \in Guarded => guard # Nil
NobodyRepairs ==
  msi.pc \in Installation!Transaction \cup {"reviving"} =>
    \A p \in Process : proc[p].pc \notin Installation!Repairing
OnlyUpdates == helper.pc # "idle" => helper.record.action = "update" /\ helper.pc # "guarding"

Alone == RepairsHold /\ GuardStands /\ NobodyRepairs /\ OnlyUpdates

(* What is registered is whole, or will be when the transaction has ended; *)
(* who removes the other versions is of the one that is registered.        *)
Chosen == {"ending others", "cleaning", "marking"}
ChosenFit == \A p \in Process : proc[p].pc \in Chosen => product \in {Nil, proc[p].version}
ProductWhole == msi.pc \notin Changing /\ product # Nil => Installation!Whole(product)
SavedWhole ==
  msi.pc \in Changing /\ msi.saved.product # Nil => msi.saved.tree[msi.saved.product] = "whole"
TargetWhole == msi.pc \in {"verifying", "awaiting", "registering"} => Installation!Whole(msi.target)

WholeSound == ChosenFit /\ ProductWhole /\ SavedWhole /\ TargetWhole

(* Without deaths as well: a guard stands only while it is needed, and the *)
(* version it is for is the only one that starts beside it.                *)
Running == {"recovering", "recovered", "up"}
GuardExact ==
  /\ guard # Nil <=> msi.pc \in Guarded
  /\ guard # Nil /\ guard.action = "major_upgrade" => guard.target = msi.target
TargetRuns ==
  msi.pc \in Installation!Transaction \cup {"reviving"} =>
    \A p \in Process : proc[p].pc \in Running => proc[p].version = msi.target
OneRuns ==
  \A p, q \in Process :
    proc[p].pc \in Running \cup {"cleaning", "marking"} /\ proc[q].pc \in Running
      => proc[p].version = proc[q].version

OneSound == GuardExact /\ TargetRuns /\ OneRuns

ProcState == {"off", "waiting", "deciding", "ending others", "cleaning", "marking", "recovering", "recovered", "up"}

LEMMA OffIsProc ==
  ASSUME InstallationInstance
  PROVE  /\ Installation!Off \in ProcRecord /\ Installation!Off.pc = "off" /\ Installation!Off.read = Nil
         /\ Installation!Off.version = Nil
         /\ \A v \in Version \cup {Nil} :
              /\ Installation!Started(v) \in ProcRecord
              /\ Installation!Started(v).pc = "waiting" /\ Installation!Started(v).read = Nil
              /\ Installation!Started(v).version = v
BY DEF Installation!Off, Installation!Started, ProcRecord

LEMMA ProcGoes ==
  ASSUME proc \in [Process -> ProcRecord], NEW p \in Process, NEW x \in ProcState, Installation!Goes(p, x)
  PROVE  /\ proc' \in [Process -> ProcRecord]
         /\ ProcTyped /\ x # "recovered" => ProcTyped'
         /\ proc'[p].pc = x /\ proc'[p].version = proc[p].version /\ proc'[p].read = proc[p].read
         /\ \A q \in Process \ {p} : proc'[q] = proc[q]
<1>1. PICK r : r = [proc[p] EXCEPT !.pc = x]
  OBVIOUS
<1>2. proc' = [proc EXCEPT ![p] = r]
  BY <1>1 DEF Installation!Goes
<1>3. r \in ProcRecord /\ r.pc = x /\ r.version = proc[p].version /\ r.read = proc[p].read
  BY <1>1 DEF ProcRecord, ProcState
<1>4. ASSUME ProcTyped, x # "recovered" PROVE ProcTyped'
  BY <1>2, <1>3, <1>4 DEF ProcTyped
<1> QED BY <1>2, <1>3, <1>4

\* Who ends and who is started holds nothing.
Quiet ==
  /\ proc' \in [Process -> ProcRecord]
  /\ \A q \in Process : proc'[q] = proc[q] \/ (proc'[q].pc \in {"off", "waiting"} /\ proc'[q].read = Nil)

LEMMA QuietSteps ==
  ASSUME InstallationInstance, ProcTyped
  PROVE  /\ Quiet => ProcTyped'
         /\ \A p \in Process : Installation!Ends(p) =>
              Quiet /\ proc'[p].pc = "off" /\ \A q \in Process \ {p} : proc'[q] = proc[q]
         /\ Installation!NobodyRuns => Quiet /\ \A p \in Process : proc'[p].pc = "off"
         /\ \A v \in Version \cup {Nil}, p \in Process : proc' = [proc EXCEPT ![p] = Installation!Started(v)] =>
              /\ Quiet /\ proc'[p].pc = "waiting" /\ proc'[p].version = v
              /\ \A q \in Process \ {p} : proc'[q] = proc[q]
         /\ \A v \in Version : Installation!Launch(v) => Quiet
         /\ UNCHANGED proc => Quiet
<1> USE OffIsProc DEF Quiet
<1>0. proc \in [Process -> ProcRecord]
  BY DEF ProcTyped
<1>5. Quiet => ProcTyped'
  BY DEF ProcTyped
<1>1. ASSUME NEW p \in Process, Installation!Ends(p)
      PROVE  Quiet /\ proc'[p].pc = "off" /\ \A q \in Process \ {p} : proc'[q] = proc[q]
  BY <1>0, <1>1 DEF Installation!Ends
<1>2. ASSUME Installation!NobodyRuns PROVE Quiet /\ \A p \in Process : proc'[p].pc = "off"
  BY <1>2 DEF Installation!NobodyRuns
<1>3. ASSUME NEW v \in Version \cup {Nil}, NEW p \in Process, proc' = [proc EXCEPT ![p] = Installation!Started(v)]
      PROVE  /\ Quiet /\ proc'[p].pc = "waiting" /\ proc'[p].version = v
             /\ \A q \in Process \ {p} : proc'[q] = proc[q]
  BY <1>0, <1>3
<1>4. ASSUME NEW v \in Version, Installation!Launch(v) PROVE Quiet
  BY <1>0, <1>3, <1>4 DEF Installation!Launch, Installation!Idle
<1> QED BY <1>0, <1>1, <1>2, <1>3, <1>4, <1>5

LEMMA MsiSteps ==
  ASSUME InstallationInstance, msi \in MsiRecord
  PROVE  /\ \A x \in MsiState : Installation!MsiGoes(x) =>
              /\ msi' \in MsiRecord /\ msi'.pc = x /\ msi'.kind = msi.kind /\ msi'.target = msi.target
              /\ msi'.asker = msi.asker /\ msi'.saved = msi.saved /\ msi'.candidate = msi.candidate
         /\ Installation!NoMsi \in MsiRecord /\ Installation!NoMsi.pc = "idle"
         /\ \A k \in {"major_upgrade", "uninstall"}, v \in Version, a \in {"user", "helper"} :
              /\ Installation!NewMsi(k, v, a) \in MsiRecord
              /\ Installation!NewMsi(k, v, a).pc = "asked" /\ Installation!NewMsi(k, v, a).kind = k
              /\ Installation!NewMsi(k, v, a).target = v /\ Installation!NewMsi(k, v, a).asker = a
<1>1. ASSUME NEW x \in MsiState, Installation!MsiGoes(x)
      PROVE  /\ msi' \in MsiRecord /\ msi'.pc = x /\ msi'.kind = msi.kind /\ msi'.target = msi.target
             /\ msi'.asker = msi.asker /\ msi'.saved = msi.saved /\ msi'.candidate = msi.candidate
  BY <1>1 DEF Installation!MsiGoes, MsiRecord
<1>2. Installation!NoMsi \in MsiRecord /\ Installation!NoMsi.pc = "idle"
  BY DEF Installation!NoMsi, MsiRecord, MsiState
<1>3. ASSUME NEW k \in {"major_upgrade", "uninstall"}, NEW v \in Version, NEW a \in {"user", "helper"}
      PROVE  /\ Installation!NewMsi(k, v, a) \in MsiRecord
             /\ Installation!NewMsi(k, v, a).pc = "asked" /\ Installation!NewMsi(k, v, a).kind = k
             /\ Installation!NewMsi(k, v, a).target = v /\ Installation!NewMsi(k, v, a).asker = a
  <2>1. PICK m : m = Installation!NewMsi(k, v, a)
    OBVIOUS
  <2>2. m = [pc |-> "asked", kind |-> k, target |-> v, asker |-> a, candidate |-> Nil, saved |-> Nil]
    BY <2>1 DEF Installation!NewMsi, Installation!NoMsi
  <2>3. m \in MsiRecord
    BY <2>2 DEF MsiRecord, MsiState
  <2> QED BY <2>1, <2>2, <2>3
<1> QED BY <1>1, <1>2, <1>3

LEMMA MsiReturn ==
  ASSUME InstallationInstance, msi \in MsiRecord, helper \in HelperRecord, NEW code \in {"failed", "installed"},
         Installation!MsiReturns(code)
  PROVE  /\ msi' \in MsiRecord /\ msi'.pc = "idle" /\ helper' \in HelperRecord
         /\ helper'.record = helper.record
         /\ \/ helper' = helper /\ ~ (msi.asker = "helper" /\ helper.pc = "running_msi")
            \/ helper'.pc = code /\ msi.asker = "helper" /\ helper.pc = "running_msi"
<1>1. msi' \in MsiRecord /\ msi'.pc = "idle"
  BY MsiSteps DEF Installation!MsiReturns
<1>2. CASE ~ (msi.asker = "helper" /\ helper.pc = "running_msi")
  BY <1>1, <1>2 DEF Installation!MsiReturns
<1>3. CASE msi.asker = "helper" /\ helper.pc = "running_msi"
  <2>1. helper' = [helper EXCEPT !.pc = code]
    BY <1>3 DEF Installation!MsiReturns
  <2>2. helper' \in HelperRecord /\ helper'.pc = code /\ helper'.record = helper.record
    BY <2>1 DEF HelperRecord, HelperState
  <2> QED BY <1>1, <1>3, <2>2
<1> QED BY <1>2, <1>3

LEMMA HelperGoesOn ==
  ASSUME helper \in HelperRecord, NEW x \in HelperState, Installation!HelperGoes(x)
  PROVE  helper' \in HelperRecord /\ helper'.pc = x /\ helper'.record = helper.record /\ helper'.with = helper.with
BY DEF Installation!HelperGoes, HelperRecord

\* What the helper writes: its record, as it is then.
LEMMA StageWritten ==
  ASSUME helper \in HelperRecord, NEW x \in {"running_msi", "verifying_install", "verifying_agent", "restarting_ui"},
         NEW pc \in HelperState, Installation!Stage(x, pc, Nil)
  PROVE  /\ helper' \in HelperRecord /\ helper'.pc = pc /\ journal' \in Entry /\ journal' = helper'.record
         /\ helper'.record.id = helper.record.id /\ helper'.record.target = helper.record.target
         /\ helper'.record.action = helper.record.action /\ helper'.record.status = helper.record.status
         /\ journal'.stage = x
<1>1. PICK e : e = helper.record
  OBVIOUS
<1>2. PICK d : d = [e EXCEPT !.stage = x]
  OBVIOUS
<1>3. e \in Entry
  BY <1>1 DEF HelperRecord
<1>4. d \in Entry /\ d.id = e.id /\ d.target = e.target /\ d.action = e.action /\ d.status = e.status /\ d.stage = x
  BY <1>2, <1>3 DEF Entry
<1>5. helper' = [pc |-> pc, with |-> Nil, record |-> d] /\ journal' = d
  BY <1>1, <1>2 DEF Installation!Stage, Installation!Writes
<1> QED BY <1>1, <1>4, <1>5 DEF HelperRecord

LEMMA Settled ==
  ASSUME helper \in HelperRecord, NEW x \in {"completed", "failed"}, Installation!Settle(x)
  PROVE  /\ helper' \in HelperRecord /\ helper'.pc = "idle" /\ journal' \in Entry
         /\ journal'.id = helper.record.id /\ journal'.status = x /\ journal'.stage = x
         /\ guard' = IF helper.record.action = "uninstall" THEN Nil ELSE guard
<1>1. PICK e : e = helper.record
  OBVIOUS
<1>2. PICK d : d = [e EXCEPT !.status = x, !.stage = x]
  OBVIOUS
<1>3. e \in Entry
  BY <1>1 DEF HelperRecord
<1>4. d \in Entry /\ d.id = e.id /\ d.status = x /\ d.stage = x
  BY <1>2, <1>3 DEF Entry
<1>5. helper' = Installation!NoHelper /\ journal' = d
      /\ guard' = IF helper.record.action = "uninstall" THEN Nil ELSE guard
  BY <1>1, <1>2 DEF Installation!Settle, Installation!Writes
<1>6. Installation!NoHelper \in HelperRecord /\ Installation!NoHelper.pc = "idle"
  BY DEF Installation!NoHelper, Installation!NoRecord, HelperRecord, HelperState, Entry
<1> QED BY <1>1, <1>4, <1>5, <1>6

LEMMA NoHelperTyped ==
  /\ Installation!NoHelper \in HelperRecord /\ Installation!NoHelper.pc = "idle"
  /\ Installation!NoRecord \in Entry /\ Installation!NoRecord.status = Nil /\ Installation!NoRecord.stage = Nil
BY DEF Installation!NoHelper, Installation!NoRecord, HelperRecord, HelperState, Entry

LEMMA GuardTyped ==
  ASSUME InstallationInstance, NEW a \in {"major_upgrade", "uninstall"}, NEW v \in Version \cup {Nil}
  PROVE  /\ Installation!Guard(a, v) \in GuardRecord /\ Installation!Guard(a, v) # Nil
         /\ Installation!Guard(a, v).action = a /\ Installation!Guard(a, v).target = v
<1>1. /\ Installation!Guard(a, v) \in GuardRecord
      /\ Installation!Guard(a, v).action = a /\ Installation!Guard(a, v).target = v
  BY DEF Installation!Guard, GuardRecord
<1> QED BY <1>1 DEF InstallationInstance

\* The fields of what is typed.
LEMMA Fields ==
  ASSUME InstallTyped
  PROVE  /\ \A p \in Process : /\ proc[p] \in ProcRecord /\ proc[p].pc \in ProcState
                               /\ proc[p].version \in Version \cup {Nil} /\ proc[p].read \in Entry \cup {Nil}
                               /\ proc[p].pc = "recovered" => proc[p].read \in Entry
         /\ msi.pc \in MsiState /\ msi.target \in Version \cup {Nil} /\ msi.candidate \in Process \cup {Nil}
         /\ msi.kind \in {Nil, "major_upgrade", "uninstall"} /\ msi.saved \in Saved \cup {Nil}
         /\ helper.pc \in HelperState /\ helper.with \in Process \cup {Nil} /\ helper.record \in Entry
         /\ helper.record.id \in Nat /\ helper.record.target \in Version \cup {Nil}
         /\ tree \in Trees /\ marker \in Version \cup {Nil} /\ product \in Version \cup {Nil}
         /\ guard \in GuardRecord \cup {Nil} /\ mutex \in Process \cup {Nil, "msi"}
         /\ proc \in [Process -> ProcRecord] /\ msi \in MsiRecord /\ helper \in HelperRecord
         /\ msi.pc # "idle" => msi.target \in Version /\ msi.kind # Nil
         /\ msi.pc \in Changing => msi.saved \in Saved
         /\ ProcTyped
         /\ journal \in Entry /\ begun \in Seq(Version \cup {Nil}) /\ Len(begun) \in Nat
<1>1. ASSUME NEW p \in Process
      PROVE  /\ proc[p] \in ProcRecord /\ proc[p].pc \in ProcState
             /\ proc[p].version \in Version \cup {Nil} /\ proc[p].read \in Entry \cup {Nil}
             /\ proc[p].pc = "recovered" => proc[p].read \in Entry
  BY DEF InstallTyped, ProcTyped, ProcRecord, ProcState
<1>2. /\ msi.pc \in MsiState /\ msi.target \in Version \cup {Nil} /\ msi.candidate \in Process \cup {Nil}
      /\ msi.kind \in {Nil, "major_upgrade", "uninstall"} /\ msi.saved \in Saved \cup {Nil}
  BY DEF InstallTyped, MsiRecord
<1>3. helper.pc \in HelperState /\ helper.with \in Process \cup {Nil} /\ helper.record \in Entry
  BY DEF InstallTyped, HelperRecord
<1>4. helper.record.id \in Nat /\ helper.record.target \in Version \cup {Nil}
  BY <1>3 DEF Entry
<1>5. /\ tree \in Trees /\ marker \in Version \cup {Nil} /\ product \in Version \cup {Nil}
      /\ guard \in GuardRecord \cup {Nil} /\ mutex \in Process \cup {Nil, "msi"}
      /\ proc \in [Process -> ProcRecord] /\ msi \in MsiRecord /\ helper \in HelperRecord
      /\ msi.pc # "idle" => msi.target \in Version /\ msi.kind # Nil
      /\ msi.pc \in Changing => msi.saved \in Saved
      /\ ProcTyped
      /\ journal \in Entry /\ begun \in Seq(Version \cup {Nil}) /\ Len(begun) \in Nat
  BY DEF InstallTyped, ProcTyped
<1> QED BY <1>1, <1>2, <1>3, <1>4, <1>5

LEMMA RecordTyped ==
  ASSUME NEW i \in Nat, NEW a \in {"update", "uninstall"}, NEW v \in Version \cup {Nil}
  PROVE  /\ Installation!Record(i, a, v) \in Entry /\ Installation!Record(i, a, v).id = i
         /\ Installation!Record(i, a, v).action = a /\ Installation!Record(i, a, v).target = v
         /\ Installation!Record(i, a, v).status = "running"
         /\ Installation!Record(i, a, v).stage = "waiting_for_ui_exit"
BY DEF Installation!Record, Entry

\* An operation begins: its number is that of the operations so far.
LEMMA Begins ==
  ASSUME helper \in HelperRecord, begun \in Seq(Version \cup {Nil}), NEW e \in Entry, NEW w \in Process \cup {Nil},
         Installation!Begin(e, "waiting", w)
  PROVE  /\ helper' \in HelperRecord /\ helper'.pc = "waiting" /\ helper'.record = e /\ journal' = e
         /\ begun' \in Seq(Version \cup {Nil}) /\ DOMAIN begun \subseteq DOMAIN begun'
         /\ \A i \in DOMAIN begun : begun'[i] = begun[i]
         /\ Len(begun) + 1 \in DOMAIN begun' /\ begun'[Len(begun) + 1] = e.target
         /\ UNCHANGED proven
<1>1. helper' = [pc |-> "waiting", with |-> w, record |-> e] /\ journal' = e
      /\ begun' = Append(begun, e.target) /\ UNCHANGED proven
  BY DEF Installation!Begin, Installation!Writes
<1>2. helper' \in HelperRecord /\ helper'.pc = "waiting" /\ helper'.record = e
  BY <1>1 DEF HelperRecord, HelperState
<1>3. e.target \in Version \cup {Nil}
  BY DEF Entry
<1>4. /\ begun' \in Seq(Version \cup {Nil}) /\ DOMAIN begun \subseteq DOMAIN begun'
      /\ \A i \in DOMAIN begun : begun'[i] = begun[i]
      /\ Len(begun) + 1 \in DOMAIN begun' /\ begun'[Len(begun) + 1] = e.target
  BY <1>1, <1>3
<1> QED BY <1>1, <1>2, <1>4

LEMMA GuardsAge ==
  ASSUME InstallationInstance, NEW g \in GuardRecord, NEW d, d = [g EXCEPT !.aged = TRUE]
  PROVE  d \in GuardRecord /\ d # Nil /\ d.action = g.action /\ d.target = g.target
<1>1. d \in GuardRecord /\ d.action = g.action /\ d.target = g.target
  BY DEF GuardRecord
<1> QED BY <1>1 DEF InstallationInstance

\* What a transaction saves when it begins to change the disk.
LEMMA Saves ==
  ASSUME InstallTyped, NEW x \in {"copying", "erasing"},
         msi' = [msi EXCEPT !.pc = x, !.saved = [tree |-> tree, marker |-> marker, product |-> product]]
  PROVE  /\ msi' \in MsiRecord /\ msi'.pc = x /\ msi'.kind = msi.kind /\ msi'.target = msi.target
         /\ msi'.asker = msi.asker /\ msi'.saved \in Saved
         /\ msi'.saved.tree = tree /\ msi'.saved.product = product
<1>1. PICK s : s = [tree |-> tree, marker |-> marker, product |-> product]
  OBVIOUS
<1>2. s \in Saved /\ s.tree = tree /\ s.product = product
  BY <1>1 DEF InstallTyped, Saved
<1>3. PICK n : n = [msi EXCEPT !.pc = x]
  OBVIOUS
<1>4. n \in MsiRecord /\ n.pc = x /\ n.kind = msi.kind /\ n.target = msi.target /\ n.asker = msi.asker
  BY <1>3 DEF InstallTyped, MsiRecord, MsiState
<1>5. msi' = [n EXCEPT !.saved = s]
  BY <1>1, <1>3
<1>6. msi' \in MsiRecord /\ msi'.pc = x /\ msi'.kind = msi.kind /\ msi'.target = msi.target
      /\ msi'.asker = msi.asker /\ msi'.saved = s
  BY <1>2, <1>4, <1>5 DEF MsiRecord
<1> QED BY <1>2, <1>6

LEMMA Candidate ==
  ASSUME msi \in MsiRecord, NEW p \in Process, msi' = [msi EXCEPT !.pc = "awaiting", !.candidate = p]
  PROVE  /\ msi' \in MsiRecord /\ msi'.pc = "awaiting" /\ msi'.kind = msi.kind /\ msi'.target = msi.target
         /\ msi'.asker = msi.asker /\ msi'.saved = msi.saved
<1>1. PICK n : n = [msi EXCEPT !.pc = "awaiting"]
  OBVIOUS
<1>2. n \in MsiRecord /\ n.pc = "awaiting" /\ n.kind = msi.kind /\ n.target = msi.target
      /\ n.asker = msi.asker /\ n.saved = msi.saved
  BY <1>1 DEF MsiRecord, MsiState
<1>3. msi' = [n EXCEPT !.candidate = p]
  BY <1>1
<1> QED BY <1>2, <1>3 DEF MsiRecord

\* A process reads the journal of an operation, and is up when it has closed it.
LEMMA ReadsJournal ==
  ASSUME InstallTyped, NEW p \in Process, proc' = [proc EXCEPT ![p].pc = "recovered", ![p].read = journal]
  PROVE  /\ ProcTyped' /\ proc' \in [Process -> ProcRecord]
         /\ proc'[p].pc = "recovered" /\ proc'[p].read = journal /\ proc'[p].version = proc[p].version
         /\ \A q \in Process \ {p} : proc'[q] = proc[q]
<1>1. PICK j : j = journal
  OBVIOUS
<1>2. PICK s : s = [proc[p] EXCEPT !.pc = "recovered"]
  OBVIOUS
<1>3. PICK r : r = [s EXCEPT !.read = j]
  OBVIOUS
<1>4. proc' = [proc EXCEPT ![p] = r]
  BY Fields, <1>1, <1>2, <1>3
<1>5. s \in ProcRecord /\ s.pc = "recovered" /\ s.version = proc[p].version
  BY Fields, <1>2 DEF ProcRecord
<1>6. r \in ProcRecord /\ r.pc = "recovered" /\ r.version = proc[p].version /\ r.read = j
  BY Fields, <1>1, <1>3, <1>5 DEF ProcRecord
<1> QED BY ZenonT(30), Fields, <1>1, <1>4, <1>6 DEF ProcTyped

LEMMA IsUp ==
  ASSUME InstallTyped, NEW p \in Process, proc' = [proc EXCEPT ![p].pc = "up", ![p].read = Nil]
  PROVE  /\ ProcTyped' /\ proc' \in [Process -> ProcRecord]
         /\ proc'[p].pc = "up" /\ proc'[p].read = Nil /\ proc'[p].version = proc[p].version
         /\ \A q \in Process \ {p} : proc'[q] = proc[q]
<1>1. PICK s : s = [proc[p] EXCEPT !.pc = "up"]
  OBVIOUS
<1>2. PICK r : r = [s EXCEPT !.read = Nil]
  OBVIOUS
<1>3. proc' = [proc EXCEPT ![p] = r]
  BY Fields, <1>1, <1>2
<1>4. s \in ProcRecord /\ s.pc = "up" /\ s.version = proc[p].version
  BY Fields, <1>1 DEF ProcRecord
<1>5. r \in ProcRecord /\ r.pc = "up" /\ r.version = proc[p].version /\ r.read = Nil
  BY <1>2, <1>4 DEF ProcRecord
<1> QED BY Fields, <1>3, <1>5 DEF ProcTyped

\* How a start closes the journal.
LEMMA Closes ==
  ASSUME NEW e \in Entry, NEW v
  PROVE  /\ Installation!Closed(e, v) \in Entry /\ Installation!Closed(e, v).id = e.id
         /\ Installation!Closed(e, v).stage = "closed"
         /\ Installation!Closed(e, v).status = "completed" => e.stage \in Installation!Provable
<1>1. PICK s \in {"completed", "failed"} :
        /\ Installation!Closed(e, v) = [e EXCEPT !.stage = "closed", !.status = s]
        /\ s = "completed" => e.stage \in Installation!Provable
  BY DEF Installation!Closed
<1>2. PICK d : d = Installation!Closed(e, v)
  OBVIOUS
<1>3. d = [e EXCEPT !.stage = "closed", !.status = s]
  BY <1>1, <1>2
<1>4. d \in Entry /\ d.id = e.id /\ d.stage = "closed" /\ d.status = s
  BY <1>3 DEF Entry
<1> QED BY <1>1, <1>2, <1>4

\* The end of every process of another version, and the one that goes on.
LEMMA EndsOthers ==
  ASSUME InstallationInstance, InstallTyped, NEW p \in Process,
         proc' = [q \in Process |->
                    IF q = p THEN [proc[p] EXCEPT !.pc = "cleaning"]
                    ELSE IF proc[q].version # proc[p].version THEN Installation!Off ELSE proc[q]]
  PROVE  /\ ProcTyped' /\ proc' \in [Process -> ProcRecord]
         /\ proc'[p].pc = "cleaning" /\ proc'[p].version = proc[p].version /\ proc'[p].read = proc[p].read
         /\ \A q \in Process \ {p} :
              \/ proc'[q] = proc[q] /\ proc[q].version = proc[p].version
              \/ proc'[q] = Installation!Off
<1>1. PICK r : r = [proc[p] EXCEPT !.pc = "cleaning"]
  OBVIOUS
<1>2. r \in ProcRecord /\ r.pc = "cleaning" /\ r.version = proc[p].version /\ r.read = proc[p].read
  BY Fields, <1>1 DEF ProcRecord
<1>3. proc' = [q \in Process |->
                 IF q = p THEN r
                 ELSE IF proc[q].version # proc[p].version THEN Installation!Off ELSE proc[q]]
  BY <1>1
<1> QED BY Fields, OffIsProc, <1>2, <1>3 DEF ProcTyped

\* The helper asks what it removes, and writes it down.
LEMMA StopsRecord ==
  ASSUME InstallTyped, NEW pc \in {"stopped", "failed"}, NEW e, NEW v \in Version \cup {Nil},
         e = [helper.record EXCEPT !.target = v, !.stage = "stopping_agent"],
         helper' = [pc |-> pc, with |-> Nil, record |-> e], journal' = e,
         begun' = [begun EXCEPT ![e.id] = v]
  PROVE  /\ helper' \in HelperRecord /\ helper'.pc = pc /\ helper'.record = e /\ journal' \in Entry
         /\ e.id = helper.record.id /\ e.target = v /\ e.stage = "stopping_agent"
         /\ e.status = helper.record.status /\ e.action = helper.record.action
         /\ begun' \in Seq(Version \cup {Nil}) /\ DOMAIN begun' = DOMAIN begun
         /\ e.id \in DOMAIN begun => begun'[e.id] = v
         /\ \A i \in DOMAIN begun : i # e.id => begun'[i] = begun[i]
<1>1. PICK d : d = helper.record
  OBVIOUS
<1>2. d \in Entry
  BY Fields, <1>1
<1>3. PICK f : f = [d EXCEPT !.target = v]
  OBVIOUS
<1>4. f \in Entry /\ f.id = d.id /\ f.target = v /\ f.status = d.status /\ f.action = d.action
  BY <1>2, <1>3 DEF Entry
<1>5. e = [f EXCEPT !.stage = "stopping_agent"]
  BY <1>1, <1>3
<1>6. e \in Entry /\ e.id = d.id /\ e.target = v /\ e.status = d.status /\ e.action = d.action
      /\ e.stage = "stopping_agent"
  BY <1>4, <1>5 DEF Entry
<1>7. helper' \in HelperRecord /\ helper'.pc = pc /\ helper'.record = e
  BY <1>6 DEF HelperRecord, HelperState
<1>8. begun' \in Seq(Version \cup {Nil}) /\ DOMAIN begun' = DOMAIN begun
      /\ (e.id \in DOMAIN begun => begun'[e.id] = v)
      /\ \A i \in DOMAIN begun : i # e.id => begun'[i] = begun[i]
  <2>1. PICK S : S = Version \cup {Nil}
    OBVIOUS
  <2>2. begun \in Seq(S) /\ v \in S /\ Len(begun) \in Nat
    BY Fields, <2>1
  <2>3. begun \in [1 .. Len(begun) -> S]
    BY <2>2
  <2>4. begun' \in [1 .. Len(begun) -> S]
    BY <2>2, <2>3
  <2>5. begun' \in Seq(S)
    BY ONLY <2>2, <2>4
  <2> QED BY <2>1, <2>3, <2>5
<1> QED BY <1>1, <1>6, <1>7, <1>8

LEMMA HelperWaits ==
  ASSUME helper \in HelperRecord, NEW p \in Process, helper' = [helper EXCEPT !.pc = "awaiting", !.with = p]
  PROVE  helper' \in HelperRecord /\ helper'.pc = "awaiting" /\ helper'.record = helper.record
<1>1. PICK h : h = [helper EXCEPT !.pc = "awaiting"]
  OBVIOUS
<1>2. h \in HelperRecord /\ h.pc = "awaiting" /\ h.record = helper.record
  BY <1>1 DEF HelperRecord, HelperState
<1>3. helper' = [h EXCEPT !.with = p]
  BY <1>1
<1> QED BY <1>2, <1>3 DEF HelperRecord

\* Who ends, is started or goes on reads nothing more.
LEMMA ReadsStand ==
  ASSUME InstallationInstance, InstallTyped, ReadProven, UNCHANGED proven
  PROVE  /\ Quiet => ReadProven'
         /\ \A p \in Process, x \in ProcState : Installation!Goes(p, x) => ReadProven'
         /\ UNCHANGED proc => ReadProven'
<1>1. ASSUME Quiet PROVE ReadProven'
  BY <1>1 DEF ReadProven, Quiet
<1>2. ASSUME NEW p \in Process, NEW x \in ProcState, Installation!Goes(p, x) PROVE ReadProven'
  <2>1. \A q \in Process : proc'[q].read = proc[q].read
    BY Fields, ProcGoes, <1>2
  <2> QED BY <2>1 DEF ReadProven
<1> QED BY <1>1, <1>2 DEF ReadProven

\* The moves of a start: where it goes, what becomes of the mutex, and that
\* others stay as they are or end.
Others(p) == \A q \in Process \ {p} : proc'[q] = proc[q] \/ proc'[q].pc = "off"
Onward(p, x) == proc'[p].pc = x /\ proc'[p].version = proc[p].version

LEMMA EnterMoves ==
  ASSUME InstallationInstance, InstallTyped, NEW p \in Process, Installation!Enter(p)
  PROVE  /\ Others(p) /\ proc[p].pc = "waiting" /\ mutex = Nil /\ guard' = Installation!Standing
         /\ UNCHANGED <<tree, product, msi, helper>>
         /\ \/ guard' = Nil /\ mutex' = p /\ Onward(p, "deciding")
            \/ mutex' = Nil /\ proc'[p].pc = "off"
            \/ /\ mutex' = Nil /\ Onward(p, "recovering")
               /\ guard' # Nil /\ guard'.action = "major_upgrade" /\ guard'.target = proc[p].version
<1>1. /\ proc[p].pc = "waiting" /\ mutex = Nil /\ guard' = Installation!Standing
      /\ UNCHANGED <<tree, product, msi, helper>>
      /\ \/ guard' = Nil /\ mutex' = p /\ Installation!Goes(p, "deciding")
         \/ mutex' = Nil /\ Installation!Ends(p)
         \/ /\ mutex' = Nil /\ Installation!Goes(p, "recovering")
            /\ guard' # Nil /\ guard'.action = "major_upgrade" /\ guard'.target = proc[p].version
  BY DEF Installation!Enter, Installation!disk
<1>2. ASSUME NEW x \in ProcState, Installation!Goes(p, x) PROVE Others(p) /\ Onward(p, x)
  BY Fields, ProcGoes, <1>2 DEF Others, Onward
<1>3. Installation!Ends(p) => Others(p) /\ proc'[p].pc = "off"
  BY Fields, QuietSteps DEF Others
<1>4. "deciding" \in ProcState /\ "recovering" \in ProcState
  BY DEF ProcState
<1> QED BY <1>1, <1>2, <1>3, <1>4

LEMMA DecideMoves ==
  ASSUME InstallationInstance, InstallTyped, NEW p \in Process, Installation!Decide(p)
  PROVE  /\ Others(p) /\ proc[p].pc = "deciding"
         /\ UNCHANGED <<tree, product, guard, msi, helper>>
         /\ \/ mutex' = Nil /\ proc'[p].pc \in {"off", "waiting"}
            \/ /\ UNCHANGED mutex /\ Onward(p, "ending others")
               /\ Installation!AuthoritativeVersion(proc[p].version) = proc[p].version
<1>1. proc[p].pc = "deciding" /\ UNCHANGED <<tree, product, guard, msi, helper>>
  BY DEF Installation!Decide, Installation!disk
<1>2. CASE ~ Installation!Whole(proc[p].version)
  BY <1>1, <1>2, Fields, QuietSteps DEF Installation!Decide, Others
<1>3. CASE /\ Installation!Whole(proc[p].version)
           /\ Installation!AuthoritativeVersion(proc[p].version) # proc[p].version
  <2>1. PICK v : v = Installation!AuthoritativeVersion(proc[p].version)
    OBVIOUS
  <2>2. v \in Version
    BY Fields, <1>3, <2>1 DEF Installation!AuthoritativeVersion, Installation!Whole
  <2>3. proc' = [proc EXCEPT ![p] = Installation!Started(v)] /\ mutex' = Nil
    BY <1>3, <2>1 DEF Installation!Decide
  <2> QED BY ZenonT(30), <1>1, <2>2, <2>3, Fields, QuietSteps DEF Others
<1>4. CASE /\ Installation!Whole(proc[p].version)
           /\ Installation!AuthoritativeVersion(proc[p].version) = proc[p].version
  <2>1. Installation!Goes(p, "ending others") /\ UNCHANGED mutex
    BY <1>4 DEF Installation!Decide
  <2> QED BY <1>1, <1>4, <2>1, Fields, ProcGoes DEF Others, Onward, ProcState
<1> QED BY <1>2, <1>3, <1>4

LEMMA TerminateMoves ==
  ASSUME InstallationInstance, InstallTyped, NEW p \in Process, Installation!TerminateNonTarget(p)
  PROVE  /\ Others(p) /\ proc[p].pc = "ending others"
         /\ UNCHANGED <<tree, product, guard, msi, helper>>
         /\ \/ mutex' = Nil /\ proc'[p].pc = "off"
            \/ /\ UNCHANGED mutex /\ Onward(p, "cleaning")
               /\ \A q \in Process : proc'[q].pc # "off" => proc'[q].version = proc[p].version
<1>1. proc[p].pc = "ending others" /\ UNCHANGED <<tree, product, guard, msi, helper>>
  BY DEF Installation!TerminateNonTarget, Installation!disk
<1>2. CASE Installation!Ends(p) /\ mutex' = Nil
  BY <1>1, <1>2, Fields, QuietSteps DEF Others
<1>3. CASE ~ (Installation!Ends(p) /\ mutex' = Nil)
  <2>1. /\ UNCHANGED mutex
        /\ proc' = [q \in Process |->
                      IF q = p THEN [proc[p] EXCEPT !.pc = "cleaning"]
                      ELSE IF proc[q].version # proc[p].version THEN Installation!Off ELSE proc[q]]
    BY <1>3 DEF Installation!TerminateNonTarget
  <2>2. /\ Onward(p, "cleaning")
        /\ \A q \in Process \ {p} : \/ proc'[q] = proc[q] /\ proc[q].version = proc[p].version
                                    \/ proc'[q].pc = "off"
    BY <2>1, EndsOthers, OffIsProc DEF Onward
  <2> QED BY <1>1, <2>1, <2>2 DEF Others, Onward
<1> QED BY <1>2, <1>3

LEMMA CleanupMoves ==
  ASSUME InstallationInstance, InstallTyped, NEW p \in Process, Installation!CleanupNonTarget(p)
  PROVE  /\ Others(p) /\ proc[p].pc = "cleaning"
         /\ tree' \in Trees /\ tree'[proc[p].version] = tree[proc[p].version]
         /\ UNCHANGED <<product, guard, msi, helper>>
         /\ \/ mutex' = Nil /\ proc'[p].pc = "off"
            \/ UNCHANGED mutex /\ Onward(p, "marking")
<1>1. proc[p].pc = "cleaning" /\ UNCHANGED <<product, guard, msi, helper>>
  BY DEF Installation!CleanupNonTarget
<1>2. \/ mutex' = Nil /\ Installation!Ends(p)
      \/ UNCHANGED mutex /\ Installation!Goes(p, "marking")
  BY DEF Installation!CleanupNonTarget
<1>3. Installation!Ends(p) => Others(p) /\ proc'[p].pc = "off"
  BY Fields, QuietSteps DEF Others
<1>4. Installation!Goes(p, "marking") => Others(p) /\ Onward(p, "marking")
  BY Fields, ProcGoes DEF Others, Onward, ProcState
<1>5. \/ UNCHANGED tree
      \/ proc[p].version \in Version /\ tree' = [w \in Version |-> IF w = proc[p].version THEN tree[w] ELSE "absent"]
      \/ /\ proc[p].version \in Version
         /\ \E w \in Version \ {proc[p].version} : tree' = [tree EXCEPT ![w] = "partial"]
  BY Fields DEF Installation!CleanupNonTarget, Installation!Whole
<1>6. tree' \in Trees /\ tree'[proc[p].version] = tree[proc[p].version]
  BY Fields, <1>5 DEF Trees
<1> QED BY <1>1, <1>2, <1>3, <1>4, <1>6

LEMMA MarkMoves ==
  ASSUME InstallationInstance, InstallTyped, NEW p \in Process, Installation!Mark(p)
  PROVE  /\ Others(p) /\ proc[p].pc = "marking" /\ mutex' = Nil /\ Onward(p, "recovering")
         /\ UNCHANGED <<tree, product, guard, msi, helper>>
<1>1. Installation!Goes(p, "recovering")
  BY DEF Installation!Mark
<1>2. Others(p) /\ Onward(p, "recovering")
  BY <1>1, Fields, ProcGoes DEF Others, Onward, ProcState
<1> QED BY <1>2 DEF Installation!Mark

LEMMA RecoverMoves ==
  ASSUME InstallationInstance, InstallTyped, NEW p \in Process,
         Installation!RecoverReads(p) \/ Installation!RecoverWrites(p)
  PROVE  /\ Others(p) /\ proc[p].pc \in {"recovering", "recovered"}
         /\ Onward(p, "recovered") \/ Onward(p, "up")
         /\ UNCHANGED <<tree, product, guard, mutex, msi, helper>>
<1>1. proc[p].pc \in {"recovering", "recovered"} /\ UNCHANGED <<tree, product, guard, mutex, msi, helper>>
  BY DEF Installation!RecoverReads, Installation!RecoverWrites, Installation!disk
<1>2. \/ proc' = [proc EXCEPT ![p].pc = "recovered", ![p].read = journal]
      \/ Installation!Goes(p, "up")
      \/ proc' = [proc EXCEPT ![p].pc = "up", ![p].read = Nil]
  BY DEF Installation!RecoverReads, Installation!RecoverWrites
<1>3. Installation!Goes(p, "up") => Others(p) /\ Onward(p, "up")
  BY Fields, ProcGoes DEF Others, Onward, ProcState
<1>4. proc' = [proc EXCEPT ![p].pc = "recovered", ![p].read = journal] => Others(p) /\ Onward(p, "recovered")
  BY ReadsJournal DEF Others, Onward
<1>5. proc' = [proc EXCEPT ![p].pc = "up", ![p].read = Nil] => Others(p) /\ Onward(p, "up")
  BY IsUp DEF Others, Onward
<1> QED BY <1>1, <1>2, <1>3, <1>4, <1>5

\* What runs beside who ends, is started or goes on.
Late == Running \cup {"cleaning", "marking"}
Working == Installation!Transaction \cup {"reviving"}

LEMMA QuietRuns ==
  ASSUME OneRuns, Quiet
  PROVE  OneRuns'
<1>1. \A q \in Process : proc'[q].pc \in Late => proc'[q] = proc[q]
  BY DEF Quiet, Late, Running
<1>2. \A q \in Process : proc'[q].pc \in Running => proc'[q] = proc[q]
  BY DEF Quiet, Running
<1> QED BY <1>1, <1>2 DEF OneRuns, Late

LEMMA QuietTarget ==
  ASSUME TargetRuns, Quiet, msi'.pc \in Working => msi.pc \in Working /\ msi'.target = msi.target
  PROVE  TargetRuns'
<1>1. \A q \in Process : proc'[q].pc \in Running => proc'[q] = proc[q]
  BY DEF Quiet, Running
<1> QED BY <1>1 DEF TargetRuns, Working

LEMMA OnwardRuns ==
  ASSUME OneRuns, NEW p \in Process, Others(p), proc'[p].version = proc[p].version,
         proc'[p].pc \in Late => proc[p].pc \in Late, proc'[p].pc \in Running => proc[p].pc \in Running
  PROVE  OneRuns'
<1>1. \A q \in Process : proc'[q].pc \in Late => proc[q].pc \in Late /\ proc'[q].version = proc[q].version
  BY DEF Others, Late, Running
<1>2. \A q \in Process : proc'[q].pc \in Running => proc[q].pc \in Running /\ proc'[q].version = proc[q].version
  BY DEF Others, Running
<1> QED BY <1>1, <1>2 DEF OneRuns, Late

LEMMA EarlyRuns ==
  ASSUME OneRuns, NEW p \in Process, Others(p), proc'[p].pc \notin Late
  PROVE  OneRuns'
<1>1. \A q \in Process : proc'[q].pc \in Late => proc'[q] = proc[q]
  BY DEF Others, Late, Running
<1>2. \A q \in Process : proc'[q].pc \in Running => proc'[q] = proc[q]
  BY <1>1 DEF Late
<1> QED BY <1>1, <1>2 DEF OneRuns, Late

\* What repairs beside who ends, is started or goes on.
LEMMA QuietRepairs ==
  ASSUME RepairsHold, Quiet, UNCHANGED <<mutex, msi>>
  PROVE  RepairsHold'
BY DEF RepairsHold, Quiet, Installation!Repairing

LEMMA QuietNobody ==
  ASSUME NobodyRepairs, Quiet, UNCHANGED msi
  PROVE  NobodyRepairs'
BY DEF NobodyRepairs, Quiet, Installation!Repairing

LEMMA QuietChosen ==
  ASSUME ChosenFit, Quiet, UNCHANGED product
  PROVE  ChosenFit'
BY DEF ChosenFit, Quiet, Chosen

\* Whoever these actions let end or start holds nothing.
LEMMA QuietActions ==
  ASSUME InstallationInstance, InstallTyped,
         \/ \E p \in Process : Installation!Open(p) \/ Installation!Exit(p) \/ Installation!Die(p)
         \/ Installation!MsiStops \/ Installation!MsiVerifies \/ Installation!MsiPreparesRemoval \/
            Installation!MsiRevives \/ Installation!MsiRestarts \/
            Installation!HelperStops \/ Installation!HelperMeets \/
            Installation!HelperFails
  PROVE  Quiet
<1>1. ASSUME NEW p \in Process, Installation!Open(p) PROVE Quiet
  <2>1. PICK v \in Version : proc' = [proc EXCEPT ![p] = Installation!Started(v)]
    BY <1>1 DEF Installation!Open
  <2> QED BY <2>1, Fields, QuietSteps
<1>2. ASSUME NEW p \in Process, Installation!Exit(p) PROVE Quiet
  BY <1>2, Fields, QuietSteps DEF Installation!Exit
<1>3. ASSUME NEW p \in Process, Installation!Die(p) PROVE Quiet
  BY <1>3, Fields, QuietSteps DEF Installation!Die
<1>4. CASE Installation!MsiStops
  BY <1>4, Fields, QuietSteps DEF Installation!MsiStops
<1>5. CASE Installation!MsiVerifies
  <2>1. \/ UNCHANGED proc
        \/ \E p \in Process : proc' = [proc EXCEPT ![p] = Installation!Started(msi.target)]
    BY <1>5 DEF Installation!MsiVerifies, Installation!Idle
  <2> QED BY <2>1, Fields, QuietSteps
<1>6. CASE Installation!MsiPreparesRemoval
  BY <1>6, Fields, QuietSteps DEF Installation!MsiPreparesRemoval
<1>7. CASE Installation!MsiRevives
  BY <1>7, Fields, QuietSteps DEF Installation!MsiRevives
<1>8. CASE Installation!MsiRestarts
  BY <1>8, Fields, QuietSteps DEF Installation!MsiRestarts, Installation!RestartSurviving,
       Installation!Whole
<1>9. CASE Installation!HelperStops
  BY <1>9, Fields, QuietSteps DEF Installation!HelperStops, Installation!Updates
<1>10. CASE Installation!HelperMeets
  <2>1. \/ UNCHANGED proc
        \/ \E p \in Process : proc' = [proc EXCEPT ![p] = Installation!Started(helper.record.target)]
    BY <1>10 DEF Installation!HelperMeets, Installation!Idle, Installation!Target
  <2> QED BY <2>1, Fields, QuietSteps
<1>11. CASE Installation!HelperFails
  BY <1>11, Fields, QuietSteps DEF Installation!HelperFails, Installation!Updates,
       Installation!RestartSurviving, Installation!Whole
<1> QED BY <1>1, <1>2, <1>3, <1>4, <1>5, <1>6, <1>7, <1>8, <1>9, <1>10, <1>11

(* What is of its type stays so.                                           *)
LEMMA TypedApart ==
  ASSUME InstallationInstance, InstallTyped, Quiet,
         UNCHANGED <<msi, helper, journal, begun, tree, marker, product, guard, mutex>>
  PROVE  InstallTyped'
BY Fields, QuietSteps DEF InstallTyped

LEMMA TypedEnter ==
  ASSUME InstallationInstance, InstallTyped, NEW p \in Process,
         Installation!Enter(p)
  PROVE  InstallTyped'
<1>1. /\ msi' \in MsiRecord /\ (msi'.pc # "idle" => msi'.target \in Version /\ msi'.kind # Nil)
      /\ (msi'.pc \in Changing => msi'.saved \in Saved)
      /\ helper' \in HelperRecord /\ journal' \in Entry /\ begun' \in Seq(Version \cup {Nil})
  BY Fields DEF Installation!Enter, Installation!disk, Installation!books, Installation!history
<1>2. ProcTyped'
  BY Fields, ProcGoes, QuietSteps DEF InstallationInstance, ProcState, Installation!Enter,
       Installation!Standing, Installation!disk, Installation!books, Installation!history
<1>3. /\ tree' \in Trees /\ marker' \in Version \cup {Nil} /\ product' \in Version \cup {Nil}
      /\ guard' \in GuardRecord \cup {Nil} /\ mutex' \in Process \cup {Nil, "msi"}
  BY Fields DEF InstallationInstance, Installation!Enter, Installation!Standing,
       Installation!disk, Installation!books, Installation!history
<1> QED BY <1>1, <1>2, <1>3 DEF InstallTyped

LEMMA TypedDecide ==
  ASSUME InstallationInstance, InstallTyped, NEW p \in Process,
         Installation!Decide(p)
  PROVE  InstallTyped'
<1>1. /\ msi' \in MsiRecord /\ (msi'.pc # "idle" => msi'.target \in Version /\ msi'.kind # Nil)
      /\ (msi'.pc \in Changing => msi'.saved \in Saved)
      /\ helper' \in HelperRecord /\ journal' \in Entry /\ begun' \in Seq(Version \cup {Nil})
  BY Fields DEF Installation!Decide, Installation!disk, Installation!books, Installation!history
<1>2. ProcTyped'
  <2>1. CASE proc' = [proc EXCEPT ![p] = Installation!Off]
    BY <2>1, Fields, QuietSteps DEF Installation!Ends
  <2>2. ASSUME NEW v \in Version, proc' = [proc EXCEPT ![p] = Installation!Started(v)]
        PROVE  ProcTyped'
    BY <2>2, Fields, QuietSteps
  <2>3. CASE Installation!Goes(p, "ending others")
    BY <2>3, Fields, ProcGoes DEF ProcState
  <2>4. proc[p].version # Nil => Installation!AuthoritativeVersion(proc[p].version) \in Version
    BY Fields DEF Installation!AuthoritativeVersion, Installation!Whole
  <2> QED BY <2>1, <2>2, <2>3, <2>4 DEF Installation!Decide, Installation!Ends, Installation!Whole
<1>3. /\ tree' \in Trees /\ marker' \in Version \cup {Nil} /\ product' \in Version \cup {Nil}
      /\ guard' \in GuardRecord \cup {Nil} /\ mutex' \in Process \cup {Nil, "msi"}
  BY Fields DEF InstallationInstance, Installation!Decide, Installation!Whole,
       Installation!AuthoritativeVersion, Installation!disk, Installation!books,
       Installation!history
<1> QED BY <1>1, <1>2, <1>3 DEF InstallTyped

LEMMA TypedTerminateNonTarget ==
  ASSUME InstallationInstance, InstallTyped, NEW p \in Process,
         Installation!TerminateNonTarget(p)
  PROVE  InstallTyped'
<1>1. /\ msi' \in MsiRecord /\ (msi'.pc # "idle" => msi'.target \in Version /\ msi'.kind # Nil)
      /\ (msi'.pc \in Changing => msi'.saved \in Saved)
      /\ helper' \in HelperRecord /\ journal' \in Entry /\ begun' \in Seq(Version \cup {Nil})
  BY Fields DEF Installation!TerminateNonTarget, Installation!disk, Installation!books,
       Installation!history
<1>2. ProcTyped'
  BY Fields, EndsOthers, QuietSteps DEF Installation!TerminateNonTarget
<1>3. /\ tree' \in Trees /\ marker' \in Version \cup {Nil} /\ product' \in Version \cup {Nil}
      /\ guard' \in GuardRecord \cup {Nil} /\ mutex' \in Process \cup {Nil, "msi"}
  BY Fields DEF InstallationInstance, Installation!TerminateNonTarget, Installation!disk,
       Installation!books, Installation!history
<1> QED BY <1>1, <1>2, <1>3 DEF InstallTyped

LEMMA TypedCleanupNonTarget ==
  ASSUME InstallationInstance, InstallTyped, NEW p \in Process,
         Installation!CleanupNonTarget(p)
  PROVE  InstallTyped'
<1>1. /\ msi' \in MsiRecord /\ (msi'.pc # "idle" => msi'.target \in Version /\ msi'.kind # Nil)
      /\ (msi'.pc \in Changing => msi'.saved \in Saved)
      /\ helper' \in HelperRecord /\ journal' \in Entry /\ begun' \in Seq(Version \cup {Nil})
  BY Fields DEF Installation!CleanupNonTarget, Installation!books, Installation!history
<1>2. ProcTyped'
  BY Fields, ProcGoes, QuietSteps DEF InstallationInstance, ProcState,
       Installation!CleanupNonTarget, Installation!Whole, Installation!books, Installation!history
<1>3. /\ tree' \in Trees /\ marker' \in Version \cup {Nil} /\ product' \in Version \cup {Nil}
      /\ guard' \in GuardRecord \cup {Nil} /\ mutex' \in Process \cup {Nil, "msi"}
  BY Fields DEF InstallationInstance, Trees, Installation!CleanupNonTarget, Installation!Whole,
       Installation!books, Installation!history
<1> QED BY <1>1, <1>2, <1>3 DEF InstallTyped

LEMMA TypedMark ==
  ASSUME InstallationInstance, InstallTyped, NEW p \in Process,
         Installation!Mark(p)
  PROVE  InstallTyped'
<1>1. /\ msi' \in MsiRecord /\ (msi'.pc # "idle" => msi'.target \in Version /\ msi'.kind # Nil)
      /\ (msi'.pc \in Changing => msi'.saved \in Saved)
      /\ helper' \in HelperRecord /\ journal' \in Entry /\ begun' \in Seq(Version \cup {Nil})
  BY Fields DEF Installation!Mark, Installation!books, Installation!history
<1>2. ProcTyped'
  BY Fields, ProcGoes, QuietSteps DEF InstallationInstance, ProcState, Installation!Mark,
       Installation!books, Installation!history
<1>3. /\ tree' \in Trees /\ marker' \in Version \cup {Nil} /\ product' \in Version \cup {Nil}
      /\ guard' \in GuardRecord \cup {Nil} /\ mutex' \in Process \cup {Nil, "msi"}
  BY Fields DEF InstallationInstance, Installation!Mark, Installation!books, Installation!history
<1> QED BY <1>1, <1>2, <1>3 DEF InstallTyped

LEMMA TypedRecoverReads ==
  ASSUME InstallationInstance, InstallTyped, NEW p \in Process,
         Installation!RecoverReads(p)
  PROVE  InstallTyped'
<1>1. /\ msi' \in MsiRecord /\ (msi'.pc # "idle" => msi'.target \in Version /\ msi'.kind # Nil)
      /\ (msi'.pc \in Changing => msi'.saved \in Saved)
      /\ helper' \in HelperRecord /\ journal' \in Entry /\ begun' \in Seq(Version \cup {Nil})
      /\ /\ tree' \in Trees /\ marker' \in Version \cup {Nil} /\ product' \in Version \cup {Nil}
      /\ guard' \in GuardRecord \cup {Nil} /\ mutex' \in Process \cup {Nil, "msi"}
  BY Fields DEF Installation!RecoverReads, Installation!disk, Installation!books,
       Installation!history
<1>2. ProcTyped'
  BY Fields, ReadsJournal, ProcGoes DEF ProcState, Installation!RecoverReads
<1> QED BY <1>1, <1>2 DEF InstallTyped

LEMMA TypedRecoverWrites ==
  ASSUME InstallationInstance, InstallTyped, NEW p \in Process,
         Installation!RecoverWrites(p)
  PROVE  InstallTyped'
<1>1. /\ msi' \in MsiRecord /\ (msi'.pc # "idle" => msi'.target \in Version /\ msi'.kind # Nil)
      /\ (msi'.pc \in Changing => msi'.saved \in Saved)
      /\ /\ tree' \in Trees /\ marker' \in Version \cup {Nil} /\ product' \in Version \cup {Nil}
      /\ guard' \in GuardRecord \cup {Nil} /\ mutex' \in Process \cup {Nil, "msi"}
  BY Fields DEF Installation!RecoverWrites, Installation!disk, Installation!history
<1>2. ProcTyped'
  BY IsUp DEF Installation!RecoverWrites
<1>3. helper' \in HelperRecord /\ journal' \in Entry /\ begun' \in Seq(Version \cup {Nil})
  <2>1. proc[p].read \in Entry
    BY Fields DEF Installation!RecoverWrites
  <2> QED BY Fields, Closes, <2>1 DEF Installation!RecoverWrites, Installation!history
<1> QED BY <1>1, <1>2, <1>3 DEF InstallTyped

LEMMA TypedDie ==
  ASSUME InstallationInstance, InstallTyped, NEW p \in Process,
         Installation!Die(p)
  PROVE  InstallTyped'
<1>1. Quiet
  BY QuietActions
<1>2. /\ ProcTyped'
      /\ msi' \in MsiRecord /\ (msi'.pc # "idle" => msi'.target \in Version /\ msi'.kind # Nil)
      /\ (msi'.pc \in Changing => msi'.saved \in Saved)
      /\ helper' \in HelperRecord /\ journal' \in Entry /\ begun' \in Seq(Version \cup {Nil})
  BY <1>1, QuietSteps, Fields DEF Installation!Die, Installation!disk, Installation!books,
       Installation!history
<1>3. /\ tree' \in Trees /\ marker' \in Version \cup {Nil} /\ product' \in Version \cup {Nil}
      /\ guard' \in GuardRecord \cup {Nil} /\ mutex' \in Process \cup {Nil, "msi"}
  BY Fields DEF InstallationInstance, Installation!Die, Installation!disk, Installation!books,
       Installation!history
<1> QED BY <1>2, <1>3 DEF InstallTyped

LEMMA TypedInstallUpdate ==
  ASSUME InstallationInstance, InstallTyped, NEW p \in Process,
         Installation!InstallUpdate(p)
  PROVE  InstallTyped'
<1>1. /\ ProcTyped'
      /\ msi' \in MsiRecord /\ (msi'.pc # "idle" => msi'.target \in Version /\ msi'.kind # Nil)
      /\ (msi'.pc \in Changing => msi'.saved \in Saved)
      /\ /\ tree' \in Trees /\ marker' \in Version \cup {Nil} /\ product' \in Version \cup {Nil}
      /\ guard' \in GuardRecord \cup {Nil} /\ mutex' \in Process \cup {Nil, "msi"}
  BY Fields, QuietSteps DEF Installation!InstallUpdate, Installation!disk, Installation!Begin
<1>2. helper' \in HelperRecord /\ journal' \in Entry /\ begun' \in Seq(Version \cup {Nil})
  BY Fields, Begins, RecordTyped DEF HelperState, InstallationInstance,
       Installation!InstallUpdate, Installation!HelperAt, Installation!disk
<1> QED BY <1>1, <1>2 DEF InstallTyped

LEMMA TypedUninstall ==
  ASSUME InstallationInstance, InstallTyped, NEW p \in Process,
         Installation!Uninstall(p)
  PROVE  InstallTyped'
<1>1. /\ ProcTyped'
      /\ msi' \in MsiRecord /\ (msi'.pc # "idle" => msi'.target \in Version /\ msi'.kind # Nil)
      /\ (msi'.pc \in Changing => msi'.saved \in Saved)
      /\ /\ tree' \in Trees /\ marker' \in Version \cup {Nil} /\ product' \in Version \cup {Nil}
      /\ guard' \in GuardRecord \cup {Nil} /\ mutex' \in Process \cup {Nil, "msi"}
  BY Fields, QuietSteps DEF Installation!Uninstall, Installation!disk, Installation!books,
       Installation!history
<1>2. helper' \in HelperRecord /\ journal' \in Entry /\ begun' \in Seq(Version \cup {Nil})
  <2>1. PICK e : e = Installation!Record(Len(begun) + 1, "uninstall", product)
    OBVIOUS
  <2>2. PICK i \in Nat : i = Len(begun) + 1
    BY Fields
  <2>3. PICK a \in {"update", "uninstall"} : a = "uninstall"
    OBVIOUS
  <2>4. Installation!Record(i, a, product) \in Entry
    BY Fields, RecordTyped
  <2>5. e \in Entry
    BY <2>1, <2>2, <2>3, <2>4
  <2>6. helper' = [pc |-> "guarding", with |-> p, record |-> e] /\ UNCHANGED <<journal, begun>>
    BY <2>1 DEF Installation!Uninstall, Installation!books, Installation!history
  <2> QED BY Fields, <2>5, <2>6 DEF HelperRecord, HelperState
<1> QED BY <1>1, <1>2 DEF InstallTyped

LEMMA TypedSetup ==
  ASSUME InstallationInstance, InstallTyped, Installation!Setup
  PROVE  InstallTyped'
<1>1. /\ ProcTyped'
      /\ helper' \in HelperRecord /\ journal' \in Entry /\ begun' \in Seq(Version \cup {Nil})
      /\ /\ tree' \in Trees /\ marker' \in Version \cup {Nil} /\ product' \in Version \cup {Nil}
      /\ guard' \in GuardRecord \cup {Nil} /\ mutex' \in Process \cup {Nil, "msi"}
  BY Fields, QuietSteps DEF Installation!Setup, Installation!disk, Installation!books,
       Installation!history
<1>2. msi' \in MsiRecord /\ (msi'.pc # "idle" => msi'.target \in Version /\ msi'.kind # Nil)
      /\ (msi'.pc \in Changing => msi'.saved \in Saved)
  <2>1. PICK v \in Version : msi' = Installation!NewMsi("major_upgrade", v, "user")
    BY DEF Installation!Setup
  <2> QED BY Fields, MsiSteps, <2>1 DEF InstallationInstance, Changing
<1> QED BY <1>1, <1>2 DEF InstallTyped

LEMMA TypedRemoval ==
  ASSUME InstallationInstance, InstallTyped, Installation!Removal
  PROVE  InstallTyped'
<1>1. /\ ProcTyped'
      /\ helper' \in HelperRecord /\ journal' \in Entry /\ begun' \in Seq(Version \cup {Nil})
      /\ /\ tree' \in Trees /\ marker' \in Version \cup {Nil} /\ product' \in Version \cup {Nil}
      /\ guard' \in GuardRecord \cup {Nil} /\ mutex' \in Process \cup {Nil, "msi"}
  BY Fields, QuietSteps DEF Installation!Removal, Installation!disk, Installation!books,
       Installation!history
<1>2. msi' \in MsiRecord /\ (msi'.pc # "idle" => msi'.target \in Version /\ msi'.kind # Nil)
      /\ (msi'.pc \in Changing => msi'.saved \in Saved)
  <2>1. product \in Version /\ msi' = Installation!NewMsi("uninstall", product, "user")
    BY Fields DEF Installation!Removal
  <2>2. "uninstall" # Nil
    BY DEF InstallationInstance
  <2> QED BY Fields, MsiSteps, <2>1, <2>2 DEF Changing
<1> QED BY <1>1, <1>2 DEF InstallTyped

LEMMA TypedMsiGuards ==
  ASSUME InstallationInstance, InstallTyped, Installation!MsiGuards
  PROVE  InstallTyped'
<1>1. ProcTyped'
  BY Fields, QuietSteps DEF Installation!MsiGuards, Installation!disk, Installation!books,
       Installation!history
<1>2. msi' \in MsiRecord /\ (msi'.pc # "idle" => msi'.target \in Version /\ msi'.kind # Nil)
      /\ (msi'.pc \in Changing => msi'.saved \in Saved)
  BY Fields, MsiSteps, MsiReturn DEF MsiState, InstallationInstance, Changing,
       Installation!MsiGuards, Installation!MsiAt, Installation!disk, Installation!books,
       Installation!history
<1>3. helper' \in HelperRecord /\ journal' \in Entry /\ begun' \in Seq(Version \cup {Nil})
  BY Fields, MsiReturn DEF HelperState, InstallationInstance, Installation!MsiGuards,
       Installation!MsiAt, Installation!disk, Installation!books, Installation!history
<1>4. /\ tree' \in Trees /\ marker' \in Version \cup {Nil} /\ product' \in Version \cup {Nil}
      /\ guard' \in GuardRecord \cup {Nil} /\ mutex' \in Process \cup {Nil, "msi"}
  BY Fields, GuardTyped DEF InstallationInstance, Installation!MsiGuards, Installation!MsiAt,
       Installation!disk, Installation!books, Installation!history
<1> QED BY <1>1, <1>2, <1>3, <1>4 DEF InstallTyped

LEMMA TypedMsiStops ==
  ASSUME InstallationInstance, InstallTyped, Installation!MsiStops
  PROVE  InstallTyped'
<1>1. Quiet
  BY QuietActions
<1>2. ProcTyped'
  BY <1>1, QuietSteps, Fields DEF Installation!MsiStops, Installation!disk, Installation!books,
       Installation!history
<1>3. msi' \in MsiRecord /\ (msi'.pc # "idle" => msi'.target \in Version /\ msi'.kind # Nil)
      /\ (msi'.pc \in Changing => msi'.saved \in Saved)
  BY Fields, MsiSteps, MsiReturn DEF MsiState, InstallationInstance, Changing,
       Installation!MsiStops, Installation!MsiAt, Installation!disk, Installation!books,
       Installation!history
<1>4. helper' \in HelperRecord /\ journal' \in Entry /\ begun' \in Seq(Version \cup {Nil})
  BY Fields, MsiReturn DEF HelperState, InstallationInstance, Installation!MsiStops,
       Installation!MsiAt, Installation!disk, Installation!books, Installation!history
<1>5. /\ tree' \in Trees /\ marker' \in Version \cup {Nil} /\ product' \in Version \cup {Nil}
      /\ guard' \in GuardRecord \cup {Nil} /\ mutex' \in Process \cup {Nil, "msi"}
  BY Fields DEF InstallationInstance, Installation!MsiStops, Installation!MsiAt,
       Installation!disk, Installation!books, Installation!history
<1> QED BY <1>2, <1>3, <1>4, <1>5 DEF InstallTyped

LEMMA TypedMsiRemoves ==
  ASSUME InstallationInstance, InstallTyped, Installation!MsiRemoves
  PROVE  InstallTyped'
<1>1. /\ ProcTyped'
      /\ helper' \in HelperRecord /\ journal' \in Entry /\ begun' \in Seq(Version \cup {Nil})
  BY Fields, QuietSteps DEF Installation!MsiRemoves, Installation!disk, Installation!books,
       Installation!history
<1>2. msi' \in MsiRecord /\ (msi'.pc # "idle" => msi'.target \in Version /\ msi'.kind # Nil)
      /\ (msi'.pc \in Changing => msi'.saved \in Saved)
  BY Fields, Saves DEF MsiState, InstallationInstance, Changing, Installation!MsiRemoves,
       Installation!MsiAt, Installation!disk, Installation!books, Installation!history
<1>3. /\ tree' \in Trees /\ marker' \in Version \cup {Nil} /\ product' \in Version \cup {Nil}
      /\ guard' \in GuardRecord \cup {Nil} /\ mutex' \in Process \cup {Nil, "msi"}
  BY Fields DEF InstallationInstance, Trees, Installation!MsiRemoves, Installation!MsiAt,
       Installation!disk, Installation!books, Installation!history
<1> QED BY <1>1, <1>2, <1>3 DEF InstallTyped

LEMMA TypedMsiCopies ==
  ASSUME InstallationInstance, InstallTyped, Installation!MsiCopies
  PROVE  InstallTyped'
<1>1. /\ ProcTyped'
      /\ helper' \in HelperRecord /\ journal' \in Entry /\ begun' \in Seq(Version \cup {Nil})
  BY Fields, QuietSteps DEF Installation!MsiCopies, Installation!books, Installation!history
<1>2. msi' \in MsiRecord /\ (msi'.pc # "idle" => msi'.target \in Version /\ msi'.kind # Nil)
      /\ (msi'.pc \in Changing => msi'.saved \in Saved)
  BY Fields, MsiSteps DEF MsiState, InstallationInstance, Changing, Installation!MsiCopies,
       Installation!MsiAt, Installation!books, Installation!history
<1>3. /\ tree' \in Trees /\ marker' \in Version \cup {Nil} /\ product' \in Version \cup {Nil}
      /\ guard' \in GuardRecord \cup {Nil} /\ mutex' \in Process \cup {Nil, "msi"}
  BY Fields DEF InstallationInstance, Trees, Installation!MsiCopies, Installation!MsiAt,
       Installation!books, Installation!history
<1> QED BY <1>1, <1>2, <1>3 DEF InstallTyped

LEMMA TypedMsiCopied ==
  ASSUME InstallationInstance, InstallTyped, Installation!MsiCopied
  PROVE  InstallTyped'
<1>1. /\ ProcTyped'
      /\ helper' \in HelperRecord /\ journal' \in Entry /\ begun' \in Seq(Version \cup {Nil})
  BY Fields, QuietSteps DEF Installation!MsiCopied, Installation!books, Installation!history
<1>2. msi' \in MsiRecord /\ (msi'.pc # "idle" => msi'.target \in Version /\ msi'.kind # Nil)
      /\ (msi'.pc \in Changing => msi'.saved \in Saved)
  BY Fields, MsiSteps DEF MsiState, InstallationInstance, Changing, Installation!MsiCopied,
       Installation!MsiAt, Installation!books, Installation!history
<1>3. /\ tree' \in Trees /\ marker' \in Version \cup {Nil} /\ product' \in Version \cup {Nil}
      /\ guard' \in GuardRecord \cup {Nil} /\ mutex' \in Process \cup {Nil, "msi"}
  BY Fields DEF InstallationInstance, Trees, Installation!MsiCopied, Installation!MsiAt,
       Installation!books, Installation!history
<1> QED BY <1>1, <1>2, <1>3 DEF InstallTyped

LEMMA TypedMsiVerifies ==
  ASSUME InstallationInstance, InstallTyped, Installation!MsiVerifies
  PROVE  InstallTyped'
<1>1. Quiet
  BY QuietActions
<1>2. /\ ProcTyped'
      /\ helper' \in HelperRecord /\ journal' \in Entry /\ begun' \in Seq(Version \cup {Nil})
      /\ /\ tree' \in Trees /\ marker' \in Version \cup {Nil} /\ product' \in Version \cup {Nil}
      /\ guard' \in GuardRecord \cup {Nil} /\ mutex' \in Process \cup {Nil, "msi"}
  BY <1>1, QuietSteps, Fields DEF Installation!MsiVerifies, Installation!disk,
       Installation!books, Installation!history
<1>3. msi' \in MsiRecord /\ (msi'.pc # "idle" => msi'.target \in Version /\ msi'.kind # Nil)
      /\ (msi'.pc \in Changing => msi'.saved \in Saved)
  BY Fields, MsiSteps, Candidate DEF MsiState, InstallationInstance, Changing,
       Installation!MsiVerifies, Installation!MsiAt, Installation!Up, Installation!Whole,
       Installation!Idle, Installation!disk, Installation!books, Installation!history
<1> QED BY <1>2, <1>3 DEF InstallTyped

LEMMA TypedMsiAwaits ==
  ASSUME InstallationInstance, InstallTyped, Installation!MsiAwaits
  PROVE  InstallTyped'
<1>1. /\ ProcTyped'
      /\ helper' \in HelperRecord /\ journal' \in Entry /\ begun' \in Seq(Version \cup {Nil})
      /\ /\ tree' \in Trees /\ marker' \in Version \cup {Nil} /\ product' \in Version \cup {Nil}
      /\ guard' \in GuardRecord \cup {Nil} /\ mutex' \in Process \cup {Nil, "msi"}
  BY Fields, QuietSteps DEF Installation!MsiAwaits, Installation!disk, Installation!books,
       Installation!history
<1>2. msi' \in MsiRecord /\ (msi'.pc # "idle" => msi'.target \in Version /\ msi'.kind # Nil)
      /\ (msi'.pc \in Changing => msi'.saved \in Saved)
  BY Fields, MsiSteps DEF MsiState, InstallationInstance, Changing, Installation!MsiAwaits,
       Installation!MsiAt, Installation!Up, Installation!Idle, Installation!disk,
       Installation!books, Installation!history
<1> QED BY <1>1, <1>2 DEF InstallTyped

LEMMA TypedMsiRegisters ==
  ASSUME InstallationInstance, InstallTyped, Installation!MsiRegisters
  PROVE  InstallTyped'
<1>1. /\ ProcTyped'
      /\ helper' \in HelperRecord /\ journal' \in Entry /\ begun' \in Seq(Version \cup {Nil})
  BY Fields, QuietSteps DEF Installation!MsiRegisters, Installation!books, Installation!history
<1>2. msi' \in MsiRecord /\ (msi'.pc # "idle" => msi'.target \in Version /\ msi'.kind # Nil)
      /\ (msi'.pc \in Changing => msi'.saved \in Saved)
  BY Fields, MsiSteps DEF MsiState, InstallationInstance, Changing, Installation!MsiRegisters,
       Installation!MsiAt, Installation!books, Installation!history
<1>3. /\ tree' \in Trees /\ marker' \in Version \cup {Nil} /\ product' \in Version \cup {Nil}
      /\ guard' \in GuardRecord \cup {Nil} /\ mutex' \in Process \cup {Nil, "msi"}
  BY Fields DEF InstallationInstance, Installation!MsiRegisters, Installation!MsiAt,
       Installation!books, Installation!history
<1> QED BY <1>1, <1>2, <1>3 DEF InstallTyped

LEMMA TypedMsiPreparesRemoval ==
  ASSUME InstallationInstance, InstallTyped,
         Installation!MsiPreparesRemoval
  PROVE  InstallTyped'
<1>1. Quiet
  BY QuietActions
<1>2. /\ ProcTyped'
      /\ helper' \in HelperRecord /\ journal' \in Entry /\ begun' \in Seq(Version \cup {Nil})
      /\ /\ tree' \in Trees /\ marker' \in Version \cup {Nil} /\ product' \in Version \cup {Nil}
      /\ guard' \in GuardRecord \cup {Nil} /\ mutex' \in Process \cup {Nil, "msi"}
  BY <1>1, QuietSteps, Fields DEF Installation!MsiPreparesRemoval, Installation!disk,
       Installation!books, Installation!history
<1>3. msi' \in MsiRecord /\ (msi'.pc # "idle" => msi'.target \in Version /\ msi'.kind # Nil)
      /\ (msi'.pc \in Changing => msi'.saved \in Saved)
  BY Fields, Saves DEF MsiState, InstallationInstance, Changing, Installation!MsiPreparesRemoval,
       Installation!MsiAt, Installation!disk, Installation!books, Installation!history
<1> QED BY <1>2, <1>3 DEF InstallTyped

LEMMA TypedMsiErases ==
  ASSUME InstallationInstance, InstallTyped, Installation!MsiErases
  PROVE  InstallTyped'
<1>1. /\ ProcTyped'
      /\ helper' \in HelperRecord /\ journal' \in Entry /\ begun' \in Seq(Version \cup {Nil})
  BY Fields, QuietSteps DEF Installation!MsiErases, Installation!disk, Installation!books,
       Installation!history
<1>2. msi' \in MsiRecord /\ (msi'.pc # "idle" => msi'.target \in Version /\ msi'.kind # Nil)
      /\ (msi'.pc \in Changing => msi'.saved \in Saved)
  BY Fields, MsiSteps DEF MsiState, InstallationInstance, Changing, Installation!MsiErases,
       Installation!MsiAt, Installation!disk, Installation!books, Installation!history
<1>3. /\ tree' \in Trees /\ marker' \in Version \cup {Nil} /\ product' \in Version \cup {Nil}
      /\ guard' \in GuardRecord \cup {Nil} /\ mutex' \in Process \cup {Nil, "msi"}
  BY Fields DEF InstallationInstance, Trees, Installation!MsiErases, Installation!MsiAt,
       Installation!disk, Installation!books, Installation!history
<1> QED BY <1>1, <1>2, <1>3 DEF InstallTyped

LEMMA TypedMsiCommits ==
  ASSUME InstallationInstance, InstallTyped, Installation!MsiCommits
  PROVE  InstallTyped'
<1>1. ProcTyped'
  BY Fields, QuietSteps DEF Installation!MsiCommits, Installation!disk
<1>2. msi' \in MsiRecord /\ (msi'.pc # "idle" => msi'.target \in Version /\ msi'.kind # Nil)
      /\ (msi'.pc \in Changing => msi'.saved \in Saved)
  BY Fields, MsiReturn DEF MsiState, InstallationInstance, Changing, Installation!MsiCommits,
       Installation!MsiAt, Installation!disk
<1>3. helper' \in HelperRecord /\ journal' \in Entry /\ begun' \in Seq(Version \cup {Nil})
  BY Fields, MsiReturn DEF HelperState, InstallationInstance, Installation!MsiCommits,
       Installation!MsiAt, Installation!disk
<1>4. /\ tree' \in Trees /\ marker' \in Version \cup {Nil} /\ product' \in Version \cup {Nil}
      /\ guard' \in GuardRecord \cup {Nil} /\ mutex' \in Process \cup {Nil, "msi"}
  BY Fields DEF InstallationInstance, Installation!MsiCommits, Installation!MsiAt,
       Installation!disk
<1> QED BY <1>1, <1>2, <1>3, <1>4 DEF InstallTyped

LEMMA TypedMsiRestores ==
  ASSUME InstallationInstance, InstallTyped, Installation!MsiRestores
  PROVE  InstallTyped'
<1>1. /\ ProcTyped'
      /\ helper' \in HelperRecord /\ journal' \in Entry /\ begun' \in Seq(Version \cup {Nil})
  BY Fields, QuietSteps DEF Installation!MsiRestores, Installation!books, Installation!history
<1>2. msi' \in MsiRecord /\ (msi'.pc # "idle" => msi'.target \in Version /\ msi'.kind # Nil)
      /\ (msi'.pc \in Changing => msi'.saved \in Saved)
  BY Fields, MsiSteps DEF MsiState, InstallationInstance, Changing, Installation!MsiRestores,
       Installation!MsiAt, Installation!books, Installation!history
<1>3. /\ tree' \in Trees /\ marker' \in Version \cup {Nil} /\ product' \in Version \cup {Nil}
      /\ guard' \in GuardRecord \cup {Nil} /\ mutex' \in Process \cup {Nil, "msi"}
  <2>1. msi.saved \in Saved
    BY Fields DEF Installation!MsiRestores, Installation!MsiAt, Changing
  <2> QED BY Fields, <2>1 DEF Trees, Saved, Installation!MsiRestores
<1> QED BY <1>1, <1>2, <1>3 DEF InstallTyped

LEMMA TypedMsiRevives ==
  ASSUME InstallationInstance, InstallTyped, Installation!MsiRevives
  PROVE  InstallTyped'
<1>1. Quiet
  BY QuietActions
<1>2. /\ ProcTyped'
      /\ helper' \in HelperRecord /\ journal' \in Entry /\ begun' \in Seq(Version \cup {Nil})
  BY <1>1, QuietSteps, Fields DEF Installation!MsiRevives, Installation!disk, Installation!books,
       Installation!history
<1>3. msi' \in MsiRecord /\ (msi'.pc # "idle" => msi'.target \in Version /\ msi'.kind # Nil)
      /\ (msi'.pc \in Changing => msi'.saved \in Saved)
  BY Fields, MsiSteps DEF MsiState, InstallationInstance, Changing, Installation!MsiRevives,
       Installation!MsiAt, Installation!disk, Installation!books, Installation!history
<1>4. /\ tree' \in Trees /\ marker' \in Version \cup {Nil} /\ product' \in Version \cup {Nil}
      /\ guard' \in GuardRecord \cup {Nil} /\ mutex' \in Process \cup {Nil, "msi"}
  BY Fields DEF InstallationInstance, Installation!MsiRevives, Installation!MsiAt,
       Installation!disk, Installation!books, Installation!history
<1> QED BY <1>2, <1>3, <1>4 DEF InstallTyped

LEMMA TypedMsiRestarts ==
  ASSUME InstallationInstance, InstallTyped, Installation!MsiRestarts
  PROVE  InstallTyped'
<1>1. Quiet
  BY QuietActions
<1>2. /\ ProcTyped'
      /\ /\ tree' \in Trees /\ marker' \in Version \cup {Nil} /\ product' \in Version \cup {Nil}
      /\ guard' \in GuardRecord \cup {Nil} /\ mutex' \in Process \cup {Nil, "msi"}
  BY <1>1, QuietSteps, Fields DEF Installation!MsiRestarts, Installation!disk,
       Installation!books, Installation!history
<1>3. msi' \in MsiRecord /\ (msi'.pc # "idle" => msi'.target \in Version /\ msi'.kind # Nil)
      /\ (msi'.pc \in Changing => msi'.saved \in Saved)
  BY Fields, MsiReturn DEF MsiState, InstallationInstance, Changing, Installation!MsiRestarts,
       Installation!MsiAt, Installation!RestartSurviving, Installation!Whole, Installation!Up,
       Installation!disk, Installation!books, Installation!history
<1>4. helper' \in HelperRecord /\ journal' \in Entry /\ begun' \in Seq(Version \cup {Nil})
  BY Fields, MsiReturn DEF HelperState, InstallationInstance, Installation!MsiRestarts,
       Installation!MsiAt, Installation!RestartSurviving, Installation!Whole, Installation!Up,
       Installation!disk, Installation!books, Installation!history
<1> QED BY <1>2, <1>3, <1>4 DEF InstallTyped

LEMMA TypedHelperGuards ==
  ASSUME InstallationInstance, InstallTyped, Installation!HelperGuards
  PROVE  InstallTyped'
<1>1. /\ ProcTyped'
      /\ msi' \in MsiRecord /\ (msi'.pc # "idle" => msi'.target \in Version /\ msi'.kind # Nil)
      /\ (msi'.pc \in Changing => msi'.saved \in Saved)
  BY Fields, QuietSteps DEF Installation!HelperGuards, Installation!disk, Installation!Begin
<1>2. helper' \in HelperRecord /\ journal' \in Entry /\ begun' \in Seq(Version \cup {Nil})
  BY Fields, Begins DEF HelperState, InstallationInstance, Installation!HelperGuards,
       Installation!HelperAt, Installation!disk
<1>3. /\ tree' \in Trees /\ marker' \in Version \cup {Nil} /\ product' \in Version \cup {Nil}
      /\ guard' \in GuardRecord \cup {Nil} /\ mutex' \in Process \cup {Nil, "msi"}
  BY Fields, GuardTyped DEF InstallationInstance, Installation!HelperGuards,
       Installation!HelperAt, Installation!disk
<1> QED BY <1>1, <1>2, <1>3 DEF InstallTyped

LEMMA TypedHelperStops ==
  ASSUME InstallationInstance, InstallTyped, Installation!HelperStops
  PROVE  InstallTyped'
<1>1. Quiet
  BY QuietActions
<1>2. /\ ProcTyped'
      /\ msi' \in MsiRecord /\ (msi'.pc # "idle" => msi'.target \in Version /\ msi'.kind # Nil)
      /\ (msi'.pc \in Changing => msi'.saved \in Saved)
      /\ /\ tree' \in Trees /\ marker' \in Version \cup {Nil} /\ product' \in Version \cup {Nil}
      /\ guard' \in GuardRecord \cup {Nil} /\ mutex' \in Process \cup {Nil, "msi"}
  BY <1>1, QuietSteps, Fields DEF Installation!HelperStops, Installation!disk
<1>3. helper' \in HelperRecord /\ journal' \in Entry /\ begun' \in Seq(Version \cup {Nil})
  <2>1. PICK e : e = [helper.record EXCEPT !.target = product, !.stage = "stopping_agent"]
    OBVIOUS
  <2>2. PICK pc \in {"stopped", "failed"} :
          /\ helper' = [pc |-> pc, with |-> Nil, record |-> e] /\ journal' = e
          /\ begun' = [begun EXCEPT ![e.id] = product]
    BY <2>1 DEF Installation!HelperStops, Installation!Writes
  <2> QED BY Fields, StopsRecord, <2>1, <2>2
<1> QED BY <1>2, <1>3 DEF InstallTyped

LEMMA TypedHelperRuns ==
  ASSUME InstallationInstance, InstallTyped, Installation!HelperRuns
  PROVE  InstallTyped'
<1>1. /\ ProcTyped'
      /\ /\ tree' \in Trees /\ marker' \in Version \cup {Nil} /\ product' \in Version \cup {Nil}
      /\ guard' \in GuardRecord \cup {Nil} /\ mutex' \in Process \cup {Nil, "msi"}
  BY Fields, QuietSteps DEF Installation!HelperRuns, Installation!disk, Installation!history
<1>2. msi' \in MsiRecord /\ (msi'.pc # "idle" => msi'.target \in Version /\ msi'.kind # Nil)
      /\ (msi'.pc \in Changing => msi'.saved \in Saved)
  <2>1. \/ UNCHANGED msi
        \/ \E k \in {"major_upgrade", "uninstall"} :
             helper.record.target \in Version /\ msi' = Installation!NewMsi(k, helper.record.target, "helper")
    BY Fields DEF Installation!HelperRuns, Installation!Target
  <2>2. Nil \notin {"major_upgrade", "uninstall"}
    BY DEF InstallationInstance
  <2> QED BY Fields, MsiSteps, <2>1, <2>2 DEF Changing
<1>3. helper' \in HelperRecord /\ journal' \in Entry /\ begun' \in Seq(Version \cup {Nil})
  BY Fields, StageWritten DEF HelperState, InstallationInstance, Installation!HelperRuns,
       Installation!HelperAt, Installation!Updates, Installation!MsiAt, Installation!Target,
       Installation!disk, Installation!history
<1> QED BY <1>1, <1>2, <1>3 DEF InstallTyped

LEMMA TypedHelperTimesOut ==
  ASSUME InstallationInstance, InstallTyped,
         Installation!HelperTimesOut
  PROVE  InstallTyped'
<1>1. /\ ProcTyped'
      /\ msi' \in MsiRecord /\ (msi'.pc # "idle" => msi'.target \in Version /\ msi'.kind # Nil)
      /\ (msi'.pc \in Changing => msi'.saved \in Saved)
      /\ /\ tree' \in Trees /\ marker' \in Version \cup {Nil} /\ product' \in Version \cup {Nil}
      /\ guard' \in GuardRecord \cup {Nil} /\ mutex' \in Process \cup {Nil, "msi"}
  BY Fields, QuietSteps DEF Installation!HelperTimesOut, Installation!disk, Installation!books,
       Installation!history
<1>2. helper' \in HelperRecord /\ journal' \in Entry /\ begun' \in Seq(Version \cup {Nil})
  BY Fields, HelperGoesOn DEF HelperState, InstallationInstance, Installation!HelperTimesOut,
       Installation!HelperAt, Installation!disk, Installation!books, Installation!history
<1> QED BY <1>1, <1>2 DEF InstallTyped

LEMMA TypedHelperLearns ==
  ASSUME InstallationInstance, InstallTyped, Installation!HelperLearns
  PROVE  InstallTyped'
<1>1. /\ ProcTyped'
      /\ msi' \in MsiRecord /\ (msi'.pc # "idle" => msi'.target \in Version /\ msi'.kind # Nil)
      /\ (msi'.pc \in Changing => msi'.saved \in Saved)
      /\ /\ tree' \in Trees /\ marker' \in Version \cup {Nil} /\ product' \in Version \cup {Nil}
      /\ guard' \in GuardRecord \cup {Nil} /\ mutex' \in Process \cup {Nil, "msi"}
  BY Fields, QuietSteps DEF Installation!HelperLearns, Installation!disk, Installation!history
<1>2. helper' \in HelperRecord /\ journal' \in Entry /\ begun' \in Seq(Version \cup {Nil})
  BY Fields, StageWritten DEF HelperState, InstallationInstance, Installation!HelperLearns,
       Installation!HelperAt, Installation!Updates, Installation!disk, Installation!history
<1> QED BY <1>1, <1>2 DEF InstallTyped

LEMMA TypedHelperChecks ==
  ASSUME InstallationInstance, InstallTyped, Installation!HelperChecks
  PROVE  InstallTyped'
<1>1. /\ ProcTyped'
      /\ msi' \in MsiRecord /\ (msi'.pc # "idle" => msi'.target \in Version /\ msi'.kind # Nil)
      /\ (msi'.pc \in Changing => msi'.saved \in Saved)
      /\ /\ tree' \in Trees /\ marker' \in Version \cup {Nil} /\ product' \in Version \cup {Nil}
      /\ guard' \in GuardRecord \cup {Nil} /\ mutex' \in Process \cup {Nil, "msi"}
  BY Fields, QuietSteps DEF Installation!HelperChecks, Installation!disk, Installation!history
<1>2. helper' \in HelperRecord /\ journal' \in Entry /\ begun' \in Seq(Version \cup {Nil})
  BY Fields, StageWritten, HelperGoesOn DEF HelperState, InstallationInstance,
       Installation!HelperChecks, Installation!HelperAt, Installation!Target, Installation!Whole,
       Installation!disk, Installation!history
<1> QED BY <1>1, <1>2 DEF InstallTyped

LEMMA TypedHelperMeets ==
  ASSUME InstallationInstance, InstallTyped, Installation!HelperMeets
  PROVE  InstallTyped'
<1>1. Quiet
  BY QuietActions
<1>2. /\ ProcTyped'
      /\ msi' \in MsiRecord /\ (msi'.pc # "idle" => msi'.target \in Version /\ msi'.kind # Nil)
      /\ (msi'.pc \in Changing => msi'.saved \in Saved)
      /\ /\ tree' \in Trees /\ marker' \in Version \cup {Nil} /\ product' \in Version \cup {Nil}
      /\ guard' \in GuardRecord \cup {Nil} /\ mutex' \in Process \cup {Nil, "msi"}
  BY <1>1, QuietSteps, Fields DEF Installation!HelperMeets, Installation!disk,
       Installation!history
<1>3. helper' \in HelperRecord /\ journal' \in Entry /\ begun' \in Seq(Version \cup {Nil})
  <2>1. UNCHANGED begun
    BY DEF Installation!HelperMeets, Installation!history
  <2>2. CASE Installation!Stage("restarting_ui", "completing", Nil)
    BY Fields, StageWritten, <2>1, <2>2 DEF HelperState
  <2>3. CASE Installation!HelperGoes("failed") /\ UNCHANGED journal
    BY Fields, HelperGoesOn, <2>1, <2>3 DEF HelperState
  <2>4. ASSUME NEW p \in Process, helper' = [helper EXCEPT !.pc = "awaiting", !.with = p], UNCHANGED journal
        PROVE  helper' \in HelperRecord /\ journal' \in Entry /\ begun' \in Seq(Version \cup {Nil})
    BY Fields, HelperWaits, <2>1, <2>4
  <2> QED BY <2>1, <2>2, <2>3, <2>4 DEF Installation!HelperMeets, Installation!Idle
<1> QED BY <1>2, <1>3 DEF InstallTyped

LEMMA TypedHelperAwaits ==
  ASSUME InstallationInstance, InstallTyped, Installation!HelperAwaits
  PROVE  InstallTyped'
<1>1. /\ ProcTyped'
      /\ msi' \in MsiRecord /\ (msi'.pc # "idle" => msi'.target \in Version /\ msi'.kind # Nil)
      /\ (msi'.pc \in Changing => msi'.saved \in Saved)
      /\ /\ tree' \in Trees /\ marker' \in Version \cup {Nil} /\ product' \in Version \cup {Nil}
      /\ guard' \in GuardRecord \cup {Nil} /\ mutex' \in Process \cup {Nil, "msi"}
  BY Fields, QuietSteps DEF Installation!HelperAwaits, Installation!disk, Installation!history
<1>2. helper' \in HelperRecord /\ journal' \in Entry /\ begun' \in Seq(Version \cup {Nil})
  BY Fields, StageWritten, HelperGoesOn DEF HelperState, InstallationInstance,
       Installation!HelperAwaits, Installation!HelperAt, Installation!Up, Installation!Idle,
       Installation!disk, Installation!history
<1> QED BY <1>1, <1>2 DEF InstallTyped

LEMMA TypedHelperCompletes ==
  ASSUME InstallationInstance, InstallTyped,
         Installation!HelperCompletes
  PROVE  InstallTyped'
<1>1. /\ ProcTyped'
      /\ msi' \in MsiRecord /\ (msi'.pc # "idle" => msi'.target \in Version /\ msi'.kind # Nil)
      /\ (msi'.pc \in Changing => msi'.saved \in Saved)
  BY Fields, QuietSteps DEF Installation!HelperCompletes, Installation!disk, Installation!history
<1>2. helper' \in HelperRecord /\ journal' \in Entry /\ begun' \in Seq(Version \cup {Nil})
  BY Fields, Settled DEF HelperState, InstallationInstance, Installation!HelperCompletes,
       Installation!HelperAt, Installation!Updates, Installation!disk, Installation!history
<1>3. /\ tree' \in Trees /\ marker' \in Version \cup {Nil} /\ product' \in Version \cup {Nil}
      /\ guard' \in GuardRecord \cup {Nil} /\ mutex' \in Process \cup {Nil, "msi"}
  BY Fields, Settled DEF InstallationInstance, Installation!HelperCompletes,
       Installation!HelperAt, Installation!Updates, Installation!disk, Installation!history
<1> QED BY <1>1, <1>2, <1>3 DEF InstallTyped

LEMMA TypedHelperFails ==
  ASSUME InstallationInstance, InstallTyped, Installation!HelperFails
  PROVE  InstallTyped'
<1>1. Quiet
  BY QuietActions
<1>2. /\ ProcTyped'
      /\ msi' \in MsiRecord /\ (msi'.pc # "idle" => msi'.target \in Version /\ msi'.kind # Nil)
      /\ (msi'.pc \in Changing => msi'.saved \in Saved)
  BY <1>1, QuietSteps, Fields DEF Installation!HelperFails, Installation!disk,
       Installation!history
<1>3. helper' \in HelperRecord /\ journal' \in Entry /\ begun' \in Seq(Version \cup {Nil})
  BY Fields, Settled DEF HelperState, InstallationInstance, Installation!HelperFails,
       Installation!HelperAt, Installation!Updates, Installation!RestartSurviving,
       Installation!Whole, Installation!Up, Installation!disk, Installation!history
<1>4. /\ tree' \in Trees /\ marker' \in Version \cup {Nil} /\ product' \in Version \cup {Nil}
      /\ guard' \in GuardRecord \cup {Nil} /\ mutex' \in Process \cup {Nil, "msi"}
  BY Fields, Settled DEF InstallationInstance, Installation!HelperFails, Installation!HelperAt,
       Installation!Updates, Installation!RestartSurviving, Installation!Whole, Installation!Up,
       Installation!disk, Installation!history
<1> QED BY <1>2, <1>3, <1>4 DEF InstallTyped

LEMMA TypedHelperDies ==
  ASSUME InstallationInstance, InstallTyped, Installation!HelperDies
  PROVE  InstallTyped'
<1>1. /\ ProcTyped'
      /\ msi' \in MsiRecord /\ (msi'.pc # "idle" => msi'.target \in Version /\ msi'.kind # Nil)
      /\ (msi'.pc \in Changing => msi'.saved \in Saved)
      /\ /\ tree' \in Trees /\ marker' \in Version \cup {Nil} /\ product' \in Version \cup {Nil}
      /\ guard' \in GuardRecord \cup {Nil} /\ mutex' \in Process \cup {Nil, "msi"}
  BY Fields, QuietSteps DEF Installation!HelperDies, Installation!disk, Installation!books,
       Installation!history
<1>2. helper' \in HelperRecord /\ journal' \in Entry /\ begun' \in Seq(Version \cup {Nil})
  BY Fields, NoHelperTyped DEF HelperState, InstallationInstance, Installation!HelperDies,
       Installation!HelperAt, Installation!disk, Installation!books, Installation!history
<1> QED BY <1>1, <1>2 DEF InstallTyped

LEMMA TypedGuardAges ==
  ASSUME InstallationInstance, InstallTyped, Installation!GuardAges
  PROVE  InstallTyped'
<1>1. /\ ProcTyped'
      /\ msi' \in MsiRecord /\ (msi'.pc # "idle" => msi'.target \in Version /\ msi'.kind # Nil)
      /\ (msi'.pc \in Changing => msi'.saved \in Saved)
      /\ helper' \in HelperRecord /\ journal' \in Entry /\ begun' \in Seq(Version \cup {Nil})
  BY Fields, QuietSteps DEF Installation!GuardAges, Installation!disk, Installation!books,
       Installation!history
<1>2. /\ tree' \in Trees /\ marker' \in Version \cup {Nil} /\ product' \in Version \cup {Nil}
      /\ guard' \in GuardRecord \cup {Nil} /\ mutex' \in Process \cup {Nil, "msi"}
  BY Fields, GuardsAge DEF InstallationInstance, Installation!GuardAges, Installation!disk,
       Installation!books, Installation!history
<1> QED BY <1>1, <1>2 DEF InstallTyped

LEMMA InstallTypedNext ==
  ASSUME InstallationInstance, InstallTyped,
         [Installation!Next]_(Installation!vars)
  PROVE  InstallTyped'
<1>1. CASE UNCHANGED Installation!vars
  BY <1>1, Fields, QuietSteps, TypedApart DEF Installation!vars
<1>2. ASSUME NEW p \in Process,
             Installation!Open(p) \/ Installation!Exit(p)
      PROVE  InstallTyped'
  <2>1. Quiet
    BY <1>2, Fields, QuietSteps, QuietActions
  <2>2. UNCHANGED <<msi, helper, journal, begun, tree, marker, product, guard, mutex>>
    BY <1>2 DEF Installation!Open, Installation!Exit, Installation!disk, Installation!books,
       Installation!history
  <2> QED BY <2>1, <2>2, TypedApart
<1>3. CASE Installation!JournalAges
  <2>1. Quiet
    BY <1>3, Fields, QuietSteps, QuietActions DEF Installation!JournalAges
  <2>2. UNCHANGED <<msi, helper, journal, begun, tree, marker, product, guard, mutex>>
    BY <1>3 DEF Installation!JournalAges, Installation!disk, Installation!history
  <2> QED BY <2>1, <2>2, TypedApart
<1>4. ASSUME NEW p \in Process,
             Installation!Enter(p) \/ Installation!Decide(p) \/
             Installation!TerminateNonTarget(p) \/ Installation!CleanupNonTarget(p) \/
             Installation!Mark(p) \/ Installation!RecoverReads(p) \/
             Installation!RecoverWrites(p) \/ Installation!Die(p) \/
             Installation!InstallUpdate(p) \/ Installation!Uninstall(p)
      PROVE  InstallTyped'
  BY <1>4, TypedEnter, TypedDecide, TypedTerminateNonTarget, TypedCleanupNonTarget,
     TypedMark, TypedRecoverReads, TypedRecoverWrites, TypedDie, TypedInstallUpdate,
     TypedUninstall
<1>5. CASE Installation!Setup \/ Installation!Removal \/ Installation!MsiGuards \/
           Installation!MsiStops \/ Installation!MsiRemoves \/
           Installation!MsiCopies \/ Installation!MsiCopied \/
           Installation!MsiVerifies \/ Installation!MsiAwaits \/
           Installation!MsiRegisters \/ Installation!MsiPreparesRemoval \/
           Installation!MsiErases \/ Installation!MsiCommits \/
           Installation!MsiRestores \/ Installation!MsiRevives \/
           Installation!MsiRestarts \/ Installation!HelperGuards \/
           Installation!HelperStops \/ Installation!HelperRuns \/
           Installation!HelperTimesOut \/ Installation!HelperLearns \/
           Installation!HelperChecks \/ Installation!HelperMeets \/
           Installation!HelperAwaits \/ Installation!HelperCompletes \/
           Installation!HelperFails \/ Installation!HelperDies \/ Installation!GuardAges
  BY <1>5, TypedSetup, TypedRemoval, TypedMsiGuards, TypedMsiStops, TypedMsiRemoves,
     TypedMsiCopies, TypedMsiCopied, TypedMsiVerifies, TypedMsiAwaits,
     TypedMsiRegisters, TypedMsiPreparesRemoval, TypedMsiErases, TypedMsiCommits,
     TypedMsiRestores, TypedMsiRevives, TypedMsiRestarts, TypedHelperGuards,
     TypedHelperStops, TypedHelperRuns, TypedHelperTimesOut, TypedHelperLearns,
     TypedHelperChecks, TypedHelperMeets, TypedHelperAwaits, TypedHelperCompletes,
     TypedHelperFails, TypedHelperDies, TypedGuardAges
<1> QED BY <1>1, <1>2, <1>3, <1>4, <1>5 DEF Installation!Next

(* What is told of an operation stays true.                                *)
LEMMA ReceiptApart ==
  ASSUME InstallationInstance, InstallTyped, ReceiptSound, Quiet, UNCHANGED <<helper, begun, msi, proven, journal>>
  PROVE  ReceiptSound'
<1>1. ReadProven'
  BY ReadsStand DEF ReceiptSound
<1> QED BY <1>1 DEF ReceiptSound, HelperBegan, HelperAsked, HelperProven, JournalProven

LEMMA ReceiptEnter ==
  ASSUME InstallationInstance, InstallTyped, ReceiptSound,
         NEW p \in Process, Installation!Enter(p)
  PROVE  ReceiptSound'
<1> USE DEF ReceiptSound
<1>1. HelperBegan' /\ HelperAsked' /\ HelperProven' /\ JournalProven'
  BY DEF HelperBegan, HelperAsked, HelperProven, JournalProven, Installation!Enter,
       Installation!disk, Installation!books, Installation!history
<1>2. ReadProven'
  <2>1. UNCHANGED proven
    BY DEF Installation!Enter, Installation!history, Installation!books
  <2>2. \/ Installation!Goes(p, "deciding") \/ Installation!Goes(p, "recovering") \/ Installation!Ends(p)
    BY DEF Installation!Enter
  <2> QED BY <2>1, <2>2, Fields, QuietSteps, ReadsStand DEF ProcState
<1> QED BY <1>1, <1>2

LEMMA ReceiptDecide ==
  ASSUME InstallationInstance, InstallTyped, ReceiptSound,
         NEW p \in Process, Installation!Decide(p)
  PROVE  ReceiptSound'
<1> USE DEF ReceiptSound
<1>1. HelperBegan' /\ HelperAsked' /\ HelperProven' /\ JournalProven'
  BY DEF HelperBegan, HelperAsked, HelperProven, JournalProven, Installation!Decide,
       Installation!disk, Installation!books, Installation!history
<1>2. ReadProven'
  <2>1. UNCHANGED proven
    BY DEF Installation!Decide, Installation!history, Installation!books
  <2>2. CASE Installation!Ends(p)
    BY <2>1, <2>2, Fields, QuietSteps, ReadsStand
  <2>3. ASSUME NEW v \in Version, proc' = [proc EXCEPT ![p] = Installation!Started(v)] PROVE ReadProven'
    BY <2>1, <2>3, Fields, QuietSteps, ReadsStand
  <2>4. CASE Installation!Goes(p, "ending others")
    BY <2>1, <2>4, Fields, ReadsStand DEF ProcState
  <2>5. proc[p].version # Nil => Installation!AuthoritativeVersion(proc[p].version) \in Version
    BY Fields DEF Installation!AuthoritativeVersion, Installation!Whole
  <2> QED BY <2>2, <2>3, <2>4, <2>5 DEF Installation!Decide, Installation!Whole
<1> QED BY <1>1, <1>2

LEMMA ReceiptTerminateNonTarget ==
  ASSUME InstallationInstance, InstallTyped, ReceiptSound,
         NEW p \in Process, Installation!TerminateNonTarget(p)
  PROVE  ReceiptSound'
<1> USE DEF ReceiptSound
<1>1. HelperBegan' /\ HelperAsked' /\ HelperProven' /\ JournalProven'
  BY DEF HelperBegan, HelperAsked, HelperProven, JournalProven, Installation!TerminateNonTarget,
       Installation!disk, Installation!books, Installation!history
<1>2. ReadProven'
  <2>1. UNCHANGED proven
    BY DEF Installation!TerminateNonTarget, Installation!history, Installation!books
  <2>2. CASE Installation!Ends(p)
    BY <2>1, <2>2, Fields, QuietSteps, ReadsStand
  <2>3. CASE ~ Installation!Ends(p)
    <3>1. proc' = [q \in Process |->
                     IF q = p THEN [proc[p] EXCEPT !.pc = "cleaning"]
                     ELSE IF proc[q].version # proc[p].version THEN Installation!Off ELSE proc[q]]
      BY <2>3 DEF Installation!TerminateNonTarget
    <3>2. \A q \in Process : proc'[q].read = proc[q].read \/ proc'[q].read = Nil
      BY <3>1, EndsOthers, OffIsProc
    <3> QED BY <2>1, <3>2 DEF ReadProven
  <2> QED BY <2>2, <2>3
<1> QED BY <1>1, <1>2

LEMMA ReceiptCleanupNonTarget ==
  ASSUME InstallationInstance, InstallTyped, ReceiptSound,
         NEW p \in Process, Installation!CleanupNonTarget(p)
  PROVE  ReceiptSound'
<1> USE DEF ReceiptSound
<1>1. HelperBegan' /\ HelperAsked' /\ HelperProven' /\ JournalProven'
  BY DEF HelperBegan, HelperAsked, HelperProven, JournalProven, Installation!CleanupNonTarget,
       Installation!books, Installation!history
<1>2. ReadProven'
  <2>1. UNCHANGED proven
    BY DEF Installation!CleanupNonTarget, Installation!history, Installation!books
  <2>2. Installation!Goes(p, "marking") \/ Installation!Ends(p)
    BY DEF Installation!CleanupNonTarget
  <2> QED BY <2>1, <2>2, Fields, QuietSteps, ReadsStand DEF ProcState
<1> QED BY <1>1, <1>2

LEMMA ReceiptMark ==
  ASSUME InstallationInstance, InstallTyped, ReceiptSound,
         NEW p \in Process, Installation!Mark(p)
  PROVE  ReceiptSound'
<1> USE DEF ReceiptSound
<1>1. HelperBegan' /\ HelperAsked' /\ HelperProven' /\ JournalProven'
  BY DEF HelperBegan, HelperAsked, HelperProven, JournalProven, Installation!Mark,
       Installation!books, Installation!history
<1>2. ReadProven'
  <2>1. UNCHANGED proven
    BY DEF Installation!Mark, Installation!history, Installation!books
  <2> QED BY <2>1, ReadsStand DEF ProcState, Installation!Mark
<1> QED BY <1>1, <1>2

LEMMA ReceiptRecoverReads ==
  ASSUME InstallationInstance, InstallTyped, ReceiptSound,
         NEW p \in Process, Installation!RecoverReads(p)
  PROVE  ReceiptSound'
<1> USE DEF ReceiptSound
<1>1. HelperBegan' /\ HelperAsked' /\ HelperProven' /\ JournalProven'
  BY DEF HelperBegan, HelperAsked, HelperProven, JournalProven, Installation!RecoverReads,
       Installation!disk, Installation!books, Installation!history
<1>2. ReadProven'
  <2>1. UNCHANGED proven
    BY DEF Installation!RecoverReads, Installation!history, Installation!books
  <2>2. CASE Installation!Goes(p, "up")
    BY <2>1, <2>2, ReadsStand DEF ProcState
  <2>3. CASE proc' = [proc EXCEPT ![p].pc = "recovered", ![p].read = journal]
    <3>1. PICK j : j = journal
      OBVIOUS
    <3>2. \A q \in Process : proc'[q].read = j \/ proc'[q].read = proc[q].read
      BY <2>3, <3>1, ReadsJournal
    <3>3. j.stage \in Proven => j.id \in proven
      BY <3>1 DEF JournalProven
    <3> QED BY <2>1, <3>2, <3>3 DEF ReadProven
  <2> QED BY <2>2, <2>3 DEF Installation!RecoverReads
<1> QED BY <1>1, <1>2

LEMMA ReceiptRecoverWrites ==
  ASSUME InstallationInstance, InstallTyped, ReceiptSound,
         NEW p \in Process, Installation!RecoverWrites(p)
  PROVE  ReceiptSound'
<1> USE DEF ReceiptSound
<1>1. HelperBegan' /\ HelperAsked' /\ HelperProven'
  BY DEF HelperBegan, HelperAsked, HelperProven, Installation!RecoverWrites, Installation!disk,
       Installation!history
<1>2. JournalProven'
  <2>1. proc[p].read \in Entry /\ proc[p].read # Nil
    BY Fields DEF Installation!RecoverWrites, InstallationInstance
  <2>2. PICK e : e = proc[p].read
    OBVIOUS
  <2>3. PICK v : v = proc[p].version
    OBVIOUS
  <2>4. journal' = Installation!Closed(e, v) /\ UNCHANGED proven
    BY <2>2, <2>3 DEF Installation!RecoverWrites, Installation!history
  <2>5. journal'.id = e.id /\ journal'.stage = "closed"
        /\ (journal'.status = "completed" => e.stage \in Installation!Provable)
    BY <2>1, <2>2, <2>4, Closes
  <2>6. e.stage \in Proven => e.id \in proven
    BY <2>1, <2>2 DEF ReadProven
  <2> QED BY <2>4, <2>5, <2>6 DEF JournalProven, Proven, Installation!Provable
<1>3. ReadProven'
  <2>1. UNCHANGED proven
    BY DEF Installation!RecoverWrites, Installation!history, Installation!books
  <2> QED BY <2>1, IsUp DEF ReadProven, Installation!RecoverWrites
<1> QED BY <1>1, <1>2, <1>3

LEMMA ReceiptInstallUpdate ==
  ASSUME InstallationInstance, InstallTyped, ReceiptSound,
         NEW p \in Process, Installation!InstallUpdate(p)
  PROVE  ReceiptSound'
<1> USE DEF ReceiptSound
<1>1. PICK v \in Version : Installation!Begin(Installation!Record(Len(begun) + 1, "update", v), "waiting", p)
  BY DEF Installation!InstallUpdate
<1>2. helper'.pc = "waiting"
  BY <1>1, Fields, Begins, RecordTyped
<1>3. ReadProven'
  BY DEF ReadProven, Installation!InstallUpdate, Installation!disk, Installation!Begin
<1>4. HelperBegan'
  BY Fields, Begins, RecordTyped DEF InstallationInstance, HelperBegan, HelperState,
       Installation!InstallUpdate, Installation!HelperAt, Installation!disk
<1>5. HelperAsked'
  BY <1>2 DEF HelperAsked
<1>6. HelperProven'
  BY <1>2 DEF HelperProven
<1>7. JournalProven'
  BY Fields, Begins, RecordTyped DEF InstallationInstance, JournalProven, HelperBegan,
       HelperProven, HelperState, Proven, Installation!InstallUpdate, Installation!HelperAt,
       Installation!disk
<1> QED BY <1>3, <1>4, <1>5, <1>6, <1>7

LEMMA ReceiptUninstall ==
  ASSUME InstallationInstance, InstallTyped, ReceiptSound,
         NEW p \in Process, Installation!Uninstall(p)
  PROVE  ReceiptSound'
<1> USE DEF ReceiptSound
<1>1. JournalProven' /\ ReadProven'
  BY DEF JournalProven, ReadProven, Installation!Uninstall, Installation!disk,
       Installation!books, Installation!history
<1>2. HelperBegan'
  BY Fields, RecordTyped DEF InstallationInstance, HelperBegan, HelperState,
       Installation!Uninstall, Installation!HelperAt, Installation!disk, Installation!books,
       Installation!history
<1>3. HelperAsked'
  BY Fields DEF InstallationInstance, HelperAsked, HelperState, MsiState, Installation!Uninstall,
       Installation!HelperAt, Installation!disk, Installation!books, Installation!history
<1>4. HelperProven'
  BY Fields DEF InstallationInstance, HelperProven, HelperState, Installation!Uninstall,
       Installation!HelperAt, Installation!disk, Installation!books, Installation!history
<1> QED BY <1>1, <1>2, <1>3, <1>4

LEMMA ReceiptSetup ==
  ASSUME InstallationInstance, InstallTyped, ReceiptSound,
         Installation!Setup
  PROVE  ReceiptSound'
<1> USE DEF ReceiptSound
<1>1. HelperBegan' /\ HelperProven' /\ JournalProven' /\ ReadProven'
  BY DEF HelperBegan, HelperProven, JournalProven, ReadProven, Installation!Setup,
       Installation!disk, Installation!books, Installation!history
<1>2. HelperAsked'
  BY Fields, MsiSteps DEF InstallationInstance, HelperAsked, HelperState, MsiState,
       Installation!Setup, Installation!MsiAt, Installation!disk, Installation!books,
       Installation!history
<1> QED BY <1>1, <1>2

LEMMA ReceiptRemoval ==
  ASSUME InstallationInstance, InstallTyped, ReceiptSound,
         Installation!Removal
  PROVE  ReceiptSound'
<1> USE DEF ReceiptSound
<1>1. HelperBegan' /\ HelperProven' /\ JournalProven' /\ ReadProven'
  BY DEF HelperBegan, HelperProven, JournalProven, ReadProven, Installation!Removal,
       Installation!disk, Installation!books, Installation!history
<1>2. HelperAsked'
  BY Fields, MsiSteps DEF InstallationInstance, HelperAsked, HelperState, MsiState,
       Installation!Removal, Installation!MsiAt, Installation!disk, Installation!books,
       Installation!history
<1> QED BY <1>1, <1>2

LEMMA ReceiptMsiGuards ==
  ASSUME InstallationInstance, InstallTyped, ReceiptSound,
         Installation!MsiGuards
  PROVE  ReceiptSound'
<1> USE DEF ReceiptSound
<1>1. JournalProven' /\ ReadProven'
  BY DEF JournalProven, ReadProven, Installation!MsiGuards, Installation!disk,
       Installation!books, Installation!history
<1>2. HelperBegan'
  BY Fields, MsiReturn DEF InstallationInstance, HelperBegan, HelperState,
       Installation!MsiGuards, Installation!MsiAt, Installation!disk, Installation!books,
       Installation!history
<1>3. HelperAsked'
  BY Fields, MsiSteps, MsiReturn DEF InstallationInstance, HelperAsked, HelperState, MsiState,
       Installation!MsiGuards, Installation!MsiAt, Installation!disk, Installation!books,
       Installation!history
<1>4. HelperProven'
  BY Fields, MsiReturn DEF InstallationInstance, HelperProven, HelperState,
       Installation!MsiGuards, Installation!MsiAt, Installation!disk, Installation!books,
       Installation!history
<1> QED BY <1>1, <1>2, <1>3, <1>4

LEMMA ReceiptMsiStops ==
  ASSUME InstallationInstance, InstallTyped, ReceiptSound,
         Installation!MsiStops
  PROVE  ReceiptSound'
<1> USE DEF ReceiptSound
<1>1. Quiet
  BY QuietActions
<1>2. JournalProven' /\ ReadProven'
  BY <1>1, ReadsStand DEF JournalProven, Installation!MsiStops, Installation!disk,
       Installation!books, Installation!history
<1>3. HelperBegan'
  BY Fields, MsiReturn DEF InstallationInstance, HelperBegan, HelperState, Installation!MsiStops,
       Installation!MsiAt, Installation!disk, Installation!books, Installation!history
<1>4. HelperAsked'
  BY Fields, MsiSteps, MsiReturn DEF InstallationInstance, HelperAsked, HelperState, MsiState,
       Installation!MsiStops, Installation!MsiAt, Installation!disk, Installation!books,
       Installation!history
<1>5. HelperProven'
  BY Fields, MsiReturn DEF InstallationInstance, HelperProven, HelperState,
       Installation!MsiStops, Installation!MsiAt, Installation!disk, Installation!books,
       Installation!history
<1> QED BY <1>2, <1>3, <1>4, <1>5

LEMMA ReceiptMsiRemoves ==
  ASSUME InstallationInstance, InstallTyped, ReceiptSound,
         Installation!MsiRemoves
  PROVE  ReceiptSound'
<1> USE DEF ReceiptSound
<1>1. HelperBegan' /\ HelperProven' /\ JournalProven' /\ ReadProven'
  BY DEF HelperBegan, HelperProven, JournalProven, ReadProven, Installation!MsiRemoves,
       Installation!disk, Installation!books, Installation!history
<1>2. HelperAsked'
  BY Fields, Saves DEF InstallationInstance, HelperAsked, HelperState, MsiState,
       Installation!MsiRemoves, Installation!MsiAt, Installation!disk, Installation!books,
       Installation!history
<1> QED BY <1>1, <1>2

LEMMA ReceiptMsiCopies ==
  ASSUME InstallationInstance, InstallTyped, ReceiptSound,
         Installation!MsiCopies
  PROVE  ReceiptSound'
<1> USE DEF ReceiptSound
<1>1. HelperBegan' /\ HelperProven' /\ JournalProven' /\ ReadProven'
  BY DEF HelperBegan, HelperProven, JournalProven, ReadProven, Installation!MsiCopies,
       Installation!books, Installation!history
<1>2. HelperAsked'
  BY Fields, MsiSteps DEF InstallationInstance, HelperAsked, HelperState, MsiState,
       Installation!MsiCopies, Installation!MsiAt, Installation!books, Installation!history
<1> QED BY <1>1, <1>2

LEMMA ReceiptMsiCopied ==
  ASSUME InstallationInstance, InstallTyped, ReceiptSound,
         Installation!MsiCopied
  PROVE  ReceiptSound'
<1> USE DEF ReceiptSound
<1>1. HelperBegan' /\ HelperProven' /\ JournalProven' /\ ReadProven'
  BY DEF HelperBegan, HelperProven, JournalProven, ReadProven, Installation!MsiCopied,
       Installation!books, Installation!history
<1>2. HelperAsked'
  BY Fields, MsiSteps DEF InstallationInstance, HelperAsked, HelperState, MsiState,
       Installation!MsiCopied, Installation!MsiAt, Installation!books, Installation!history
<1> QED BY <1>1, <1>2

LEMMA ReceiptMsiVerifies ==
  ASSUME InstallationInstance, InstallTyped, ReceiptSound,
         Installation!MsiVerifies
  PROVE  ReceiptSound'
<1> USE DEF ReceiptSound
<1>1. Quiet
  BY QuietActions
<1>2. HelperBegan' /\ HelperProven' /\ JournalProven' /\ ReadProven'
  BY <1>1, ReadsStand DEF HelperBegan, HelperProven, JournalProven, Installation!MsiVerifies,
       Installation!disk, Installation!books, Installation!history
<1>3. HelperAsked'
  BY Fields, MsiSteps, Candidate DEF InstallationInstance, HelperAsked, HelperState, MsiState,
       Installation!MsiVerifies, Installation!MsiAt, Installation!Up, Installation!Whole,
       Installation!Idle, Installation!disk, Installation!books, Installation!history
<1> QED BY <1>2, <1>3

LEMMA ReceiptMsiAwaits ==
  ASSUME InstallationInstance, InstallTyped, ReceiptSound,
         Installation!MsiAwaits
  PROVE  ReceiptSound'
<1> USE DEF ReceiptSound
<1>1. HelperBegan' /\ HelperProven' /\ JournalProven' /\ ReadProven'
  BY DEF HelperBegan, HelperProven, JournalProven, ReadProven, Installation!MsiAwaits,
       Installation!disk, Installation!books, Installation!history
<1>2. HelperAsked'
  BY Fields, MsiSteps DEF InstallationInstance, HelperAsked, HelperState, MsiState,
       Installation!MsiAwaits, Installation!MsiAt, Installation!Up, Installation!Idle,
       Installation!disk, Installation!books, Installation!history
<1> QED BY <1>1, <1>2

LEMMA ReceiptMsiRegisters ==
  ASSUME InstallationInstance, InstallTyped, ReceiptSound,
         Installation!MsiRegisters
  PROVE  ReceiptSound'
<1> USE DEF ReceiptSound
<1>1. HelperBegan' /\ HelperProven' /\ JournalProven' /\ ReadProven'
  BY DEF HelperBegan, HelperProven, JournalProven, ReadProven, Installation!MsiRegisters,
       Installation!books, Installation!history
<1>2. HelperAsked'
  BY Fields, MsiSteps DEF InstallationInstance, HelperAsked, HelperState, MsiState,
       Installation!MsiRegisters, Installation!MsiAt, Installation!books, Installation!history
<1> QED BY <1>1, <1>2

LEMMA ReceiptMsiPreparesRemoval ==
  ASSUME InstallationInstance, InstallTyped, ReceiptSound,
         Installation!MsiPreparesRemoval
  PROVE  ReceiptSound'
<1> USE DEF ReceiptSound
<1>1. Quiet
  BY QuietActions
<1>2. HelperBegan' /\ HelperProven' /\ JournalProven' /\ ReadProven'
  BY <1>1, ReadsStand DEF HelperBegan, HelperProven, JournalProven,
       Installation!MsiPreparesRemoval, Installation!disk, Installation!books,
       Installation!history
<1>3. HelperAsked'
  BY Fields, Saves DEF InstallationInstance, HelperAsked, HelperState, MsiState,
       Installation!MsiPreparesRemoval, Installation!MsiAt, Installation!disk,
       Installation!books, Installation!history
<1> QED BY <1>2, <1>3

LEMMA ReceiptMsiErases ==
  ASSUME InstallationInstance, InstallTyped, ReceiptSound,
         Installation!MsiErases
  PROVE  ReceiptSound'
<1> USE DEF ReceiptSound
<1>1. HelperBegan' /\ HelperProven' /\ JournalProven' /\ ReadProven'
  BY DEF HelperBegan, HelperProven, JournalProven, ReadProven, Installation!MsiErases,
       Installation!disk, Installation!books, Installation!history
<1>2. HelperAsked'
  BY Fields, MsiSteps DEF InstallationInstance, HelperAsked, HelperState, MsiState,
       Installation!MsiErases, Installation!MsiAt, Installation!disk, Installation!books,
       Installation!history
<1> QED BY <1>1, <1>2

LEMMA ReceiptMsiCommits ==
  ASSUME InstallationInstance, InstallTyped, ReceiptSound,
         Installation!MsiCommits
  PROVE  ReceiptSound'
<1> USE DEF ReceiptSound
<1>1. HelperBegan'
  BY Fields, MsiReturn DEF InstallationInstance, HelperBegan, HelperState,
       Installation!MsiCommits, Installation!MsiAt, Installation!disk
<1>2. HelperAsked'
  BY Fields, MsiReturn DEF InstallationInstance, HelperAsked, HelperState, MsiState,
       Installation!MsiCommits, Installation!MsiAt, Installation!disk
<1>3. HelperProven'
  BY Fields, MsiReturn DEF InstallationInstance, HelperProven, HelperBegan, HelperAsked,
       HelperState, Installation!MsiCommits, Installation!MsiAt, Installation!disk
<1>4. JournalProven'
  BY Fields, MsiReturn DEF InstallationInstance, JournalProven, HelperBegan, HelperProven,
       HelperState, Proven, Installation!MsiCommits, Installation!MsiAt, Installation!disk
<1>5. ReadProven'
  BY Fields DEF InstallationInstance, ReadProven, Quiet, ProcState, Installation!MsiCommits,
       Installation!MsiAt, Installation!disk
<1> QED BY <1>1, <1>2, <1>3, <1>4, <1>5

LEMMA ReceiptMsiRestores ==
  ASSUME InstallationInstance, InstallTyped, ReceiptSound,
         Installation!MsiRestores
  PROVE  ReceiptSound'
<1> USE DEF ReceiptSound
<1>1. HelperBegan' /\ HelperProven' /\ JournalProven' /\ ReadProven'
  BY DEF HelperBegan, HelperProven, JournalProven, ReadProven, Installation!MsiRestores,
       Installation!books, Installation!history
<1>2. HelperAsked'
  BY Fields, MsiSteps DEF InstallationInstance, HelperAsked, HelperState, MsiState,
       Installation!MsiRestores, Installation!MsiAt, Installation!books, Installation!history
<1> QED BY <1>1, <1>2

LEMMA ReceiptMsiRevives ==
  ASSUME InstallationInstance, InstallTyped, ReceiptSound,
         Installation!MsiRevives
  PROVE  ReceiptSound'
<1> USE DEF ReceiptSound
<1>1. Quiet
  BY QuietActions
<1>2. HelperBegan' /\ HelperProven' /\ JournalProven' /\ ReadProven'
  BY <1>1, ReadsStand DEF HelperBegan, HelperProven, JournalProven, Installation!MsiRevives,
       Installation!disk, Installation!books, Installation!history
<1>3. HelperAsked'
  BY Fields, MsiSteps DEF InstallationInstance, HelperAsked, HelperState, MsiState,
       Installation!MsiRevives, Installation!MsiAt, Installation!disk, Installation!books,
       Installation!history
<1> QED BY <1>2, <1>3

LEMMA ReceiptMsiRestarts ==
  ASSUME InstallationInstance, InstallTyped, ReceiptSound,
         Installation!MsiRestarts
  PROVE  ReceiptSound'
<1> USE DEF ReceiptSound
<1>1. Quiet
  BY QuietActions
<1>2. JournalProven' /\ ReadProven'
  BY <1>1, ReadsStand DEF JournalProven, Installation!MsiRestarts, Installation!disk,
       Installation!books, Installation!history
<1>3. HelperBegan'
  BY Fields, MsiReturn DEF InstallationInstance, HelperBegan, HelperState,
       Installation!MsiRestarts, Installation!MsiAt, Installation!RestartSurviving,
       Installation!Whole, Installation!Up, Installation!disk, Installation!books,
       Installation!history
<1>4. HelperAsked'
  BY Fields, MsiReturn DEF InstallationInstance, HelperAsked, HelperState, MsiState,
       Installation!MsiRestarts, Installation!MsiAt, Installation!RestartSurviving,
       Installation!Whole, Installation!Up, Installation!disk, Installation!books,
       Installation!history
<1>5. HelperProven'
  BY Fields, MsiReturn DEF InstallationInstance, HelperProven, HelperState,
       Installation!MsiRestarts, Installation!MsiAt, Installation!RestartSurviving,
       Installation!Whole, Installation!Up, Installation!disk, Installation!books,
       Installation!history
<1> QED BY <1>2, <1>3, <1>4, <1>5

LEMMA ReceiptHelperGuards ==
  ASSUME InstallationInstance, InstallTyped, ReceiptSound,
         Installation!HelperGuards
  PROVE  ReceiptSound'
<1> USE DEF ReceiptSound
<1>1. ReadProven'
  BY DEF ReadProven, Installation!HelperGuards, Installation!disk, Installation!Begin
<1>2. HelperBegan'
  BY Fields, Begins DEF InstallationInstance, HelperBegan, HelperState,
       Installation!HelperGuards, Installation!HelperAt, Installation!disk
<1>3. HelperAsked'
  BY Fields, Begins DEF InstallationInstance, HelperAsked, HelperState, MsiState,
       Installation!HelperGuards, Installation!HelperAt, Installation!disk
<1>4. HelperProven'
  BY Fields, Begins DEF InstallationInstance, HelperProven, HelperState,
       Installation!HelperGuards, Installation!HelperAt, Installation!disk
<1>5. JournalProven'
  BY Fields, Begins DEF InstallationInstance, JournalProven, HelperBegan, HelperProven,
       HelperState, Proven, Installation!HelperGuards, Installation!HelperAt, Installation!disk
<1> QED BY <1>1, <1>2, <1>3, <1>4, <1>5

LEMMA ReceiptHelperStops ==
  ASSUME InstallationInstance, InstallTyped, ReceiptSound,
         Installation!HelperStops
  PROVE  ReceiptSound'
<1> USE DEF ReceiptSound
<1>1. Quiet
  BY QuietActions
<1>2. ReadProven'
  BY <1>1, ReadsStand DEF Installation!HelperStops, Installation!disk
<1>3. HelperBegan'
  <2>1. PICK e : e = [helper.record EXCEPT !.target = product, !.stage = "stopping_agent"]
    OBVIOUS
  <2>2. PICK pc \in {"stopped", "failed"} :
          /\ helper' = [pc |-> pc, with |-> Nil, record |-> e] /\ journal' = e
          /\ begun' = [begun EXCEPT ![e.id] = product]
    BY <2>1 DEF Installation!HelperStops, Installation!Writes
  <2>3. product \in Version \cup {Nil}
    BY Fields
  <2>4. /\ helper'.pc = pc /\ helper'.record = e /\ e.id = helper.record.id /\ e.target = product
        /\ e.status = helper.record.status
        /\ DOMAIN begun' = DOMAIN begun /\ (e.id \in DOMAIN begun => begun'[e.id] = product)
    BY ONLY InstallTyped, StopsRecord, <2>1, <2>2, <2>3
  <2>5. helper.pc = "waiting"
    BY DEF Installation!HelperStops, Installation!HelperAt
  <2> QED BY <2>2, <2>4, <2>5 DEF HelperBegan
<1>4. HelperAsked'
  BY Fields DEF InstallationInstance, HelperAsked, HelperState, MsiState,
       Installation!HelperStops, Installation!HelperAt, Installation!Updates,
       Installation!Writes, Installation!disk
<1>5. HelperProven'
  BY Fields DEF InstallationInstance, HelperProven, HelperState, Installation!HelperStops,
       Installation!HelperAt, Installation!Updates, Installation!Writes, Installation!disk
<1>6. JournalProven'
  BY Fields DEF InstallationInstance, JournalProven, HelperBegan, HelperProven, HelperState,
       Proven, Installation!HelperStops, Installation!HelperAt, Installation!Updates,
       Installation!Writes, Installation!disk
<1> QED BY <1>2, <1>3, <1>4, <1>5, <1>6

\* The helper's request is refused, or taken by an idle installer.
LEMMA HelperRequests ==
  ASSUME InstallationInstance, InstallTyped, Installation!HelperRuns
  PROVE  /\ UNCHANGED <<tree, marker, product, guard, mutex, proc>>
         /\ helper'.record.target = helper.record.target
         /\ \/ helper'.pc = "failed" /\ UNCHANGED msi
            \/ /\ helper'.pc = "running_msi" /\ msi.pc = "idle" /\ msi'.pc = "asked"
               /\ msi'.asker = "helper" /\ msi'.target = helper.record.target
<1>1. UNCHANGED <<tree, marker, product, guard, mutex, proc>>
  BY DEF Installation!HelperRuns, Installation!disk
<1>2. \/ Installation!Stage("running_msi", "failed", Nil) /\ UNCHANGED msi
      \/ /\ Installation!Stage("running_msi", "running_msi", Nil)
         /\ msi.pc = "idle" /\ helper.record.target # Nil
         /\ \E k \in {"major_upgrade", "uninstall"} :
              msi' = Installation!NewMsi(k, helper.record.target, "helper")
  BY DEF Installation!HelperRuns, Installation!Target, Installation!MsiAt
<1>3. ASSUME NEW pc \in {"running_msi", "failed"}, Installation!Stage("running_msi", pc, Nil)
      PROVE  helper'.pc = pc /\ helper'.record.target = helper.record.target
  BY <1>3, Fields, StageWritten DEF HelperState
<1>4. helper.record.target # Nil => helper.record.target \in Version
  BY Fields
<1>5. ASSUME NEW k \in {"major_upgrade", "uninstall"}, helper.record.target \in Version,
             msi' = Installation!NewMsi(k, helper.record.target, "helper")
      PROVE  /\ msi'.pc = "asked" /\ msi'.asker = "helper" /\ msi'.target = helper.record.target
  BY <1>5, Fields, MsiSteps
<1> QED BY <1>1, <1>2, <1>3, <1>4, <1>5

LEMMA ReceiptHelperRuns ==
  ASSUME InstallationInstance, InstallTyped, ReceiptSound,
         Installation!HelperRuns
  PROVE  ReceiptSound'
<1> USE DEF ReceiptSound
<1>1. ReadProven'
  BY DEF ReadProven, Installation!HelperRuns, Installation!disk, Installation!history
<1>2. HelperBegan'
  BY Fields, StageWritten DEF InstallationInstance, HelperBegan, HelperState,
       Installation!HelperRuns, Installation!HelperAt, Installation!Updates, Installation!MsiAt,
       Installation!Target, Installation!disk, Installation!history
<1>3. HelperAsked'
  BY HelperRequests DEF HelperAsked
<1>4. HelperProven'
  BY Fields, StageWritten DEF InstallationInstance, HelperProven, HelperState,
       Installation!HelperRuns, Installation!HelperAt, Installation!Updates, Installation!MsiAt,
       Installation!Target, Installation!disk, Installation!history
<1>5. JournalProven'
  BY Fields, StageWritten DEF InstallationInstance, JournalProven, HelperBegan, HelperProven,
       HelperState, Proven, Installation!HelperRuns, Installation!HelperAt, Installation!Updates,
       Installation!MsiAt, Installation!Target, Installation!disk, Installation!history
<1> QED BY <1>1, <1>2, <1>3, <1>4, <1>5

LEMMA ReceiptHelperTimesOut ==
  ASSUME InstallationInstance, InstallTyped, ReceiptSound,
         Installation!HelperTimesOut
  PROVE  ReceiptSound'
<1> USE DEF ReceiptSound
<1>1. JournalProven' /\ ReadProven'
  BY DEF JournalProven, ReadProven, Installation!HelperTimesOut, Installation!disk,
       Installation!books, Installation!history
<1>2. HelperBegan'
  BY Fields, HelperGoesOn DEF InstallationInstance, HelperBegan, HelperState,
       Installation!HelperTimesOut, Installation!HelperAt, Installation!disk, Installation!books,
       Installation!history
<1>3. HelperAsked'
  BY Fields, HelperGoesOn DEF InstallationInstance, HelperAsked, HelperState, MsiState,
       Installation!HelperTimesOut, Installation!HelperAt, Installation!disk, Installation!books,
       Installation!history
<1>4. HelperProven'
  BY Fields, HelperGoesOn DEF InstallationInstance, HelperProven, HelperState,
       Installation!HelperTimesOut, Installation!HelperAt, Installation!disk, Installation!books,
       Installation!history
<1> QED BY <1>1, <1>2, <1>3, <1>4

LEMMA ReceiptHelperLearns ==
  ASSUME InstallationInstance, InstallTyped, ReceiptSound,
         Installation!HelperLearns
  PROVE  ReceiptSound'
<1> USE DEF ReceiptSound
<1>1. ReadProven'
  BY DEF ReadProven, Installation!HelperLearns, Installation!disk, Installation!history
<1>2. HelperBegan'
  BY Fields, StageWritten DEF InstallationInstance, HelperBegan, HelperState,
       Installation!HelperLearns, Installation!HelperAt, Installation!Updates, Installation!disk,
       Installation!history
<1>3. HelperAsked'
  BY Fields, StageWritten DEF InstallationInstance, HelperAsked, HelperState, MsiState,
       Installation!HelperLearns, Installation!HelperAt, Installation!Updates, Installation!disk,
       Installation!history
<1>4. HelperProven'
  BY Fields, StageWritten DEF InstallationInstance, HelperProven, HelperState,
       Installation!HelperLearns, Installation!HelperAt, Installation!Updates, Installation!disk,
       Installation!history
<1>5. JournalProven'
  BY Fields, StageWritten DEF InstallationInstance, JournalProven, HelperBegan, HelperProven,
       HelperState, Proven, Installation!HelperLearns, Installation!HelperAt,
       Installation!Updates, Installation!disk, Installation!history
<1> QED BY <1>1, <1>2, <1>3, <1>4, <1>5

LEMMA ReceiptHelperChecks ==
  ASSUME InstallationInstance, InstallTyped, ReceiptSound,
         Installation!HelperChecks
  PROVE  ReceiptSound'
<1> USE DEF ReceiptSound
<1>1. ReadProven'
  BY DEF ReadProven, Installation!HelperChecks, Installation!disk, Installation!history
<1>2. HelperBegan'
  BY Fields, StageWritten, HelperGoesOn DEF InstallationInstance, HelperBegan, HelperState,
       Installation!HelperChecks, Installation!HelperAt, Installation!Target, Installation!Whole,
       Installation!disk, Installation!history
<1>3. HelperAsked'
  BY Fields, StageWritten, HelperGoesOn DEF InstallationInstance, HelperAsked, HelperState,
       MsiState, Installation!HelperChecks, Installation!HelperAt, Installation!Target,
       Installation!Whole, Installation!disk, Installation!history
<1>4. HelperProven'
  BY Fields, StageWritten, HelperGoesOn DEF InstallationInstance, HelperProven, HelperState,
       Installation!HelperChecks, Installation!HelperAt, Installation!Target, Installation!Whole,
       Installation!disk, Installation!history
<1>5. JournalProven'
  BY Fields, StageWritten DEF InstallationInstance, JournalProven, HelperBegan, HelperProven,
       HelperState, Proven, Installation!HelperChecks, Installation!HelperAt,
       Installation!Target, Installation!Whole, Installation!disk, Installation!history
<1> QED BY <1>1, <1>2, <1>3, <1>4, <1>5

LEMMA ReceiptHelperMeets ==
  ASSUME InstallationInstance, InstallTyped, ReceiptSound,
         Installation!HelperMeets
  PROVE  ReceiptSound'
<1> USE DEF ReceiptSound
<1>1. Quiet
  BY QuietActions
<1>2. ReadProven'
  BY <1>1, ReadsStand DEF Installation!HelperMeets, Installation!disk, Installation!history
<1>3. HelperBegan'
  BY Fields, StageWritten, HelperGoesOn, HelperWaits DEF InstallationInstance, HelperBegan,
       HelperState, Installation!HelperMeets, Installation!HelperAt, Installation!Up,
       Installation!Target, Installation!Idle, Installation!disk, Installation!history
<1>4. HelperAsked'
  BY Fields, StageWritten, HelperGoesOn, HelperWaits DEF InstallationInstance, HelperAsked,
       HelperState, MsiState, Installation!HelperMeets, Installation!HelperAt, Installation!Up,
       Installation!Target, Installation!Idle, Installation!disk, Installation!history
<1>5. HelperProven'
  BY Fields, StageWritten, HelperGoesOn, HelperWaits DEF InstallationInstance, HelperProven,
       HelperState, Installation!HelperMeets, Installation!HelperAt, Installation!Up,
       Installation!Target, Installation!Idle, Installation!disk, Installation!history
<1>6. JournalProven'
  BY Fields, StageWritten DEF InstallationInstance, JournalProven, HelperBegan, HelperProven,
       HelperState, Proven, Installation!HelperMeets, Installation!HelperAt, Installation!Up,
       Installation!Target, Installation!Idle, Installation!disk, Installation!history
<1> QED BY <1>2, <1>3, <1>4, <1>5, <1>6

LEMMA ReceiptHelperAwaits ==
  ASSUME InstallationInstance, InstallTyped, ReceiptSound,
         Installation!HelperAwaits
  PROVE  ReceiptSound'
<1> USE DEF ReceiptSound
<1>1. ReadProven'
  BY DEF ReadProven, Installation!HelperAwaits, Installation!disk, Installation!history
<1>2. HelperBegan'
  BY Fields, StageWritten, HelperGoesOn DEF InstallationInstance, HelperBegan, HelperState,
       Installation!HelperAwaits, Installation!HelperAt, Installation!Up, Installation!Idle,
       Installation!disk, Installation!history
<1>3. HelperAsked'
  BY Fields, StageWritten, HelperGoesOn DEF InstallationInstance, HelperAsked, HelperState,
       MsiState, Installation!HelperAwaits, Installation!HelperAt, Installation!Up,
       Installation!Idle, Installation!disk, Installation!history
<1>4. HelperProven'
  BY Fields, StageWritten, HelperGoesOn DEF InstallationInstance, HelperProven, HelperState,
       Installation!HelperAwaits, Installation!HelperAt, Installation!Up, Installation!Idle,
       Installation!disk, Installation!history
<1>5. JournalProven'
  BY Fields, StageWritten DEF InstallationInstance, JournalProven, HelperBegan, HelperProven,
       HelperState, Proven, Installation!HelperAwaits, Installation!HelperAt, Installation!Up,
       Installation!Idle, Installation!disk, Installation!history
<1> QED BY <1>1, <1>2, <1>3, <1>4, <1>5

LEMMA ReceiptHelperCompletes ==
  ASSUME InstallationInstance, InstallTyped, ReceiptSound,
         Installation!HelperCompletes
  PROVE  ReceiptSound'
<1> USE DEF ReceiptSound
<1>1. ReadProven'
  BY DEF ReadProven, Installation!HelperCompletes, Installation!disk, Installation!history
<1>2. HelperBegan'
  BY Fields, Settled DEF InstallationInstance, HelperBegan, HelperState,
       Installation!HelperCompletes, Installation!HelperAt, Installation!Updates,
       Installation!disk, Installation!history
<1>3. HelperAsked'
  BY Fields, Settled DEF InstallationInstance, HelperAsked, HelperState, MsiState,
       Installation!HelperCompletes, Installation!HelperAt, Installation!Updates,
       Installation!disk, Installation!history
<1>4. HelperProven'
  BY Fields, Settled DEF InstallationInstance, HelperProven, HelperState,
       Installation!HelperCompletes, Installation!HelperAt, Installation!Updates,
       Installation!disk, Installation!history
<1>5. JournalProven'
  BY Fields, Settled DEF InstallationInstance, JournalProven, HelperBegan, HelperProven,
       HelperState, Proven, Installation!HelperCompletes, Installation!HelperAt,
       Installation!Updates, Installation!disk, Installation!history
<1> QED BY <1>1, <1>2, <1>3, <1>4, <1>5

LEMMA ReceiptHelperFails ==
  ASSUME InstallationInstance, InstallTyped, ReceiptSound,
         Installation!HelperFails
  PROVE  ReceiptSound'
<1> USE DEF ReceiptSound
<1>1. Quiet
  BY QuietActions
<1>2. ReadProven'
  BY <1>1, ReadsStand DEF Installation!HelperFails, Installation!disk, Installation!history
<1>3. HelperBegan'
  BY Fields, Settled DEF InstallationInstance, HelperBegan, HelperState,
       Installation!HelperFails, Installation!HelperAt, Installation!Updates,
       Installation!RestartSurviving, Installation!Whole, Installation!Up, Installation!disk,
       Installation!history
<1>4. HelperAsked'
  BY Fields, Settled DEF InstallationInstance, HelperAsked, HelperState, MsiState,
       Installation!HelperFails, Installation!HelperAt, Installation!Updates,
       Installation!RestartSurviving, Installation!Whole, Installation!Up, Installation!disk,
       Installation!history
<1>5. HelperProven'
  BY Fields, Settled DEF InstallationInstance, HelperProven, HelperState,
       Installation!HelperFails, Installation!HelperAt, Installation!Updates,
       Installation!RestartSurviving, Installation!Whole, Installation!Up, Installation!disk,
       Installation!history
<1>6. JournalProven'
  BY Fields, Settled DEF InstallationInstance, JournalProven, HelperBegan, HelperProven,
       HelperState, Proven, Installation!HelperFails, Installation!HelperAt,
       Installation!Updates, Installation!RestartSurviving, Installation!Whole, Installation!Up,
       Installation!disk, Installation!history
<1> QED BY <1>2, <1>3, <1>4, <1>5, <1>6

LEMMA ReceiptHelperDies ==
  ASSUME InstallationInstance, InstallTyped, ReceiptSound,
         Installation!HelperDies
  PROVE  ReceiptSound'
<1> USE DEF ReceiptSound
<1>1. JournalProven' /\ ReadProven'
  BY DEF JournalProven, ReadProven, Installation!HelperDies, Installation!disk,
       Installation!books, Installation!history
<1>2. HelperBegan'
  BY Fields, NoHelperTyped DEF InstallationInstance, HelperBegan, HelperState,
       Installation!HelperDies, Installation!HelperAt, Installation!disk, Installation!books,
       Installation!history
<1>3. HelperAsked'
  BY Fields, NoHelperTyped DEF InstallationInstance, HelperAsked, HelperState, MsiState,
       Installation!HelperDies, Installation!HelperAt, Installation!disk, Installation!books,
       Installation!history
<1>4. HelperProven'
  BY Fields, NoHelperTyped DEF InstallationInstance, HelperProven, HelperState,
       Installation!HelperDies, Installation!HelperAt, Installation!disk, Installation!books,
       Installation!history
<1> QED BY <1>1, <1>2, <1>3, <1>4

LEMMA ReceiptNext ==
  ASSUME InstallationInstance, InstallTyped, ReceiptSound,
         [Installation!Next]_(Installation!vars)
  PROVE  ReceiptSound'
<1>1. CASE UNCHANGED Installation!vars
  BY <1>1, Fields, QuietSteps, ReceiptApart DEF Installation!vars
<1>2. ASSUME NEW p \in Process,
             Installation!Open(p) \/ Installation!Exit(p) \/ Installation!Die(p)
      PROVE  ReceiptSound'
  <2>1. Quiet
    BY <1>2, Fields, QuietSteps, QuietActions
  <2>2. UNCHANGED <<helper, begun, msi, proven, journal>>
    BY <1>2 DEF Installation!Open, Installation!Exit, Installation!Die, Installation!disk,
       Installation!books, Installation!history
  <2> QED BY <2>1, <2>2, ReceiptApart
<1>3. CASE Installation!GuardAges \/ Installation!JournalAges
  <2>1. Quiet
    BY <1>3, Fields, QuietSteps, QuietActions DEF Installation!GuardAges, Installation!JournalAges
  <2>2. UNCHANGED <<helper, begun, msi, proven, journal>>
    BY <1>3 DEF Installation!GuardAges, Installation!JournalAges, Installation!disk,
       Installation!books, Installation!history
  <2> QED BY <2>1, <2>2, ReceiptApart
<1>4. ASSUME NEW p \in Process,
             Installation!Enter(p) \/ Installation!Decide(p) \/
             Installation!TerminateNonTarget(p) \/ Installation!CleanupNonTarget(p) \/
             Installation!Mark(p) \/ Installation!RecoverReads(p) \/
             Installation!RecoverWrites(p) \/ Installation!InstallUpdate(p) \/
             Installation!Uninstall(p)
      PROVE  ReceiptSound'
  BY <1>4, ReceiptEnter, ReceiptDecide, ReceiptTerminateNonTarget,
     ReceiptCleanupNonTarget, ReceiptMark, ReceiptRecoverReads, ReceiptRecoverWrites,
     ReceiptInstallUpdate, ReceiptUninstall
<1>5. CASE Installation!Setup \/ Installation!Removal \/ Installation!MsiGuards \/
           Installation!MsiStops \/ Installation!MsiRemoves \/
           Installation!MsiCopies \/ Installation!MsiCopied \/
           Installation!MsiVerifies \/ Installation!MsiAwaits \/
           Installation!MsiRegisters \/ Installation!MsiPreparesRemoval \/
           Installation!MsiErases \/ Installation!MsiCommits \/
           Installation!MsiRestores \/ Installation!MsiRevives \/
           Installation!MsiRestarts \/ Installation!HelperGuards \/
           Installation!HelperStops \/ Installation!HelperRuns \/
           Installation!HelperTimesOut \/ Installation!HelperLearns \/
           Installation!HelperChecks \/ Installation!HelperMeets \/
           Installation!HelperAwaits \/ Installation!HelperCompletes \/
           Installation!HelperFails \/ Installation!HelperDies
  BY <1>5, ReceiptSetup, ReceiptRemoval, ReceiptMsiGuards, ReceiptMsiStops,
     ReceiptMsiRemoves, ReceiptMsiCopies, ReceiptMsiCopied, ReceiptMsiVerifies,
     ReceiptMsiAwaits, ReceiptMsiRegisters, ReceiptMsiPreparesRemoval,
     ReceiptMsiErases, ReceiptMsiCommits, ReceiptMsiRestores, ReceiptMsiRevives,
     ReceiptMsiRestarts, ReceiptHelperGuards, ReceiptHelperStops, ReceiptHelperRuns,
     ReceiptHelperTimesOut, ReceiptHelperLearns, ReceiptHelperChecks,
     ReceiptHelperMeets, ReceiptHelperAwaits, ReceiptHelperCompletes,
     ReceiptHelperFails, ReceiptHelperDies
<1> QED BY <1>1, <1>2, <1>3, <1>4, <1>5 DEF Installation!Next

(* Windows Installer stays alone.                                          *)
LEMMA AloneApart ==
  ASSUME Alone, Quiet, UNCHANGED <<mutex, msi, guard, helper>>
  PROVE  Alone'
<1>1. RepairsHold' /\ NobodyRepairs'
  BY QuietRepairs, QuietNobody DEF Alone
<1> QED BY <1>1 DEF Alone, GuardStands, OnlyUpdates

LEMMA AloneEnter ==
  ASSUME InstallationInstance, "uninstall" \notin Wish, InstallTyped, Alone,
         NEW p \in Process, Installation!Enter(p)
  PROVE  Alone'
<1> USE DEF Alone
<1>1. OnlyUpdates'
  BY DEF OnlyUpdates, Installation!Enter, Installation!disk, Installation!books,
       Installation!history
<1>2. RepairsHold'
  <2>1. msi.pc # "stopping" /\ \A q \in Process : proc[q].pc \notin Installation!Repairing
    BY EnterMoves DEF RepairsHold, InstallationInstance
  <2>2. \A q \in Process \ {p} : proc'[q].pc \notin Installation!Repairing
    BY <2>1, EnterMoves DEF Others, Installation!Repairing
  <2>3. proc'[p].pc \in Installation!Repairing => mutex' = p
    BY EnterMoves DEF Onward, Installation!Repairing
  <2> QED BY <2>1, <2>2, <2>3, EnterMoves DEF RepairsHold
<1>3. GuardStands'
  BY Fields, EnterMoves DEF InstallationInstance, GuardStands, Guarded, MsiState, OnlyUpdates,
       HelperState, Installation!Transaction, Installation!Repairing, Others, Onward,
       Installation!Standing
<1>4. NobodyRepairs'
  BY Fields, EnterMoves DEF InstallationInstance, NobodyRepairs, RepairsHold, GuardStands,
       Guarded, ProcState, MsiState, Installation!Transaction, Installation!Repairing, Others,
       Onward, Installation!Standing
<1> QED BY <1>1, <1>2, <1>3, <1>4

LEMMA AloneDecide ==
  ASSUME InstallationInstance, "uninstall" \notin Wish, InstallTyped, Alone,
         NEW p \in Process, Installation!Decide(p)
  PROVE  Alone'
<1> USE DEF Alone
<1>1. GuardStands' /\ OnlyUpdates'
  BY DEF GuardStands, OnlyUpdates, Installation!Decide, Installation!disk, Installation!books,
       Installation!history
<1>2. RepairsHold'
  <2>1. /\ mutex = p /\ msi.pc # "stopping"
        /\ \A q \in Process \ {p} : proc[q].pc \notin Installation!Repairing
    BY DecideMoves DEF RepairsHold, InstallationInstance, Installation!Repairing
  <2>2. \A q \in Process \ {p} : proc'[q].pc \notin Installation!Repairing
    BY <2>1, DecideMoves DEF Others, Installation!Repairing
  <2>3. proc'[p].pc \in Installation!Repairing => mutex' = p
    BY <2>1, DecideMoves DEF Onward, Installation!Repairing
  <2> QED BY <2>1, <2>2, <2>3, DecideMoves DEF RepairsHold
<1>3. NobodyRepairs'
  BY Fields, DecideMoves DEF InstallationInstance, NobodyRepairs, RepairsHold, GuardStands,
       Guarded, ProcState, MsiState, Installation!Transaction, Installation!Repairing, Others,
       Onward
<1> QED BY <1>1, <1>2, <1>3

LEMMA AloneTerminateNonTarget ==
  ASSUME InstallationInstance, "uninstall" \notin Wish,
         InstallTyped, Alone, NEW p \in Process, Installation!TerminateNonTarget(p)
  PROVE  Alone'
<1> USE DEF Alone
<1>1. GuardStands' /\ OnlyUpdates'
  BY DEF GuardStands, OnlyUpdates, Installation!TerminateNonTarget, Installation!disk,
       Installation!books, Installation!history
<1>2. RepairsHold'
  BY ZenonT(30), Fields, TerminateMoves DEF InstallationInstance, RepairsHold, ProcState, MsiState,
       Installation!Transaction, Installation!Repairing, Others, Onward
<1>3. NobodyRepairs'
  BY Fields, TerminateMoves DEF InstallationInstance, NobodyRepairs, RepairsHold, GuardStands,
       Guarded, ProcState, MsiState, Installation!Transaction, Installation!Repairing, Others,
       Onward
<1> QED BY <1>1, <1>2, <1>3

LEMMA AloneCleanupNonTarget ==
  ASSUME InstallationInstance, "uninstall" \notin Wish,
         InstallTyped, Alone, NEW p \in Process, Installation!CleanupNonTarget(p)
  PROVE  Alone'
<1> USE DEF Alone
<1>1. GuardStands' /\ OnlyUpdates'
  BY DEF GuardStands, OnlyUpdates, Installation!CleanupNonTarget, Installation!books,
       Installation!history
<1>2. RepairsHold'
  BY ZenonT(30), Fields, CleanupMoves DEF InstallationInstance, RepairsHold, ProcState, MsiState,
       Installation!Transaction, Installation!Repairing, Others, Onward
<1>3. NobodyRepairs'
  BY Fields, CleanupMoves DEF InstallationInstance, NobodyRepairs, RepairsHold, GuardStands,
       Guarded, ProcState, MsiState, Installation!Transaction, Installation!Repairing, Others,
       Onward
<1> QED BY <1>1, <1>2, <1>3

LEMMA AloneMark ==
  ASSUME InstallationInstance, "uninstall" \notin Wish, InstallTyped, Alone,
         NEW p \in Process, Installation!Mark(p)
  PROVE  Alone'
<1> USE DEF Alone
<1>1. GuardStands' /\ OnlyUpdates'
  BY DEF GuardStands, OnlyUpdates, Installation!Mark, Installation!books, Installation!history
<1>2. RepairsHold'
  BY Fields, MarkMoves DEF InstallationInstance, RepairsHold, ProcState, MsiState,
       Installation!Transaction, Installation!Repairing, Others, Onward
<1>3. NobodyRepairs'
  BY Fields, MarkMoves DEF InstallationInstance, NobodyRepairs, RepairsHold, GuardStands,
       Guarded, ProcState, MsiState, Installation!Transaction, Installation!Repairing, Others,
       Onward
<1> QED BY <1>1, <1>2, <1>3

LEMMA AloneRecoverReads ==
  ASSUME InstallationInstance, "uninstall" \notin Wish, InstallTyped,
         Alone, NEW p \in Process, Installation!RecoverReads(p)
  PROVE  Alone'
<1> USE DEF Alone
<1>1. GuardStands' /\ OnlyUpdates'
  BY DEF GuardStands, OnlyUpdates, Installation!RecoverReads, Installation!disk,
       Installation!books, Installation!history
<1>2. RepairsHold'
  BY Fields, RecoverMoves DEF InstallationInstance, RepairsHold, ProcState, MsiState,
       Installation!Transaction, Installation!Repairing, Others, Onward
<1>3. NobodyRepairs'
  BY Fields, RecoverMoves DEF InstallationInstance, NobodyRepairs, RepairsHold, GuardStands,
       Guarded, ProcState, MsiState, Installation!Transaction, Installation!Repairing, Others,
       Onward
<1> QED BY <1>1, <1>2, <1>3

LEMMA AloneRecoverWrites ==
  ASSUME InstallationInstance, "uninstall" \notin Wish, InstallTyped,
         Alone, NEW p \in Process, Installation!RecoverWrites(p)
  PROVE  Alone'
<1> USE DEF Alone
<1>1. GuardStands' /\ OnlyUpdates'
  BY DEF GuardStands, OnlyUpdates, Installation!RecoverWrites, Installation!disk,
       Installation!history
<1>2. RepairsHold'
  BY Fields, RecoverMoves DEF InstallationInstance, RepairsHold, ProcState, MsiState,
       Installation!Transaction, Installation!Repairing, Others, Onward
<1>3. NobodyRepairs'
  BY Fields, RecoverMoves DEF InstallationInstance, NobodyRepairs, RepairsHold, GuardStands,
       Guarded, ProcState, MsiState, Installation!Transaction, Installation!Repairing, Others,
       Onward
<1> QED BY <1>1, <1>2, <1>3

LEMMA AloneDie ==
  ASSUME InstallationInstance, "uninstall" \notin Wish, InstallTyped, Alone,
         NEW p \in Process, Installation!Die(p)
  PROVE  Alone'
<1> USE DEF Alone
<1>1. Quiet
  BY QuietActions
<1>2. GuardStands' /\ NobodyRepairs' /\ OnlyUpdates'
  BY <1>1, QuietNobody DEF GuardStands, OnlyUpdates, Installation!Die, Installation!disk,
       Installation!books, Installation!history
<1>3. RepairsHold'
  <2>1. UNCHANGED msi /\ proc'[p].pc = "off" /\ \A q \in Process \ {p} : proc'[q] = proc[q]
    BY Fields, QuietSteps DEF Installation!Die
  <2>2. mutex' = IF mutex = p THEN Nil ELSE mutex
    BY DEF Installation!Die
  <2> QED BY <2>1, <2>2 DEF RepairsHold, InstallationInstance, Installation!Repairing
<1> QED BY <1>2, <1>3

LEMMA AloneInstallUpdate ==
  ASSUME InstallationInstance, "uninstall" \notin Wish, InstallTyped,
         Alone, NEW p \in Process, Installation!InstallUpdate(p)
  PROVE  Alone'
<1> USE DEF Alone
<1>1. RepairsHold' /\ GuardStands' /\ NobodyRepairs'
  BY DEF RepairsHold, GuardStands, NobodyRepairs, Installation!InstallUpdate, Installation!disk,
       Installation!Begin
<1>2. OnlyUpdates'
  <2>1. PICK v \in Version : Installation!Begin(Installation!Record(Len(begun) + 1, "update", v), "waiting", p)
    BY DEF Installation!InstallUpdate
  <2>2. PICK e : e = Installation!Record(Len(begun) + 1, "update", v)
    OBVIOUS
  <2>3. e \in Entry /\ e.action = "update"
    BY <2>2, Fields, RecordTyped
  <2>4. helper'.pc = "waiting" /\ helper'.record = e
    BY <2>1, <2>2, <2>3, Fields, Begins
  <2> QED BY <2>3, <2>4 DEF OnlyUpdates
<1> QED BY <1>1, <1>2

LEMMA AloneUninstall ==
  ASSUME InstallationInstance, "uninstall" \notin Wish, InstallTyped,
         Alone, NEW p \in Process, Installation!Uninstall(p)
  PROVE  Alone'
<1> USE DEF Alone
<1>1. RepairsHold' /\ GuardStands' /\ NobodyRepairs'
  BY DEF RepairsHold, GuardStands, NobodyRepairs, Installation!Uninstall, Installation!disk,
       Installation!books, Installation!history
<1>2. OnlyUpdates'
  BY Fields, RecordTyped DEF InstallationInstance, OnlyUpdates, HelperState,
       Installation!Uninstall, Installation!HelperAt, Installation!disk, Installation!books,
       Installation!history
<1> QED BY <1>1, <1>2

LEMMA AloneSetup ==
  ASSUME InstallationInstance, "uninstall" \notin Wish, InstallTyped, Alone,
         Installation!Setup
  PROVE  Alone'
<1> USE DEF Alone
<1>1. msi'.pc = "asked" /\ UNCHANGED <<proc, mutex>>
  <2>1. PICK v \in Version : msi' = Installation!NewMsi("major_upgrade", v, "user")
    BY DEF Installation!Setup
  <2> QED BY <2>1, Fields, MsiSteps DEF Installation!Setup
<1>2. OnlyUpdates'
  BY DEF OnlyUpdates, Installation!Setup, Installation!disk, Installation!books,
       Installation!history
<1>3. RepairsHold'
  BY <1>1 DEF RepairsHold
<1>4. GuardStands'
  BY Fields, MsiSteps DEF InstallationInstance, GuardStands, Guarded, MsiState, OnlyUpdates,
       HelperState, Installation!Transaction, Installation!Repairing, Installation!Setup,
       Installation!MsiAt, Installation!disk, Installation!books, Installation!history
<1>5. NobodyRepairs'
  BY <1>1 DEF NobodyRepairs, Installation!Transaction
<1> QED BY <1>2, <1>3, <1>4, <1>5

LEMMA AloneRemoval ==
  ASSUME InstallationInstance, "uninstall" \notin Wish, InstallTyped,
         Alone, Installation!Removal
  PROVE  Alone'
<1> USE DEF Alone
<1>1. OnlyUpdates'
  BY DEF OnlyUpdates, Installation!Removal, Installation!disk, Installation!books,
       Installation!history
<1>2. RepairsHold'
  BY Fields, MsiSteps DEF InstallationInstance, RepairsHold, ProcState, MsiState,
       Installation!Transaction, Installation!Repairing, Installation!Removal,
       Installation!MsiAt, Installation!disk, Installation!books, Installation!history
<1>3. GuardStands'
  BY Fields, MsiSteps DEF InstallationInstance, GuardStands, Guarded, MsiState, OnlyUpdates,
       HelperState, Installation!Transaction, Installation!Repairing, Installation!Removal,
       Installation!MsiAt, Installation!disk, Installation!books, Installation!history
<1>4. NobodyRepairs'
  <2>1. msi.pc = "idle" /\ msi'.pc = "asked" /\ UNCHANGED proc
    BY Fields, MsiSteps DEF Installation!Removal, Installation!MsiAt, Installation!disk
  <2> QED BY <2>1 DEF NobodyRepairs, Installation!Transaction
<1> QED BY <1>1, <1>2, <1>3, <1>4

LEMMA AloneMsiGuards ==
  ASSUME InstallationInstance, "uninstall" \notin Wish, InstallTyped,
         Alone, Installation!MsiGuards
  PROVE  Alone'
<1> USE DEF Alone
<1>1. RepairsHold'
  <2>1. \A q \in Process : proc[q].pc \notin Installation!Repairing
    BY DEF RepairsHold, InstallationInstance, Installation!MsiGuards
  <2>2. \A q \in Process : proc'[q].pc \notin Installation!Repairing
    BY <2>1 DEF Installation!MsiGuards
  <2>3. msi'.pc = "idle" \/ mutex' = "msi"
    BY Fields, MsiReturn DEF Installation!MsiGuards
  <2> QED BY <2>2, <2>3 DEF RepairsHold
<1>2. GuardStands'
  BY Fields, GuardTyped, MsiSteps, MsiReturn DEF InstallationInstance, GuardStands, Guarded,
       MsiState, OnlyUpdates, HelperState, Installation!Transaction, Installation!Repairing,
       Installation!MsiGuards, Installation!MsiAt, Installation!disk, Installation!books,
       Installation!history
<1>3. NobodyRepairs'
  BY Fields, MsiSteps, MsiReturn DEF InstallationInstance, NobodyRepairs, RepairsHold,
       GuardStands, Guarded, ProcState, MsiState, Installation!Transaction,
       Installation!Repairing, Installation!MsiGuards, Installation!MsiAt, Installation!disk,
       Installation!books, Installation!history
<1>4. OnlyUpdates'
  BY Fields, MsiReturn DEF InstallationInstance, OnlyUpdates, HelperState,
       Installation!MsiGuards, Installation!MsiAt, Installation!disk, Installation!books,
       Installation!history
<1> QED BY <1>1, <1>2, <1>3, <1>4

LEMMA AloneMsiStops ==
  ASSUME InstallationInstance, "uninstall" \notin Wish, InstallTyped,
         Alone, Installation!MsiStops
  PROVE  Alone'
<1> USE DEF Alone
<1>1. Quiet
  BY QuietActions
<1>2. \A q \in Process : proc'[q].pc \notin Installation!Repairing
  <2>1. mutex = "msi"
    BY DEF RepairsHold, Installation!MsiStops, Installation!MsiAt
  <2>2. \A q \in Process : proc[q].pc \notin Installation!Repairing
    BY <2>1 DEF RepairsHold, InstallationInstance
  <2> QED BY <1>1, <2>2 DEF Quiet, Installation!Repairing
<1>3. msi'.pc \in {"idle", "removing"}
  BY Fields, MsiReturn, MsiSteps DEF Installation!MsiStops, MsiState
<1>4. RepairsHold'
  BY <1>2, <1>3 DEF RepairsHold
<1>5. GuardStands'
  BY Fields, MsiSteps, MsiReturn DEF InstallationInstance, GuardStands, Guarded, MsiState,
       OnlyUpdates, HelperState, Installation!Transaction, Installation!Repairing,
       Installation!MsiStops, Installation!MsiAt, Installation!disk, Installation!books,
       Installation!history, Installation!Hurt
<1>6. NobodyRepairs'
  BY <1>2 DEF NobodyRepairs
<1>7. OnlyUpdates'
  BY Fields, MsiReturn DEF InstallationInstance, OnlyUpdates, HelperState, Installation!MsiStops,
       Installation!MsiAt, Installation!disk, Installation!books, Installation!history,
       Installation!Hurt
<1> QED BY <1>4, <1>5, <1>6, <1>7

LEMMA AloneMsiRemoves ==
  ASSUME InstallationInstance, "uninstall" \notin Wish, InstallTyped,
         Alone, Installation!MsiRemoves
  PROVE  Alone'
<1> USE DEF Alone
<1>1. OnlyUpdates'
  BY DEF OnlyUpdates, Installation!MsiRemoves, Installation!disk, Installation!books,
       Installation!history
<1>2. RepairsHold'
  BY Fields, Saves DEF InstallationInstance, RepairsHold, ProcState, MsiState,
       Installation!Transaction, Installation!Repairing, Installation!MsiRemoves,
       Installation!MsiAt, Installation!disk, Installation!books, Installation!history
<1>3. GuardStands'
  BY Fields, Saves DEF InstallationInstance, GuardStands, Guarded, MsiState, OnlyUpdates,
       HelperState, Installation!Transaction, Installation!Repairing, Installation!MsiRemoves,
       Installation!MsiAt, Installation!disk, Installation!books, Installation!history
<1>4. NobodyRepairs'
  BY Fields, Saves DEF InstallationInstance, NobodyRepairs, RepairsHold, GuardStands, Guarded,
       ProcState, MsiState, Installation!Transaction, Installation!Repairing,
       Installation!MsiRemoves, Installation!MsiAt, Installation!disk, Installation!books,
       Installation!history
<1> QED BY <1>1, <1>2, <1>3, <1>4

LEMMA AloneMsiCopies ==
  ASSUME InstallationInstance, "uninstall" \notin Wish, InstallTyped,
         Alone, Installation!MsiCopies
  PROVE  Alone'
<1> USE DEF Alone
<1>1. OnlyUpdates'
  BY DEF OnlyUpdates, Installation!MsiCopies, Installation!books, Installation!history
<1>2. RepairsHold'
  BY Fields, MsiSteps DEF InstallationInstance, RepairsHold, ProcState, MsiState,
       Installation!Transaction, Installation!Repairing, Installation!MsiCopies,
       Installation!MsiAt, Installation!books, Installation!history
<1>3. GuardStands'
  BY Fields, MsiSteps DEF InstallationInstance, GuardStands, Guarded, MsiState, OnlyUpdates,
       HelperState, Installation!Transaction, Installation!Repairing, Installation!MsiCopies,
       Installation!MsiAt, Installation!books, Installation!history
<1>4. NobodyRepairs'
  BY Fields, MsiSteps DEF InstallationInstance, NobodyRepairs, RepairsHold, GuardStands, Guarded,
       ProcState, MsiState, Installation!Transaction, Installation!Repairing,
       Installation!MsiCopies, Installation!MsiAt, Installation!books, Installation!history
<1> QED BY <1>1, <1>2, <1>3, <1>4

LEMMA AloneMsiCopied ==
  ASSUME InstallationInstance, "uninstall" \notin Wish, InstallTyped,
         Alone, Installation!MsiCopied
  PROVE  Alone'
<1> USE DEF Alone
<1>1. OnlyUpdates'
  BY DEF OnlyUpdates, Installation!MsiCopied, Installation!books, Installation!history
<1>2. RepairsHold'
  BY Fields, MsiSteps DEF InstallationInstance, RepairsHold, ProcState, MsiState,
       Installation!Transaction, Installation!Repairing, Installation!MsiCopied,
       Installation!MsiAt, Installation!books, Installation!history, Installation!Hurt
<1>3. GuardStands'
  BY Fields, MsiSteps DEF InstallationInstance, GuardStands, Guarded, MsiState, OnlyUpdates,
       HelperState, Installation!Transaction, Installation!Repairing, Installation!MsiCopied,
       Installation!MsiAt, Installation!books, Installation!history, Installation!Hurt
<1>4. NobodyRepairs'
  BY Fields, MsiSteps DEF InstallationInstance, NobodyRepairs, RepairsHold, GuardStands, Guarded,
       ProcState, MsiState, Installation!Transaction, Installation!Repairing,
       Installation!MsiCopied, Installation!MsiAt, Installation!books, Installation!history,
       Installation!Hurt
<1> QED BY <1>1, <1>2, <1>3, <1>4

LEMMA AloneMsiVerifies ==
  ASSUME InstallationInstance, "uninstall" \notin Wish, InstallTyped,
         Alone, Installation!MsiVerifies
  PROVE  Alone'
<1> USE DEF Alone
<1>1. Quiet
  BY QuietActions
<1>2. OnlyUpdates'
  BY DEF OnlyUpdates, Installation!MsiVerifies, Installation!disk, Installation!books,
       Installation!history
<1>3. RepairsHold'
  BY Fields, <1>1, MsiSteps, Candidate DEF InstallationInstance, RepairsHold, ProcState,
       MsiState, Installation!Transaction, Installation!Repairing, Quiet,
       Installation!MsiVerifies, Installation!MsiAt, Installation!Up, Installation!Whole,
       Installation!Idle, Installation!disk, Installation!books, Installation!history
<1>4. GuardStands'
  BY Fields, MsiSteps, Candidate DEF InstallationInstance, GuardStands, Guarded, MsiState,
       OnlyUpdates, HelperState, Installation!Transaction, Installation!Repairing,
       Installation!MsiVerifies, Installation!MsiAt, Installation!Up, Installation!Whole,
       Installation!Idle, Installation!disk, Installation!books, Installation!history
<1>5. NobodyRepairs'
  BY Fields, <1>1, MsiSteps, Candidate DEF InstallationInstance, NobodyRepairs, RepairsHold,
       GuardStands, Guarded, ProcState, MsiState, Installation!Transaction,
       Installation!Repairing, Quiet, Installation!MsiVerifies, Installation!MsiAt,
       Installation!Up, Installation!Whole, Installation!Idle, Installation!disk,
       Installation!books, Installation!history
<1> QED BY <1>2, <1>3, <1>4, <1>5

LEMMA AloneMsiAwaits ==
  ASSUME InstallationInstance, "uninstall" \notin Wish, InstallTyped,
         Alone, Installation!MsiAwaits
  PROVE  Alone'
<1> USE DEF Alone
<1>1. OnlyUpdates'
  BY DEF OnlyUpdates, Installation!MsiAwaits, Installation!disk, Installation!books,
       Installation!history
<1>2. RepairsHold'
  BY Fields, MsiSteps DEF InstallationInstance, RepairsHold, ProcState, MsiState,
       Installation!Transaction, Installation!Repairing, Installation!MsiAwaits,
       Installation!MsiAt, Installation!Up, Installation!Idle, Installation!disk,
       Installation!books, Installation!history, Installation!Hurt
<1>3. GuardStands'
  BY Fields, MsiSteps DEF InstallationInstance, GuardStands, Guarded, MsiState, OnlyUpdates,
       HelperState, Installation!Transaction, Installation!Repairing, Installation!MsiAwaits,
       Installation!MsiAt, Installation!Up, Installation!Idle, Installation!disk,
       Installation!books, Installation!history, Installation!Hurt
<1>4. NobodyRepairs'
  BY Fields, MsiSteps DEF InstallationInstance, NobodyRepairs, RepairsHold, GuardStands, Guarded,
       ProcState, MsiState, Installation!Transaction, Installation!Repairing,
       Installation!MsiAwaits, Installation!MsiAt, Installation!Up, Installation!Idle,
       Installation!disk, Installation!books, Installation!history, Installation!Hurt
<1> QED BY <1>1, <1>2, <1>3, <1>4

LEMMA AloneMsiRegisters ==
  ASSUME InstallationInstance, "uninstall" \notin Wish, InstallTyped,
         Alone, Installation!MsiRegisters
  PROVE  Alone'
<1> USE DEF Alone
<1>1. OnlyUpdates'
  BY DEF OnlyUpdates, Installation!MsiRegisters, Installation!books, Installation!history
<1>2. RepairsHold'
  BY Fields, MsiSteps DEF InstallationInstance, RepairsHold, ProcState, MsiState,
       Installation!Transaction, Installation!Repairing, Installation!MsiRegisters,
       Installation!MsiAt, Installation!books, Installation!history
<1>3. GuardStands'
  BY Fields, MsiSteps DEF InstallationInstance, GuardStands, Guarded, MsiState, OnlyUpdates,
       HelperState, Installation!Transaction, Installation!Repairing, Installation!MsiRegisters,
       Installation!MsiAt, Installation!books, Installation!history
<1>4. NobodyRepairs'
  BY Fields, MsiSteps DEF InstallationInstance, NobodyRepairs, RepairsHold, GuardStands, Guarded,
       ProcState, MsiState, Installation!Transaction, Installation!Repairing,
       Installation!MsiRegisters, Installation!MsiAt, Installation!books, Installation!history
<1> QED BY <1>1, <1>2, <1>3, <1>4

LEMMA AloneMsiPreparesRemoval ==
  ASSUME InstallationInstance, "uninstall" \notin Wish,
         InstallTyped, Alone, Installation!MsiPreparesRemoval
  PROVE  Alone'
<1> USE DEF Alone
<1>1. Quiet
  BY QuietActions
<1>2. OnlyUpdates'
  BY DEF OnlyUpdates, Installation!MsiPreparesRemoval, Installation!disk, Installation!books,
       Installation!history
<1>3. RepairsHold'
  BY Fields, <1>1, Saves DEF InstallationInstance, RepairsHold, ProcState, MsiState,
       Installation!Transaction, Installation!Repairing, Quiet, Installation!MsiPreparesRemoval,
       Installation!MsiAt, Installation!disk, Installation!books, Installation!history
<1>4. GuardStands'
  BY Fields, Saves DEF InstallationInstance, GuardStands, Guarded, MsiState, OnlyUpdates,
       HelperState, Installation!Transaction, Installation!Repairing,
       Installation!MsiPreparesRemoval, Installation!MsiAt, Installation!disk,
       Installation!books, Installation!history
<1>5. NobodyRepairs'
  BY Fields, <1>1, Saves DEF InstallationInstance, NobodyRepairs, RepairsHold, GuardStands,
       Guarded, ProcState, MsiState, Installation!Transaction, Installation!Repairing, Quiet,
       Installation!MsiPreparesRemoval, Installation!MsiAt, Installation!disk,
       Installation!books, Installation!history
<1> QED BY <1>2, <1>3, <1>4, <1>5

LEMMA AloneMsiErases ==
  ASSUME InstallationInstance, "uninstall" \notin Wish, InstallTyped,
         Alone, Installation!MsiErases
  PROVE  Alone'
<1> USE DEF Alone
<1>1. OnlyUpdates'
  BY DEF OnlyUpdates, Installation!MsiErases, Installation!disk, Installation!books,
       Installation!history
<1>2. RepairsHold'
  BY Fields, MsiSteps DEF InstallationInstance, RepairsHold, ProcState, MsiState,
       Installation!Transaction, Installation!Repairing, Installation!MsiErases,
       Installation!MsiAt, Installation!disk, Installation!books, Installation!history,
       Installation!Hurt
<1>3. GuardStands'
  BY Fields, MsiSteps DEF InstallationInstance, GuardStands, Guarded, MsiState, OnlyUpdates,
       HelperState, Installation!Transaction, Installation!Repairing, Installation!MsiErases,
       Installation!MsiAt, Installation!disk, Installation!books, Installation!history,
       Installation!Hurt
<1>4. NobodyRepairs'
  BY Fields, MsiSteps DEF InstallationInstance, NobodyRepairs, RepairsHold, GuardStands, Guarded,
       ProcState, MsiState, Installation!Transaction, Installation!Repairing,
       Installation!MsiErases, Installation!MsiAt, Installation!disk, Installation!books,
       Installation!history, Installation!Hurt
<1> QED BY <1>1, <1>2, <1>3, <1>4

LEMMA AloneMsiCommits ==
  ASSUME InstallationInstance, "uninstall" \notin Wish, InstallTyped,
         Alone, Installation!MsiCommits
  PROVE  Alone'
<1> USE DEF Alone
<1>1. RepairsHold'
  BY Fields, MsiReturn DEF InstallationInstance, RepairsHold, ProcState, MsiState,
       Installation!Transaction, Installation!Repairing, Installation!MsiCommits,
       Installation!MsiAt, Installation!disk, Installation!Hurt
<1>2. GuardStands'
  BY Fields, MsiReturn DEF InstallationInstance, GuardStands, Guarded, MsiState, OnlyUpdates,
       HelperState, Installation!Transaction, Installation!Repairing, Installation!MsiCommits,
       Installation!MsiAt, Installation!disk, Installation!Hurt
<1>3. NobodyRepairs'
  BY Fields, MsiReturn DEF InstallationInstance, NobodyRepairs, RepairsHold, GuardStands,
       Guarded, ProcState, MsiState, Installation!Transaction, Installation!Repairing,
       Installation!MsiCommits, Installation!MsiAt, Installation!disk, Installation!Hurt
<1>4. OnlyUpdates'
  BY Fields, MsiReturn DEF InstallationInstance, OnlyUpdates, HelperState,
       Installation!MsiCommits, Installation!MsiAt, Installation!disk, Installation!Hurt
<1> QED BY <1>1, <1>2, <1>3, <1>4

LEMMA AloneMsiRestores ==
  ASSUME InstallationInstance, "uninstall" \notin Wish, InstallTyped,
         Alone, Installation!MsiRestores
  PROVE  Alone'
<1> USE DEF Alone
<1>1. OnlyUpdates'
  BY DEF OnlyUpdates, Installation!MsiRestores, Installation!books, Installation!history
<1>2. RepairsHold'
  BY Fields, MsiSteps DEF InstallationInstance, RepairsHold, ProcState, MsiState,
       Installation!Transaction, Installation!Repairing, Installation!MsiRestores,
       Installation!MsiAt, Installation!books, Installation!history
<1>3. GuardStands'
  BY Fields, MsiSteps DEF InstallationInstance, GuardStands, Guarded, MsiState, OnlyUpdates,
       HelperState, Installation!Transaction, Installation!Repairing, Installation!MsiRestores,
       Installation!MsiAt, Installation!books, Installation!history
<1>4. NobodyRepairs'
  BY Fields, MsiSteps DEF InstallationInstance, NobodyRepairs, RepairsHold, GuardStands, Guarded,
       ProcState, MsiState, Installation!Transaction, Installation!Repairing,
       Installation!MsiRestores, Installation!MsiAt, Installation!books, Installation!history
<1> QED BY <1>1, <1>2, <1>3, <1>4

LEMMA AloneMsiRevives ==
  ASSUME InstallationInstance, "uninstall" \notin Wish, InstallTyped,
         Alone, Installation!MsiRevives
  PROVE  Alone'
<1> USE DEF Alone
<1>1. Quiet
  BY QuietActions
<1>2. OnlyUpdates'
  BY DEF OnlyUpdates, Installation!MsiRevives, Installation!disk, Installation!books,
       Installation!history
<1>3. RepairsHold'
  BY Fields, <1>1, MsiSteps DEF InstallationInstance, RepairsHold, ProcState, MsiState,
       Installation!Transaction, Installation!Repairing, Quiet, Installation!MsiRevives,
       Installation!MsiAt, Installation!disk, Installation!books, Installation!history,
       Installation!Hurt
<1>4. GuardStands'
  BY Fields, MsiSteps DEF InstallationInstance, GuardStands, Guarded, MsiState, OnlyUpdates,
       HelperState, Installation!Transaction, Installation!Repairing, Installation!MsiRevives,
       Installation!MsiAt, Installation!disk, Installation!books, Installation!history,
       Installation!Hurt
<1>5. NobodyRepairs'
  BY Fields, <1>1, MsiSteps DEF InstallationInstance, NobodyRepairs, RepairsHold, GuardStands,
       Guarded, ProcState, MsiState, Installation!Transaction, Installation!Repairing, Quiet,
       Installation!MsiRevives, Installation!MsiAt, Installation!disk, Installation!books,
       Installation!history, Installation!Hurt
<1> QED BY <1>2, <1>3, <1>4, <1>5

LEMMA AloneMsiRestarts ==
  ASSUME InstallationInstance, "uninstall" \notin Wish, InstallTyped,
         Alone, Installation!MsiRestarts
  PROVE  Alone'
<1> USE DEF Alone
<1>1. Quiet
  BY QuietActions
<1>2. RepairsHold'
  BY Fields, <1>1, MsiReturn DEF InstallationInstance, RepairsHold, ProcState, MsiState,
       Installation!Transaction, Installation!Repairing, Quiet, Installation!MsiRestarts,
       Installation!MsiAt, Installation!RestartSurviving, Installation!Whole, Installation!Up,
       Installation!disk, Installation!books, Installation!history
<1>3. GuardStands'
  BY Fields, MsiReturn DEF InstallationInstance, GuardStands, Guarded, MsiState, OnlyUpdates,
       HelperState, Installation!Transaction, Installation!Repairing, Installation!MsiRestarts,
       Installation!MsiAt, Installation!RestartSurviving, Installation!Whole, Installation!Up,
       Installation!disk, Installation!books, Installation!history
<1>4. NobodyRepairs'
  BY Fields, <1>1, MsiReturn DEF InstallationInstance, NobodyRepairs, RepairsHold, GuardStands,
       Guarded, ProcState, MsiState, Installation!Transaction, Installation!Repairing, Quiet,
       Installation!MsiRestarts, Installation!MsiAt, Installation!RestartSurviving,
       Installation!Whole, Installation!Up, Installation!disk, Installation!books,
       Installation!history
<1>5. OnlyUpdates'
  BY Fields, MsiReturn DEF InstallationInstance, OnlyUpdates, HelperState,
       Installation!MsiRestarts, Installation!MsiAt, Installation!RestartSurviving,
       Installation!Whole, Installation!Up, Installation!disk, Installation!books,
       Installation!history
<1> QED BY <1>2, <1>3, <1>4, <1>5

LEMMA AloneHelperGuards ==
  ASSUME InstallationInstance, "uninstall" \notin Wish, InstallTyped,
         Alone, Installation!HelperGuards
  PROVE  Alone'
<1> USE DEF Alone
<1>1. RepairsHold' /\ NobodyRepairs'
  BY DEF RepairsHold, NobodyRepairs, Installation!HelperGuards, Installation!disk,
       Installation!Begin
<1>2. GuardStands'
  BY Fields, GuardTyped DEF InstallationInstance, GuardStands, Guarded, MsiState, OnlyUpdates,
       HelperState, Installation!Transaction, Installation!Repairing, Installation!HelperGuards,
       Installation!HelperAt, Installation!disk
<1>3. OnlyUpdates'
  BY Fields, Begins DEF InstallationInstance, OnlyUpdates, HelperState,
       Installation!HelperGuards, Installation!HelperAt, Installation!disk
<1> QED BY <1>1, <1>2, <1>3

LEMMA AloneHelperStops ==
  ASSUME InstallationInstance, "uninstall" \notin Wish, InstallTyped,
         Alone, Installation!HelperStops
  PROVE  Alone'
<1> USE DEF Alone
<1>1. Quiet
  BY QuietActions
<1>2. RepairsHold' /\ GuardStands' /\ NobodyRepairs'
  BY <1>1, QuietRepairs, QuietNobody DEF GuardStands, Installation!HelperStops, Installation!disk
<1>3. OnlyUpdates'
  BY Fields DEF InstallationInstance, OnlyUpdates, HelperState, Installation!HelperStops,
       Installation!HelperAt, Installation!Updates, Installation!Writes, Installation!disk,
       Installation!Hurt
<1> QED BY <1>2, <1>3

LEMMA AloneHelperRuns ==
  ASSUME InstallationInstance, "uninstall" \notin Wish, InstallTyped,
         Alone, Installation!HelperRuns
  PROVE  Alone'
<1> USE DEF Alone
<1>1. RepairsHold'
  BY Fields, HelperRequests DEF RepairsHold, MsiState
<1>2. GuardStands'
  BY HelperRequests DEF GuardStands, Guarded, Installation!Transaction
<1>3. NobodyRepairs'
  <2>1. \/ UNCHANGED msi
        \/ \E k \in {"major_upgrade", "uninstall"} :
             helper.record.target \in Version /\ msi' = Installation!NewMsi(k, helper.record.target, "helper")
    BY Fields DEF Installation!HelperRuns, Installation!Target
  <2>2. UNCHANGED proc /\ (UNCHANGED msi \/ msi'.pc = "asked")
    BY Fields, MsiSteps, <2>1 DEF Installation!HelperRuns
  <2> QED BY <2>2 DEF NobodyRepairs, Installation!Transaction
<1>4. OnlyUpdates'
  BY Fields, StageWritten DEF InstallationInstance, OnlyUpdates, HelperState,
       Installation!HelperRuns, Installation!HelperAt, Installation!Updates, Installation!MsiAt,
       Installation!Target, Installation!disk, Installation!history
<1> QED BY <1>1, <1>2, <1>3, <1>4

LEMMA AloneHelperTimesOut ==
  ASSUME InstallationInstance, "uninstall" \notin Wish,
         InstallTyped, Alone, Installation!HelperTimesOut
  PROVE  Alone'
<1> USE DEF Alone
<1>1. RepairsHold' /\ GuardStands' /\ NobodyRepairs'
  BY DEF RepairsHold, GuardStands, NobodyRepairs, Installation!HelperTimesOut, Installation!disk,
       Installation!books, Installation!history
<1>2. OnlyUpdates'
  BY Fields, HelperGoesOn DEF InstallationInstance, OnlyUpdates, HelperState,
       Installation!HelperTimesOut, Installation!HelperAt, Installation!disk, Installation!books,
       Installation!history, Installation!Hurt
<1> QED BY <1>1, <1>2

LEMMA AloneHelperLearns ==
  ASSUME InstallationInstance, "uninstall" \notin Wish, InstallTyped,
         Alone, Installation!HelperLearns
  PROVE  Alone'
<1> USE DEF Alone
<1>1. RepairsHold' /\ GuardStands' /\ NobodyRepairs'
  BY DEF RepairsHold, GuardStands, NobodyRepairs, Installation!HelperLearns, Installation!disk,
       Installation!history
<1>2. OnlyUpdates'
  BY Fields, StageWritten DEF InstallationInstance, OnlyUpdates, HelperState,
       Installation!HelperLearns, Installation!HelperAt, Installation!Updates, Installation!disk,
       Installation!history
<1> QED BY <1>1, <1>2

LEMMA AloneHelperChecks ==
  ASSUME InstallationInstance, "uninstall" \notin Wish, InstallTyped,
         Alone, Installation!HelperChecks
  PROVE  Alone'
<1> USE DEF Alone
<1>1. RepairsHold' /\ GuardStands' /\ NobodyRepairs'
  BY DEF RepairsHold, GuardStands, NobodyRepairs, Installation!HelperChecks, Installation!disk,
       Installation!history
<1>2. OnlyUpdates'
  BY Fields, StageWritten, HelperGoesOn DEF InstallationInstance, OnlyUpdates, HelperState,
       Installation!HelperChecks, Installation!HelperAt, Installation!Target, Installation!Whole,
       Installation!disk, Installation!history
<1> QED BY <1>1, <1>2

LEMMA AloneHelperMeets ==
  ASSUME InstallationInstance, "uninstall" \notin Wish, InstallTyped,
         Alone, Installation!HelperMeets
  PROVE  Alone'
<1> USE DEF Alone
<1>1. Quiet
  BY QuietActions
<1>2. RepairsHold' /\ GuardStands' /\ NobodyRepairs'
  BY <1>1, QuietRepairs, QuietNobody DEF GuardStands, Installation!HelperMeets,
       Installation!disk, Installation!history
<1>3. OnlyUpdates'
  BY Fields, StageWritten, HelperGoesOn, HelperWaits DEF InstallationInstance, OnlyUpdates,
       HelperState, Installation!HelperMeets, Installation!HelperAt, Installation!Up,
       Installation!Target, Installation!Idle, Installation!disk, Installation!history
<1> QED BY <1>2, <1>3

LEMMA AloneHelperAwaits ==
  ASSUME InstallationInstance, "uninstall" \notin Wish, InstallTyped,
         Alone, Installation!HelperAwaits
  PROVE  Alone'
<1> USE DEF Alone
<1>1. RepairsHold' /\ GuardStands' /\ NobodyRepairs'
  BY DEF RepairsHold, GuardStands, NobodyRepairs, Installation!HelperAwaits, Installation!disk,
       Installation!history
<1>2. OnlyUpdates'
  BY Fields, StageWritten, HelperGoesOn DEF InstallationInstance, OnlyUpdates, HelperState,
       Installation!HelperAwaits, Installation!HelperAt, Installation!Up, Installation!Idle,
       Installation!disk, Installation!history
<1> QED BY <1>1, <1>2

LEMMA AloneHelperCompletes ==
  ASSUME InstallationInstance, "uninstall" \notin Wish,
         InstallTyped, Alone, Installation!HelperCompletes
  PROVE  Alone'
<1> USE DEF Alone
<1>1. RepairsHold' /\ NobodyRepairs'
  BY DEF RepairsHold, NobodyRepairs, Installation!HelperCompletes, Installation!disk,
       Installation!history
<1>2. GuardStands'
  BY Fields, Settled DEF InstallationInstance, GuardStands, Guarded, MsiState, OnlyUpdates,
       HelperState, Installation!Transaction, Installation!Repairing,
       Installation!HelperCompletes, Installation!HelperAt, Installation!Updates,
       Installation!disk, Installation!history
<1>3. OnlyUpdates'
  BY Fields, Settled DEF InstallationInstance, OnlyUpdates, HelperState,
       Installation!HelperCompletes, Installation!HelperAt, Installation!Updates,
       Installation!disk, Installation!history
<1> QED BY <1>1, <1>2, <1>3

LEMMA AloneHelperFails ==
  ASSUME InstallationInstance, "uninstall" \notin Wish, InstallTyped,
         Alone, Installation!HelperFails
  PROVE  Alone'
<1> USE DEF Alone
<1>1. Quiet
  BY QuietActions
<1>2. RepairsHold' /\ NobodyRepairs'
  BY <1>1, QuietRepairs, QuietNobody DEF Installation!HelperFails, Installation!disk,
       Installation!history
<1>3. GuardStands'
  BY Fields, Settled DEF InstallationInstance, GuardStands, Guarded, MsiState, OnlyUpdates,
       HelperState, Installation!Transaction, Installation!Repairing, Installation!HelperFails,
       Installation!HelperAt, Installation!Updates, Installation!RestartSurviving,
       Installation!Whole, Installation!Up, Installation!disk, Installation!history
<1>4. OnlyUpdates'
  BY Fields, Settled DEF InstallationInstance, OnlyUpdates, HelperState,
       Installation!HelperFails, Installation!HelperAt, Installation!Updates,
       Installation!RestartSurviving, Installation!Whole, Installation!Up, Installation!disk,
       Installation!history
<1> QED BY <1>2, <1>3, <1>4

LEMMA AloneHelperDies ==
  ASSUME InstallationInstance, "uninstall" \notin Wish, InstallTyped,
         Alone, Installation!HelperDies
  PROVE  Alone'
<1> USE DEF Alone
<1>1. RepairsHold' /\ GuardStands' /\ NobodyRepairs'
  BY DEF RepairsHold, GuardStands, NobodyRepairs, Installation!HelperDies, Installation!disk,
       Installation!books, Installation!history
<1>2. OnlyUpdates'
  BY Fields, NoHelperTyped DEF InstallationInstance, OnlyUpdates, HelperState,
       Installation!HelperDies, Installation!HelperAt, Installation!disk, Installation!books,
       Installation!history, Installation!Hurt
<1> QED BY <1>1, <1>2

LEMMA AloneGuardAges ==
  ASSUME InstallationInstance, "uninstall" \notin Wish, InstallTyped,
         Alone, Installation!GuardAges
  PROVE  Alone'
<1> USE DEF Alone
<1>1. RepairsHold' /\ NobodyRepairs' /\ OnlyUpdates'
  BY DEF RepairsHold, NobodyRepairs, OnlyUpdates, Installation!GuardAges, Installation!disk,
       Installation!books, Installation!history
<1>2. GuardStands'
  BY Fields, GuardsAge DEF InstallationInstance, GuardStands, Guarded, MsiState, OnlyUpdates,
       HelperState, Installation!Transaction, Installation!Repairing, Installation!GuardAges,
       Installation!disk, Installation!books, Installation!history
<1> QED BY <1>1, <1>2

LEMMA AloneNext ==
  ASSUME InstallationInstance, "uninstall" \notin Wish, InstallTyped, Alone,
         [Installation!Next]_(Installation!vars)
  PROVE  Alone'
<1>1. CASE UNCHANGED Installation!vars
  BY <1>1, Fields, QuietSteps, AloneApart DEF Installation!vars
<1>2. ASSUME NEW p \in Process,
             Installation!Open(p) \/ Installation!Exit(p)
      PROVE  Alone'
  <2>1. Quiet
    BY <1>2, Fields, QuietSteps, QuietActions
  <2>2. UNCHANGED <<mutex, msi, guard, helper>>
    BY <1>2 DEF Installation!Open, Installation!Exit, Installation!disk, Installation!books,
       Installation!history
  <2> QED BY <2>1, <2>2, AloneApart
<1>3. CASE Installation!JournalAges
  <2>1. Quiet
    BY <1>3, Fields, QuietSteps, QuietActions DEF Installation!JournalAges
  <2>2. UNCHANGED <<mutex, msi, guard, helper>>
    BY <1>3 DEF Installation!JournalAges, Installation!disk, Installation!history
  <2> QED BY <2>1, <2>2, AloneApart
<1>4. ASSUME NEW p \in Process,
             Installation!Enter(p) \/ Installation!Decide(p) \/
             Installation!TerminateNonTarget(p) \/ Installation!CleanupNonTarget(p) \/
             Installation!Mark(p) \/ Installation!RecoverReads(p) \/
             Installation!RecoverWrites(p) \/ Installation!Die(p) \/
             Installation!InstallUpdate(p) \/ Installation!Uninstall(p)
      PROVE  Alone'
  BY <1>4, AloneEnter, AloneDecide, AloneTerminateNonTarget, AloneCleanupNonTarget,
     AloneMark, AloneRecoverReads, AloneRecoverWrites, AloneDie, AloneInstallUpdate,
     AloneUninstall
<1>5. CASE Installation!Setup \/ Installation!Removal \/ Installation!MsiGuards \/
           Installation!MsiStops \/ Installation!MsiRemoves \/
           Installation!MsiCopies \/ Installation!MsiCopied \/
           Installation!MsiVerifies \/ Installation!MsiAwaits \/
           Installation!MsiRegisters \/ Installation!MsiPreparesRemoval \/
           Installation!MsiErases \/ Installation!MsiCommits \/
           Installation!MsiRestores \/ Installation!MsiRevives \/
           Installation!MsiRestarts \/ Installation!HelperGuards \/
           Installation!HelperStops \/ Installation!HelperRuns \/
           Installation!HelperTimesOut \/ Installation!HelperLearns \/
           Installation!HelperChecks \/ Installation!HelperMeets \/
           Installation!HelperAwaits \/ Installation!HelperCompletes \/
           Installation!HelperFails \/ Installation!HelperDies \/ Installation!GuardAges
  BY <1>5, AloneSetup, AloneRemoval, AloneMsiGuards, AloneMsiStops, AloneMsiRemoves,
     AloneMsiCopies, AloneMsiCopied, AloneMsiVerifies, AloneMsiAwaits,
     AloneMsiRegisters, AloneMsiPreparesRemoval, AloneMsiErases, AloneMsiCommits,
     AloneMsiRestores, AloneMsiRevives, AloneMsiRestarts, AloneHelperGuards,
     AloneHelperStops, AloneHelperRuns, AloneHelperTimesOut, AloneHelperLearns,
     AloneHelperChecks, AloneHelperMeets, AloneHelperAwaits, AloneHelperCompletes,
     AloneHelperFails, AloneHelperDies, AloneGuardAges
<1> QED BY <1>1, <1>2, <1>3, <1>4, <1>5 DEF Installation!Next

(* What is registered stays whole.                                         *)
LEMMA WholeApart ==
  ASSUME WholeSound, Quiet, UNCHANGED <<product, tree, msi>>
  PROVE  WholeSound'
<1>1. ChosenFit'
  BY QuietChosen DEF WholeSound
<1> QED BY <1>1 DEF WholeSound, ProductWhole, SavedWhole, TargetWhole, Installation!Whole

LEMMA WholeEnter ==
  ASSUME InstallationInstance, "uninstall" \notin Wish, InstallTyped, Alone,
         WholeSound, NEW p \in Process, Installation!Enter(p)
  PROVE  WholeSound'
<1> USE DEF Alone, WholeSound
<1>1. ProductWhole' /\ SavedWhole' /\ TargetWhole'
  BY DEF ProductWhole, SavedWhole, TargetWhole, Installation!Enter, Installation!disk,
       Installation!books, Installation!history, Installation!Whole
<1>2. ChosenFit'
  BY ZenonT(30), Fields, EnterMoves DEF InstallationInstance, ChosenFit, ProductWhole, NobodyRepairs, Chosen,
       Changing, ProcState, Installation!Whole, Installation!Transaction, Installation!Repairing,
       Others, Onward, Installation!Standing
<1> QED BY <1>1, <1>2

LEMMA WholeDecide ==
  ASSUME InstallationInstance, "uninstall" \notin Wish, InstallTyped, Alone,
         WholeSound, NEW p \in Process, Installation!Decide(p)
  PROVE  WholeSound'
<1> USE DEF Alone, WholeSound
<1>1. ProductWhole' /\ SavedWhole' /\ TargetWhole'
  BY DEF ProductWhole, SavedWhole, TargetWhole, Installation!Decide, Installation!disk,
       Installation!books, Installation!history, Installation!Whole
<1>2. ChosenFit'
  <2>1. ASSUME Onward(p, "ending others") PROVE product \in {Nil, proc'[p].version}
    <3>1. msi.pc \notin Changing
      BY DecideMoves DEF NobodyRepairs, Changing, Installation!Transaction, Installation!Repairing
    <3>2. product # Nil => Installation!Whole(product)
      BY <3>1 DEF ProductWhole
    <3>3. Installation!AuthoritativeVersion(proc[p].version) = proc[p].version
      BY <2>1, DecideMoves DEF Onward
    <3> QED BY <2>1, <3>2, <3>3 DEF Onward, Installation!AuthoritativeVersion
  <2>2. UNCHANGED product /\ Others(p)
    BY DecideMoves
  <2>3. proc'[p].pc \in Chosen => Onward(p, "ending others")
    BY DecideMoves DEF Chosen
  <2> QED BY <2>1, <2>2, <2>3 DEF ChosenFit, Others, Chosen
<1> QED BY <1>1, <1>2

LEMMA WholeTerminateNonTarget ==
  ASSUME InstallationInstance, "uninstall" \notin Wish,
         InstallTyped, Alone, WholeSound, NEW p \in Process, Installation!TerminateNonTarget(p)
  PROVE  WholeSound'
<1> USE DEF Alone, WholeSound
<1>1. ProductWhole' /\ SavedWhole' /\ TargetWhole'
  BY DEF ProductWhole, SavedWhole, TargetWhole, Installation!TerminateNonTarget,
       Installation!disk, Installation!books, Installation!history, Installation!Whole
<1>2. ChosenFit'
  <2>1. proc'[p].pc \in Chosen => proc'[p].version = proc[p].version /\ proc[p].pc \in Chosen
    BY TerminateMoves DEF Onward, Chosen
  <2> QED BY <2>1, TerminateMoves DEF ChosenFit, Others, Chosen
<1> QED BY <1>1, <1>2

LEMMA WholeCleanupNonTarget ==
  ASSUME InstallationInstance, "uninstall" \notin Wish,
         InstallTyped, Alone, WholeSound, NEW p \in Process, Installation!CleanupNonTarget(p)
  PROVE  WholeSound'
<1> USE DEF Alone, WholeSound
<1>1. SavedWhole'
  BY DEF SavedWhole, Installation!CleanupNonTarget, Installation!books, Installation!history
<1>2. ChosenFit'
  <2>1. proc'[p].pc \in Chosen => proc'[p].version = proc[p].version /\ proc[p].pc \in Chosen
    BY CleanupMoves DEF Onward, Chosen
  <2> QED BY <2>1, CleanupMoves DEF ChosenFit, Others, Chosen
<1>3. ProductWhole'
  <2>1. product \in {Nil, proc[p].version}
    BY CleanupMoves DEF ChosenFit, Chosen
  <2>2. UNCHANGED <<product, msi>> /\ (product # Nil => tree'[product] = tree[product])
    BY <2>1, CleanupMoves
  <2> QED BY <2>2 DEF ProductWhole, Installation!Whole
<1>4. TargetWhole'
  BY Fields, CleanupMoves DEF InstallationInstance, TargetWhole, NobodyRepairs, Changing,
       MsiState, Installation!Whole, Trees, Installation!Transaction, Installation!Repairing,
       Others, Onward
<1> QED BY <1>1, <1>2, <1>3, <1>4

LEMMA WholeMark ==
  ASSUME InstallationInstance, "uninstall" \notin Wish, InstallTyped, Alone,
         WholeSound, NEW p \in Process, Installation!Mark(p)
  PROVE  WholeSound'
<1> USE DEF Alone, WholeSound
<1>1. ProductWhole' /\ SavedWhole' /\ TargetWhole'
  BY DEF ProductWhole, SavedWhole, TargetWhole, Installation!Mark, Installation!books,
       Installation!history, Installation!Whole
<1>2. ChosenFit'
  BY ZenonT(30), Fields, MarkMoves DEF InstallationInstance, ChosenFit, ProductWhole, NobodyRepairs, Chosen,
       Changing, ProcState, Installation!Whole, Installation!Transaction, Installation!Repairing,
       Others, Onward
<1> QED BY <1>1, <1>2

LEMMA WholeRecoverReads ==
  ASSUME InstallationInstance, "uninstall" \notin Wish, InstallTyped,
         Alone, WholeSound, NEW p \in Process, Installation!RecoverReads(p)
  PROVE  WholeSound'
<1> USE DEF Alone, WholeSound
<1>1. ProductWhole' /\ SavedWhole' /\ TargetWhole'
  BY DEF ProductWhole, SavedWhole, TargetWhole, Installation!RecoverReads, Installation!disk,
       Installation!books, Installation!history, Installation!Whole
<1>2. ChosenFit'
  BY ZenonT(30), Fields, RecoverMoves DEF InstallationInstance, ChosenFit, ProductWhole, NobodyRepairs,
       Chosen, Changing, ProcState, Installation!Whole, Installation!Transaction,
       Installation!Repairing, Others, Onward
<1> QED BY <1>1, <1>2

LEMMA WholeRecoverWrites ==
  ASSUME InstallationInstance, "uninstall" \notin Wish, InstallTyped,
         Alone, WholeSound, NEW p \in Process, Installation!RecoverWrites(p)
  PROVE  WholeSound'
<1> USE DEF Alone, WholeSound
<1>1. ProductWhole' /\ SavedWhole' /\ TargetWhole'
  BY DEF ProductWhole, SavedWhole, TargetWhole, Installation!RecoverWrites, Installation!disk,
       Installation!history, Installation!Whole
<1>2. ChosenFit'
  BY ZenonT(30), Fields, RecoverMoves DEF InstallationInstance, ChosenFit, ProductWhole, NobodyRepairs,
       Chosen, Changing, ProcState, Installation!Whole, Installation!Transaction,
       Installation!Repairing, Others, Onward
<1> QED BY <1>1, <1>2

LEMMA WholeSetup ==
  ASSUME InstallationInstance, "uninstall" \notin Wish, InstallTyped, Alone,
         WholeSound, Installation!Setup
  PROVE  WholeSound'
<1> USE DEF Alone, WholeSound
<1>1. msi'.pc = "asked" /\ UNCHANGED <<tree, product, guard>>
  <2>1. PICK v \in Version : msi' = Installation!NewMsi("major_upgrade", v, "user")
    BY DEF Installation!Setup, Installation!disk
  <2> QED BY <2>1, Fields, MsiSteps DEF Installation!Setup, Installation!disk
<1>2. ChosenFit'
  BY DEF ChosenFit, Installation!Setup, Installation!disk, Installation!books,
       Installation!history
<1>3. ProductWhole'
  BY Fields, MsiSteps DEF InstallationInstance, ProductWhole, ChosenFit, SavedWhole, TargetWhole,
       NobodyRepairs, Chosen, Changing, MsiState, Installation!Whole, Trees, Saved,
       Installation!Transaction, Installation!Repairing, Installation!Setup, Installation!MsiAt,
       Installation!disk, Installation!books, Installation!history
<1>4. SavedWhole'
  BY Fields, MsiSteps DEF InstallationInstance, SavedWhole, ProductWhole, Changing, MsiState,
       Installation!Whole, Installation!Transaction, Installation!Repairing, Installation!Setup,
       Installation!MsiAt, Installation!disk, Installation!books, Installation!history
<1>5. TargetWhole'
  BY Fields, MsiSteps DEF InstallationInstance, TargetWhole, NobodyRepairs, Changing, MsiState,
       Installation!Whole, Trees, Installation!Transaction, Installation!Repairing,
       Installation!Setup, Installation!MsiAt, Installation!disk, Installation!books,
       Installation!history
<1> QED BY <1>2, <1>3, <1>4, <1>5

LEMMA WholeRemoval ==
  ASSUME InstallationInstance, "uninstall" \notin Wish, InstallTyped,
         Alone, WholeSound, Installation!Removal
  PROVE  WholeSound'
<1> USE DEF Alone, WholeSound
<1>1. ChosenFit'
  BY DEF ChosenFit, Installation!Removal, Installation!disk, Installation!books,
       Installation!history
<1>2. ProductWhole'
  BY Fields, MsiSteps DEF InstallationInstance, ProductWhole, ChosenFit, SavedWhole, TargetWhole,
       NobodyRepairs, Chosen, Changing, MsiState, Installation!Whole, Trees, Saved,
       Installation!Transaction, Installation!Repairing, Installation!Removal,
       Installation!MsiAt, Installation!disk, Installation!books, Installation!history
<1>3. SavedWhole'
  BY Fields, MsiSteps DEF InstallationInstance, SavedWhole, ProductWhole, Changing, MsiState,
       Installation!Whole, Installation!Transaction, Installation!Repairing,
       Installation!Removal, Installation!MsiAt, Installation!disk, Installation!books,
       Installation!history
<1>4. TargetWhole'
  BY Fields, MsiSteps DEF InstallationInstance, TargetWhole, NobodyRepairs, Changing, MsiState,
       Installation!Whole, Trees, Installation!Transaction, Installation!Repairing,
       Installation!Removal, Installation!MsiAt, Installation!disk, Installation!books,
       Installation!history
<1> QED BY <1>1, <1>2, <1>3, <1>4

LEMMA WholeMsiGuards ==
  ASSUME InstallationInstance, "uninstall" \notin Wish, InstallTyped,
         Alone, WholeSound, Installation!MsiGuards
  PROVE  WholeSound'
<1> USE DEF Alone, WholeSound
<1>1. ChosenFit'
  BY DEF ChosenFit, Installation!MsiGuards, Installation!disk, Installation!books,
       Installation!history
<1>2. ProductWhole'
  BY Fields, MsiSteps, MsiReturn DEF InstallationInstance, ProductWhole, ChosenFit, SavedWhole,
       TargetWhole, NobodyRepairs, Chosen, Changing, MsiState, Installation!Whole, Trees, Saved,
       Installation!Transaction, Installation!Repairing, Installation!MsiGuards,
       Installation!MsiAt, Installation!disk, Installation!books, Installation!history
<1>3. SavedWhole'
  BY Fields, MsiSteps, MsiReturn DEF InstallationInstance, SavedWhole, ProductWhole, Changing,
       MsiState, Installation!Whole, Installation!Transaction, Installation!Repairing,
       Installation!MsiGuards, Installation!MsiAt, Installation!disk, Installation!books,
       Installation!history
<1>4. TargetWhole'
  BY Fields, MsiSteps, MsiReturn DEF InstallationInstance, TargetWhole, NobodyRepairs, Changing,
       MsiState, Installation!Whole, Trees, Installation!Transaction, Installation!Repairing,
       Installation!MsiGuards, Installation!MsiAt, Installation!disk, Installation!books,
       Installation!history
<1> QED BY <1>1, <1>2, <1>3, <1>4

LEMMA WholeMsiStops ==
  ASSUME InstallationInstance, "uninstall" \notin Wish, InstallTyped,
         Alone, WholeSound, Installation!MsiStops
  PROVE  WholeSound'
<1> USE DEF Alone, WholeSound
<1>1. Quiet
  BY QuietActions
<1>2. ChosenFit'
  BY <1>1, QuietChosen DEF Installation!MsiStops, Installation!disk, Installation!books,
       Installation!history
<1>3. ProductWhole'
  BY Fields, MsiSteps, MsiReturn DEF InstallationInstance, ProductWhole, ChosenFit, SavedWhole,
       TargetWhole, NobodyRepairs, Chosen, Changing, MsiState, Installation!Whole, Trees, Saved,
       Installation!Transaction, Installation!Repairing, Installation!MsiStops,
       Installation!MsiAt, Installation!disk, Installation!books, Installation!history,
       Installation!Hurt
<1>4. SavedWhole'
  BY Fields, MsiSteps, MsiReturn DEF InstallationInstance, SavedWhole, ProductWhole, Changing,
       MsiState, Installation!Whole, Installation!Transaction, Installation!Repairing,
       Installation!MsiStops, Installation!MsiAt, Installation!disk, Installation!books,
       Installation!history, Installation!Hurt
<1>5. TargetWhole'
  BY Fields, MsiSteps, MsiReturn DEF InstallationInstance, TargetWhole, NobodyRepairs, Changing,
       MsiState, Installation!Whole, Trees, Installation!Transaction, Installation!Repairing,
       Installation!MsiStops, Installation!MsiAt, Installation!disk, Installation!books,
       Installation!history, Installation!Hurt
<1> QED BY <1>2, <1>3, <1>4, <1>5

LEMMA WholeMsiRemoves ==
  ASSUME InstallationInstance, "uninstall" \notin Wish, InstallTyped,
         Alone, WholeSound, Installation!MsiRemoves
  PROVE  WholeSound'
<1> USE DEF Alone, WholeSound
<1>1. ChosenFit'
  BY Fields DEF InstallationInstance, ChosenFit, ProductWhole, NobodyRepairs, Chosen, Changing,
       ProcState, Installation!Whole, Installation!Transaction, Installation!Repairing,
       Installation!MsiRemoves, Installation!MsiAt, Installation!disk, Installation!books,
       Installation!history
<1>2. ProductWhole'
  BY Fields, Saves DEF InstallationInstance, ProductWhole, ChosenFit, SavedWhole, TargetWhole,
       NobodyRepairs, Chosen, Changing, MsiState, Installation!Whole, Trees, Saved,
       Installation!Transaction, Installation!Repairing, Installation!MsiRemoves,
       Installation!MsiAt, Installation!disk, Installation!books, Installation!history
<1>3. SavedWhole'
  BY Fields, Saves DEF InstallationInstance, SavedWhole, ProductWhole, Changing, MsiState,
       Installation!Whole, Installation!Transaction, Installation!Repairing,
       Installation!MsiRemoves, Installation!MsiAt, Installation!disk, Installation!books,
       Installation!history
<1>4. TargetWhole'
  BY Fields, Saves DEF InstallationInstance, TargetWhole, NobodyRepairs, Changing, MsiState,
       Installation!Whole, Trees, Installation!Transaction, Installation!Repairing,
       Installation!MsiRemoves, Installation!MsiAt, Installation!disk, Installation!books,
       Installation!history
<1> QED BY <1>1, <1>2, <1>3, <1>4

LEMMA WholeMsiCopies ==
  ASSUME InstallationInstance, "uninstall" \notin Wish, InstallTyped,
         Alone, WholeSound, Installation!MsiCopies
  PROVE  WholeSound'
<1> USE DEF Alone, WholeSound
<1>1. ChosenFit'
  BY DEF ChosenFit, Installation!MsiCopies, Installation!books, Installation!history
<1>2. ProductWhole'
  BY Fields, MsiSteps DEF InstallationInstance, ProductWhole, ChosenFit, SavedWhole, TargetWhole,
       NobodyRepairs, Chosen, Changing, MsiState, Installation!Whole, Trees, Saved,
       Installation!Transaction, Installation!Repairing, Installation!MsiCopies,
       Installation!MsiAt, Installation!books, Installation!history
<1>3. SavedWhole'
  BY Fields, MsiSteps DEF InstallationInstance, SavedWhole, ProductWhole, Changing, MsiState,
       Installation!Whole, Installation!Transaction, Installation!Repairing,
       Installation!MsiCopies, Installation!MsiAt, Installation!books, Installation!history
<1>4. TargetWhole'
  BY Fields, MsiSteps DEF InstallationInstance, TargetWhole, NobodyRepairs, Changing, MsiState,
       Installation!Whole, Trees, Installation!Transaction, Installation!Repairing,
       Installation!MsiCopies, Installation!MsiAt, Installation!books, Installation!history
<1> QED BY <1>1, <1>2, <1>3, <1>4

LEMMA WholeMsiCopied ==
  ASSUME InstallationInstance, "uninstall" \notin Wish, InstallTyped,
         Alone, WholeSound, Installation!MsiCopied
  PROVE  WholeSound'
<1> USE DEF Alone, WholeSound
<1>1. ChosenFit'
  BY DEF ChosenFit, Installation!MsiCopied, Installation!books, Installation!history
<1>2. ProductWhole'
  BY Fields, MsiSteps DEF InstallationInstance, ProductWhole, ChosenFit, SavedWhole, TargetWhole,
       NobodyRepairs, Chosen, Changing, MsiState, Installation!Whole, Trees, Saved,
       Installation!Transaction, Installation!Repairing, Installation!MsiCopied,
       Installation!MsiAt, Installation!books, Installation!history, Installation!Hurt
<1>3. SavedWhole'
  BY Fields, MsiSteps DEF InstallationInstance, SavedWhole, ProductWhole, Changing, MsiState,
       Installation!Whole, Installation!Transaction, Installation!Repairing,
       Installation!MsiCopied, Installation!MsiAt, Installation!books, Installation!history,
       Installation!Hurt
<1>4. TargetWhole'
  <2>1. msi.target \in Version /\ msi'.target = msi.target
    BY Fields, MsiSteps DEF Installation!MsiCopied, Installation!MsiAt, MsiState
  <2>2. CASE tree' = [tree EXCEPT ![msi.target] = "whole"]
    BY Fields, <2>1, <2>2 DEF TargetWhole, Installation!Whole, Trees, InstallationInstance
  <2>3. CASE msi'.pc = "restoring"
    BY <2>3 DEF TargetWhole
  <2> QED BY <2>2, <2>3, Fields, MsiSteps DEF Installation!MsiCopied, MsiState
<1> QED BY <1>1, <1>2, <1>3, <1>4

LEMMA WholeMsiVerifies ==
  ASSUME InstallationInstance, "uninstall" \notin Wish, InstallTyped,
         Alone, WholeSound, Installation!MsiVerifies
  PROVE  WholeSound'
<1> USE DEF Alone, WholeSound
<1>1. Quiet
  BY QuietActions
<1>2. ChosenFit'
  BY <1>1, QuietChosen DEF Installation!MsiVerifies, Installation!disk, Installation!books,
       Installation!history
<1>3. ProductWhole'
  BY Fields, MsiSteps, Candidate DEF InstallationInstance, ProductWhole, ChosenFit, SavedWhole,
       TargetWhole, NobodyRepairs, Chosen, Changing, MsiState, Installation!Whole, Trees, Saved,
       Installation!Transaction, Installation!Repairing, Installation!MsiVerifies,
       Installation!MsiAt, Installation!Up, Installation!Idle, Installation!disk,
       Installation!books, Installation!history
<1>4. SavedWhole'
  BY Fields, MsiSteps, Candidate DEF InstallationInstance, SavedWhole, ProductWhole, Changing,
       MsiState, Installation!Whole, Installation!Transaction, Installation!Repairing,
       Installation!MsiVerifies, Installation!MsiAt, Installation!Up, Installation!Idle,
       Installation!disk, Installation!books, Installation!history
<1>5. TargetWhole'
  BY Fields, MsiSteps, Candidate DEF InstallationInstance, TargetWhole, NobodyRepairs, Changing,
       MsiState, Installation!Whole, Trees, Installation!Transaction, Installation!Repairing,
       Installation!MsiVerifies, Installation!MsiAt, Installation!Up, Installation!Idle,
       Installation!disk, Installation!books, Installation!history
<1> QED BY <1>2, <1>3, <1>4, <1>5

LEMMA WholeMsiAwaits ==
  ASSUME InstallationInstance, "uninstall" \notin Wish, InstallTyped,
         Alone, WholeSound, Installation!MsiAwaits
  PROVE  WholeSound'
<1> USE DEF Alone, WholeSound
<1>1. ChosenFit'
  BY DEF ChosenFit, Installation!MsiAwaits, Installation!disk, Installation!books,
       Installation!history
<1>2. ProductWhole'
  BY Fields, MsiSteps DEF InstallationInstance, ProductWhole, ChosenFit, SavedWhole, TargetWhole,
       NobodyRepairs, Chosen, Changing, MsiState, Installation!Whole, Trees, Saved,
       Installation!Transaction, Installation!Repairing, Installation!MsiAwaits,
       Installation!MsiAt, Installation!Up, Installation!Idle, Installation!disk,
       Installation!books, Installation!history, Installation!Hurt
<1>3. SavedWhole'
  BY Fields, MsiSteps DEF InstallationInstance, SavedWhole, ProductWhole, Changing, MsiState,
       Installation!Whole, Installation!Transaction, Installation!Repairing,
       Installation!MsiAwaits, Installation!MsiAt, Installation!Up, Installation!Idle,
       Installation!disk, Installation!books, Installation!history, Installation!Hurt
<1>4. TargetWhole'
  BY Fields, MsiSteps DEF InstallationInstance, TargetWhole, NobodyRepairs, Changing, MsiState,
       Installation!Whole, Trees, Installation!Transaction, Installation!Repairing,
       Installation!MsiAwaits, Installation!MsiAt, Installation!Up, Installation!Idle,
       Installation!disk, Installation!books, Installation!history, Installation!Hurt
<1> QED BY <1>1, <1>2, <1>3, <1>4

LEMMA WholeMsiRegisters ==
  ASSUME InstallationInstance, "uninstall" \notin Wish, InstallTyped,
         Alone, WholeSound, Installation!MsiRegisters
  PROVE  WholeSound'
<1> USE DEF Alone, WholeSound
<1>1. ChosenFit'
  BY Fields DEF InstallationInstance, ChosenFit, ProductWhole, NobodyRepairs, Chosen, Changing,
       ProcState, Installation!Whole, Installation!Transaction, Installation!Repairing,
       Installation!MsiRegisters, Installation!MsiAt, Installation!books, Installation!history
<1>2. ProductWhole'
  BY Fields, MsiSteps DEF InstallationInstance, ProductWhole, ChosenFit, SavedWhole, TargetWhole,
       NobodyRepairs, Chosen, Changing, MsiState, Installation!Whole, Trees, Saved,
       Installation!Transaction, Installation!Repairing, Installation!MsiRegisters,
       Installation!MsiAt, Installation!books, Installation!history
<1>3. SavedWhole'
  BY Fields, MsiSteps DEF InstallationInstance, SavedWhole, ProductWhole, Changing, MsiState,
       Installation!Whole, Installation!Transaction, Installation!Repairing,
       Installation!MsiRegisters, Installation!MsiAt, Installation!books, Installation!history
<1>4. TargetWhole'
  BY Fields, MsiSteps DEF InstallationInstance, TargetWhole, NobodyRepairs, Changing, MsiState,
       Installation!Whole, Trees, Installation!Transaction, Installation!Repairing,
       Installation!MsiRegisters, Installation!MsiAt, Installation!books, Installation!history
<1> QED BY <1>1, <1>2, <1>3, <1>4

LEMMA WholeMsiPreparesRemoval ==
  ASSUME InstallationInstance, "uninstall" \notin Wish,
         InstallTyped, Alone, WholeSound, Installation!MsiPreparesRemoval
  PROVE  WholeSound'
<1> USE DEF Alone, WholeSound
<1>1. Quiet
  BY QuietActions
<1>2. ChosenFit'
  BY <1>1, QuietChosen DEF Installation!MsiPreparesRemoval, Installation!disk,
       Installation!books, Installation!history
<1>3. ProductWhole'
  BY Fields, Saves DEF InstallationInstance, ProductWhole, ChosenFit, SavedWhole, TargetWhole,
       NobodyRepairs, Chosen, Changing, MsiState, Installation!Whole, Trees, Saved,
       Installation!Transaction, Installation!Repairing, Installation!MsiPreparesRemoval,
       Installation!MsiAt, Installation!disk, Installation!books, Installation!history
<1>4. SavedWhole'
  BY Fields, Saves DEF InstallationInstance, SavedWhole, ProductWhole, Changing, MsiState,
       Installation!Whole, Installation!Transaction, Installation!Repairing,
       Installation!MsiPreparesRemoval, Installation!MsiAt, Installation!disk,
       Installation!books, Installation!history
<1>5. TargetWhole'
  BY Fields, Saves DEF InstallationInstance, TargetWhole, NobodyRepairs, Changing, MsiState,
       Installation!Whole, Trees, Installation!Transaction, Installation!Repairing,
       Installation!MsiPreparesRemoval, Installation!MsiAt, Installation!disk,
       Installation!books, Installation!history
<1> QED BY <1>2, <1>3, <1>4, <1>5

LEMMA WholeMsiErases ==
  ASSUME InstallationInstance, "uninstall" \notin Wish, InstallTyped,
         Alone, WholeSound, Installation!MsiErases
  PROVE  WholeSound'
<1> USE DEF Alone, WholeSound
<1>1. ChosenFit'
  BY Fields DEF InstallationInstance, ChosenFit, ProductWhole, NobodyRepairs, Chosen, Changing,
       ProcState, Installation!Whole, Installation!Transaction, Installation!Repairing,
       Installation!MsiErases, Installation!MsiAt, Installation!disk, Installation!books,
       Installation!history, Installation!Hurt
<1>2. ProductWhole'
  BY Fields, MsiSteps DEF InstallationInstance, ProductWhole, ChosenFit, SavedWhole, TargetWhole,
       NobodyRepairs, Chosen, Changing, MsiState, Installation!Whole, Trees, Saved,
       Installation!Transaction, Installation!Repairing, Installation!MsiErases,
       Installation!MsiAt, Installation!disk, Installation!books, Installation!history,
       Installation!Hurt
<1>3. SavedWhole'
  BY Fields, MsiSteps DEF InstallationInstance, SavedWhole, ProductWhole, Changing, MsiState,
       Installation!Whole, Installation!Transaction, Installation!Repairing,
       Installation!MsiErases, Installation!MsiAt, Installation!disk, Installation!books,
       Installation!history, Installation!Hurt
<1>4. TargetWhole'
  BY Fields, MsiSteps DEF InstallationInstance, TargetWhole, NobodyRepairs, Changing, MsiState,
       Installation!Whole, Trees, Installation!Transaction, Installation!Repairing,
       Installation!MsiErases, Installation!MsiAt, Installation!disk, Installation!books,
       Installation!history, Installation!Hurt
<1> QED BY <1>1, <1>2, <1>3, <1>4

LEMMA WholeMsiCommits ==
  ASSUME InstallationInstance, "uninstall" \notin Wish, InstallTyped,
         Alone, WholeSound, Installation!MsiCommits
  PROVE  WholeSound'
<1> USE DEF Alone, WholeSound
<1>1. ChosenFit'
  BY DEF ChosenFit, Installation!MsiCommits, Installation!disk
<1>2. ProductWhole'
  BY Fields, MsiReturn DEF InstallationInstance, ProductWhole, ChosenFit, SavedWhole,
       TargetWhole, NobodyRepairs, Chosen, Changing, MsiState, Installation!Whole, Trees, Saved,
       Installation!Transaction, Installation!Repairing, Installation!MsiCommits,
       Installation!MsiAt, Installation!disk, Installation!Hurt
<1>3. SavedWhole'
  BY Fields, MsiReturn DEF InstallationInstance, SavedWhole, ProductWhole, Changing, MsiState,
       Installation!Whole, Installation!Transaction, Installation!Repairing,
       Installation!MsiCommits, Installation!MsiAt, Installation!disk, Installation!Hurt
<1>4. TargetWhole'
  BY Fields, MsiReturn DEF InstallationInstance, TargetWhole, NobodyRepairs, Changing, MsiState,
       Installation!Whole, Trees, Installation!Transaction, Installation!Repairing,
       Installation!MsiCommits, Installation!MsiAt, Installation!disk, Installation!Hurt
<1> QED BY <1>1, <1>2, <1>3, <1>4

LEMMA WholeMsiRestores ==
  ASSUME InstallationInstance, "uninstall" \notin Wish, InstallTyped,
         Alone, WholeSound, Installation!MsiRestores
  PROVE  WholeSound'
<1> USE DEF Alone, WholeSound
<1>1. ChosenFit'
  BY Fields DEF InstallationInstance, ChosenFit, ProductWhole, NobodyRepairs, Chosen, Changing,
       ProcState, Installation!Whole, Installation!Transaction, Installation!Repairing,
       Installation!MsiRestores, Installation!MsiAt, Installation!books, Installation!history
<1>2. ProductWhole'
  <2>1. PICK s : s = msi.saved
    OBVIOUS
  <2>2. s \in Saved /\ (s.product # Nil => s.tree[s.product] = "whole")
    BY Fields, <2>1 DEF SavedWhole, Changing, Installation!MsiRestores, Installation!MsiAt
  <2>3. /\ tree' = [v \in Version |-> IF v \in {msi.target, s.product} THEN s.tree[v] ELSE tree[v]]
        /\ product' = s.product
    BY <2>1 DEF Installation!MsiRestores
  <2>4. s.product # Nil => s.product \in Version
    BY <2>2 DEF Saved
  <2>5. product' # Nil => tree'[product'] = "whole"
    BY <2>2, <2>3, <2>4
  <2> QED BY <2>5 DEF ProductWhole, Installation!Whole
<1>3. SavedWhole'
  BY Fields, MsiSteps DEF InstallationInstance, SavedWhole, ProductWhole, Changing, MsiState,
       Installation!Whole, Installation!Transaction, Installation!Repairing,
       Installation!MsiRestores, Installation!MsiAt, Installation!books, Installation!history
<1>4. TargetWhole'
  BY Fields, MsiSteps DEF InstallationInstance, TargetWhole, NobodyRepairs, Changing, MsiState,
       Installation!Whole, Trees, Installation!Transaction, Installation!Repairing,
       Installation!MsiRestores, Installation!MsiAt, Installation!books, Installation!history
<1> QED BY <1>1, <1>2, <1>3, <1>4

LEMMA WholeMsiRevives ==
  ASSUME InstallationInstance, "uninstall" \notin Wish, InstallTyped,
         Alone, WholeSound, Installation!MsiRevives
  PROVE  WholeSound'
<1> USE DEF Alone, WholeSound
<1>1. Quiet
  BY QuietActions
<1>2. ChosenFit'
  BY <1>1, QuietChosen DEF Installation!MsiRevives, Installation!disk, Installation!books,
       Installation!history
<1>3. ProductWhole'
  BY Fields, MsiSteps DEF InstallationInstance, ProductWhole, ChosenFit, SavedWhole, TargetWhole,
       NobodyRepairs, Chosen, Changing, MsiState, Installation!Whole, Trees, Saved,
       Installation!Transaction, Installation!Repairing, Installation!MsiRevives,
       Installation!MsiAt, Installation!disk, Installation!books, Installation!history,
       Installation!Hurt
<1>4. SavedWhole'
  BY Fields, MsiSteps DEF InstallationInstance, SavedWhole, ProductWhole, Changing, MsiState,
       Installation!Whole, Installation!Transaction, Installation!Repairing,
       Installation!MsiRevives, Installation!MsiAt, Installation!disk, Installation!books,
       Installation!history, Installation!Hurt
<1>5. TargetWhole'
  BY Fields, MsiSteps DEF InstallationInstance, TargetWhole, NobodyRepairs, Changing, MsiState,
       Installation!Whole, Trees, Installation!Transaction, Installation!Repairing,
       Installation!MsiRevives, Installation!MsiAt, Installation!disk, Installation!books,
       Installation!history, Installation!Hurt
<1> QED BY <1>2, <1>3, <1>4, <1>5

LEMMA WholeMsiRestarts ==
  ASSUME InstallationInstance, "uninstall" \notin Wish, InstallTyped,
         Alone, WholeSound, Installation!MsiRestarts
  PROVE  WholeSound'
<1> USE DEF Alone, WholeSound
<1>1. Quiet
  BY QuietActions
<1>2. ChosenFit'
  BY <1>1, QuietChosen DEF Installation!MsiRestarts, Installation!disk, Installation!books,
       Installation!history
<1>3. ProductWhole'
  BY Fields, MsiReturn DEF InstallationInstance, ProductWhole, ChosenFit, SavedWhole,
       TargetWhole, NobodyRepairs, Chosen, Changing, MsiState, Installation!Whole, Trees, Saved,
       Installation!Transaction, Installation!Repairing, Installation!MsiRestarts,
       Installation!MsiAt, Installation!RestartSurviving, Installation!Up, Installation!disk,
       Installation!books, Installation!history
<1>4. SavedWhole'
  BY Fields, MsiReturn DEF InstallationInstance, SavedWhole, ProductWhole, Changing, MsiState,
       Installation!Whole, Installation!Transaction, Installation!Repairing,
       Installation!MsiRestarts, Installation!MsiAt, Installation!RestartSurviving,
       Installation!Up, Installation!disk, Installation!books, Installation!history
<1>5. TargetWhole'
  BY Fields, MsiReturn DEF InstallationInstance, TargetWhole, NobodyRepairs, Changing, MsiState,
       Installation!Whole, Trees, Installation!Transaction, Installation!Repairing,
       Installation!MsiRestarts, Installation!MsiAt, Installation!RestartSurviving,
       Installation!Up, Installation!disk, Installation!books, Installation!history
<1> QED BY <1>2, <1>3, <1>4, <1>5

LEMMA WholeHelperRuns ==
  ASSUME InstallationInstance, "uninstall" \notin Wish, InstallTyped,
         Alone, WholeSound, Installation!HelperRuns
  PROVE  WholeSound'
<1> USE DEF Alone, WholeSound
<1>1. ChosenFit'
  BY DEF ChosenFit, Installation!HelperRuns, Installation!disk, Installation!history
<1>2. ProductWhole'
  BY Fields, MsiSteps DEF InstallationInstance, ProductWhole, ChosenFit, SavedWhole, TargetWhole,
       NobodyRepairs, Chosen, Changing, MsiState, Installation!Whole, Trees, Saved,
       Installation!Transaction, Installation!Repairing, Installation!HelperRuns,
       Installation!HelperAt, Installation!Updates, Installation!MsiAt, Installation!Target,
       Installation!disk, Installation!history
<1>3. SavedWhole'
  <2>1. \/ UNCHANGED msi
        \/ \E k \in {"major_upgrade", "uninstall"} :
             helper.record.target \in Version /\ msi' = Installation!NewMsi(k, helper.record.target, "helper")
    BY Fields DEF Installation!HelperRuns, Installation!Target
  <2>2. UNCHANGED msi \/ msi'.pc = "asked"
    BY Fields, MsiSteps, <2>1
  <2> QED BY <2>2 DEF SavedWhole, Changing
<1>4. TargetWhole'
  BY HelperRequests DEF TargetWhole, Installation!Whole
<1> QED BY <1>1, <1>2, <1>3, <1>4

LEMMA WholeNext ==
  ASSUME InstallationInstance, "uninstall" \notin Wish, InstallTyped, Alone,
         WholeSound, [Installation!Next]_(Installation!vars)
  PROVE  WholeSound'
<1>1. CASE UNCHANGED Installation!vars
  BY <1>1, Fields, QuietSteps, WholeApart DEF Installation!vars
<1>2. ASSUME NEW p \in Process,
             Installation!Open(p) \/ Installation!Exit(p) \/ Installation!Die(p) \/
             Installation!InstallUpdate(p) \/ Installation!Uninstall(p)
      PROVE  WholeSound'
  <2>1. Quiet
    BY <1>2, Fields, QuietSteps, QuietActions DEF Installation!InstallUpdate, Installation!Uninstall
  <2>2. UNCHANGED <<product, tree, msi>>
    BY <1>2 DEF Installation!Open, Installation!Exit, Installation!Die,
       Installation!InstallUpdate, Installation!Uninstall, Installation!disk, Installation!books,
       Installation!history
  <2> QED BY <2>1, <2>2, WholeApart
<1>3. CASE Installation!HelperGuards \/ Installation!HelperStops \/ Installation!HelperTimesOut \/
           Installation!HelperLearns \/ Installation!HelperChecks \/
           Installation!HelperMeets \/ Installation!HelperAwaits \/
           Installation!HelperCompletes \/ Installation!HelperFails \/
           Installation!HelperDies \/ Installation!GuardAges \/ Installation!JournalAges
  <2>1. Quiet
    BY <1>3, Fields, QuietSteps, QuietActions DEF Installation!HelperGuards, Installation!HelperTimesOut, Installation!HelperLearns,
       Installation!HelperChecks, Installation!HelperAwaits,
       Installation!HelperCompletes, Installation!HelperDies, Installation!GuardAges,
       Installation!JournalAges
  <2>2. UNCHANGED <<product, tree, msi>>
    BY <1>3 DEF Installation!HelperGuards, Installation!HelperStops, Installation!HelperTimesOut,
       Installation!HelperLearns, Installation!HelperChecks, Installation!HelperMeets,
       Installation!HelperAwaits, Installation!HelperCompletes, Installation!HelperFails,
       Installation!HelperDies, Installation!GuardAges, Installation!JournalAges,
       Installation!disk, Installation!books, Installation!history
  <2> QED BY <2>1, <2>2, WholeApart
<1>4. ASSUME NEW p \in Process,
             Installation!Enter(p) \/ Installation!Decide(p) \/
             Installation!TerminateNonTarget(p) \/ Installation!CleanupNonTarget(p) \/
             Installation!Mark(p) \/ Installation!RecoverReads(p) \/
             Installation!RecoverWrites(p)
      PROVE  WholeSound'
  BY <1>4, WholeEnter, WholeDecide, WholeTerminateNonTarget, WholeCleanupNonTarget,
     WholeMark, WholeRecoverReads, WholeRecoverWrites
<1>5. CASE Installation!Setup \/ Installation!Removal \/ Installation!MsiGuards \/
           Installation!MsiStops \/ Installation!MsiRemoves \/
           Installation!MsiCopies \/ Installation!MsiCopied \/
           Installation!MsiVerifies \/ Installation!MsiAwaits \/
           Installation!MsiRegisters \/ Installation!MsiPreparesRemoval \/
           Installation!MsiErases \/ Installation!MsiCommits \/
           Installation!MsiRestores \/ Installation!MsiRevives \/
           Installation!MsiRestarts \/ Installation!HelperRuns
  BY <1>5, WholeSetup, WholeRemoval, WholeMsiGuards, WholeMsiStops, WholeMsiRemoves,
     WholeMsiCopies, WholeMsiCopied, WholeMsiVerifies, WholeMsiAwaits,
     WholeMsiRegisters, WholeMsiPreparesRemoval, WholeMsiErases, WholeMsiCommits,
     WholeMsiRestores, WholeMsiRevives, WholeMsiRestarts, WholeHelperRuns
<1> QED BY <1>1, <1>2, <1>3, <1>4, <1>5 DEF Installation!Next

(* One version runs.                                                       *)
LEMMA OneApart ==
  ASSUME OneSound, Quiet, UNCHANGED <<guard, msi>>
  PROVE  OneSound'
<1>1. TargetRuns' /\ OneRuns'
  BY QuietTarget, QuietRuns DEF OneSound
<1> QED BY <1>1 DEF OneSound, GuardExact

LEMMA OneEnter ==
  ASSUME InstallationInstance, "uninstall" \notin Wish, "die" \notin Trouble,
         InstallTyped, Alone, OneSound, NEW p \in Process, Installation!Enter(p)
  PROVE  OneSound'
<1> USE DEF Alone, OneSound
<1>1. GuardExact'
  BY Fields, EnterMoves DEF InstallationInstance, GuardExact, Guarded, MsiState, OnlyUpdates,
       HelperState, Installation!Transaction, Installation!Repairing, Others, Onward,
       Installation!Standing
<1>2. TargetRuns'
  <2>1. CASE proc'[p].pc \notin Running
    <3>1. \A q \in Process : proc'[q].pc \in Running => proc'[q] = proc[q]
      BY <2>1, EnterMoves DEF Others, Running
    <3> QED BY <3>1, EnterMoves DEF TargetRuns
  <2>2. CASE proc'[p].pc \in Running
    <3>1. /\ guard' # Nil /\ guard'.action = "major_upgrade" /\ guard'.target = proc[p].version
          /\ proc'[p].version = proc[p].version /\ guard' = guard
      BY <2>2, EnterMoves DEF Running, Onward, Installation!Standing
    <3>2. guard.target = msi.target
      BY <3>1 DEF GuardExact
    <3>3. \A q \in Process \ {p} : proc'[q].pc \in Running => proc'[q] = proc[q]
      BY EnterMoves DEF Others, Running
    <3>4. proc'[p].version = msi.target
      BY <3>1, <3>2
    <3> QED BY <3>3, <3>4, EnterMoves DEF TargetRuns
  <2> QED BY <2>1, <2>2
<1>3. OneRuns'
  <2>1. CASE proc'[p].pc \notin Late
    BY <2>1, EarlyRuns, EnterMoves
  <2>2. CASE proc'[p].pc \in Late
    <3>1. /\ guard' # Nil /\ guard'.action = "major_upgrade" /\ guard'.target = proc[p].version
          /\ proc'[p].version = proc[p].version /\ guard' = guard
      BY <2>2, EnterMoves DEF Late, Running, Onward, Installation!Standing
    <3>2. guard.target = msi.target /\ msi.pc \in Guarded
      BY <3>1 DEF GuardExact
    <3>3. msi.pc \in Working
      BY <3>2, EnterMoves DEF RepairsHold, Guarded, Working, InstallationInstance
    <3>4. \A q \in Process : proc[q].pc \in Late => proc[q].version = msi.target
      BY <3>3 DEF TargetRuns, NobodyRepairs, Late, Running, Working, Installation!Repairing
    <3>5. \A q \in Process \ {p} : proc'[q].pc \in Late => proc'[q] = proc[q]
      BY EnterMoves DEF Others, Late, Running
    <3>6. \A q \in Process : proc'[q].pc \in Late => proc'[q].version = msi.target
      BY <3>1, <3>2, <3>4, <3>5
    <3> QED BY <3>6 DEF OneRuns, Late
  <2> QED BY <2>1, <2>2
<1> QED BY <1>1, <1>2, <1>3

LEMMA OneDecide ==
  ASSUME InstallationInstance, "uninstall" \notin Wish, "die" \notin Trouble,
         InstallTyped, Alone, OneSound, NEW p \in Process, Installation!Decide(p)
  PROVE  OneSound'
<1> USE DEF Alone, OneSound
<1>1. GuardExact'
  BY DEF GuardExact, Installation!Decide, Installation!disk, Installation!books,
       Installation!history
<1>2. TargetRuns'
  BY ZenonT(30), Fields, DecideMoves DEF InstallationInstance, TargetRuns, GuardExact, Guarded,
       NobodyRepairs, RepairsHold, Running, ProcState, MsiState, Installation!Transaction,
       Installation!Repairing, Others, Onward
<1>3. OneRuns'
  BY EarlyRuns, DecideMoves DEF Late, Running, Onward
<1> QED BY <1>1, <1>2, <1>3

LEMMA OneTerminateNonTarget ==
  ASSUME InstallationInstance, "uninstall" \notin Wish,
         "die" \notin Trouble, InstallTyped, Alone, OneSound, NEW p \in Process,
         Installation!TerminateNonTarget(p)
  PROVE  OneSound'
<1> USE DEF Alone, OneSound
<1>1. GuardExact'
  BY DEF GuardExact, Installation!TerminateNonTarget, Installation!disk, Installation!books,
       Installation!history
<1>2. TargetRuns'
  BY ZenonT(30), Fields, TerminateMoves DEF InstallationInstance, TargetRuns, GuardExact, Guarded,
       NobodyRepairs, RepairsHold, Running, ProcState, MsiState, Installation!Transaction,
       Installation!Repairing, Others, Onward
<1>3. OneRuns'
  <2>1. CASE Onward(p, "cleaning") /\ \A q \in Process : proc'[q].pc # "off" => proc'[q].version = proc[p].version
    BY <2>1 DEF OneRuns, Running
  <2>2. CASE proc'[p].pc = "off"
    BY <2>2, EarlyRuns, TerminateMoves DEF Late, Running
  <2> QED BY <2>1, <2>2, TerminateMoves
<1> QED BY <1>1, <1>2, <1>3

LEMMA OneCleanupNonTarget ==
  ASSUME InstallationInstance, "uninstall" \notin Wish,
         "die" \notin Trouble, InstallTyped, Alone, OneSound, NEW p \in Process,
         Installation!CleanupNonTarget(p)
  PROVE  OneSound'
<1> USE DEF Alone, OneSound
<1>1. GuardExact'
  BY DEF GuardExact, Installation!CleanupNonTarget, Installation!books, Installation!history
<1>2. TargetRuns'
  BY ZenonT(30), Fields, CleanupMoves DEF InstallationInstance, TargetRuns, GuardExact, Guarded,
       NobodyRepairs, RepairsHold, Running, ProcState, MsiState, Installation!Transaction,
       Installation!Repairing, Others, Onward
<1>3. OneRuns'
  <2>1. CASE Onward(p, "marking")
    BY <2>1, OnwardRuns, CleanupMoves DEF Late, Running, Onward
  <2>2. CASE proc'[p].pc = "off"
    BY <2>2, EarlyRuns, CleanupMoves DEF Late, Running
  <2> QED BY <2>1, <2>2, CleanupMoves
<1> QED BY <1>1, <1>2, <1>3

LEMMA OneMark ==
  ASSUME InstallationInstance, "uninstall" \notin Wish, "die" \notin Trouble,
         InstallTyped, Alone, OneSound, NEW p \in Process, Installation!Mark(p)
  PROVE  OneSound'
<1> USE DEF Alone, OneSound
<1>1. GuardExact'
  BY DEF GuardExact, Installation!Mark, Installation!books, Installation!history
<1>2. TargetRuns'
  BY Fields, MarkMoves DEF InstallationInstance, TargetRuns, GuardExact, Guarded, NobodyRepairs,
       RepairsHold, Running, ProcState, MsiState, Installation!Transaction,
       Installation!Repairing, Others, Onward
<1>3. OneRuns'
  <2>1. mutex = p /\ \A q \in Process \ {p} : proc[q].pc \notin Installation!Repairing
    BY MarkMoves DEF RepairsHold, Installation!Repairing
  <2>2. \A q \in Process \ {p} : proc'[q].pc \in Late => proc[q].pc \in Running /\ proc'[q] = proc[q]
    BY <2>1, MarkMoves DEF Others, Late, Running, Installation!Repairing
  <2>3. \A q \in Process : proc[q].pc \in Running => proc[p].version = proc[q].version
    BY MarkMoves DEF OneRuns
  <2>4. proc'[p].version = proc[p].version
    BY MarkMoves DEF Onward
  <2>5. \A q \in Process : proc'[q].pc \in Late => proc'[q].version = proc[p].version
    BY <2>2, <2>3, <2>4
  <2> QED BY <2>5 DEF OneRuns, Late
<1> QED BY <1>1, <1>2, <1>3

LEMMA OneRecoverReads ==
  ASSUME InstallationInstance, "uninstall" \notin Wish,
         "die" \notin Trouble, InstallTyped, Alone, OneSound, NEW p \in Process,
         Installation!RecoverReads(p)
  PROVE  OneSound'
<1> USE DEF Alone, OneSound
<1>1. GuardExact'
  BY DEF GuardExact, Installation!RecoverReads, Installation!disk, Installation!books,
       Installation!history
<1>2. TargetRuns'
  <2>1. \A q \in Process : proc'[q].pc \in Running => proc[q].pc \in Running /\ proc'[q].version = proc[q].version
    BY RecoverMoves DEF Others, Onward, Running
  <2> QED BY <2>1, RecoverMoves DEF TargetRuns
<1>3. OneRuns'
  BY OnwardRuns, RecoverMoves DEF Late, Running, Onward
<1> QED BY <1>1, <1>2, <1>3

LEMMA OneRecoverWrites ==
  ASSUME InstallationInstance, "uninstall" \notin Wish,
         "die" \notin Trouble, InstallTyped, Alone, OneSound, NEW p \in Process,
         Installation!RecoverWrites(p)
  PROVE  OneSound'
<1> USE DEF Alone, OneSound
<1>1. GuardExact'
  BY DEF GuardExact, Installation!RecoverWrites, Installation!disk, Installation!history
<1>2. TargetRuns'
  <2>1. \A q \in Process : proc'[q].pc \in Running => proc[q].pc \in Running /\ proc'[q].version = proc[q].version
    BY RecoverMoves DEF Others, Onward, Running
  <2> QED BY <2>1, RecoverMoves DEF TargetRuns
<1>3. OneRuns'
  BY OnwardRuns, RecoverMoves DEF Late, Running, Onward
<1> QED BY <1>1, <1>2, <1>3

LEMMA OneSetup ==
  ASSUME InstallationInstance, "uninstall" \notin Wish, "die" \notin Trouble,
         InstallTyped, Alone, OneSound, Installation!Setup
  PROVE  OneSound'
<1> USE DEF Alone, OneSound
<1>1. Quiet
  BY Fields, QuietSteps DEF Installation!Setup
<1>2. msi'.pc = "asked" /\ UNCHANGED <<tree, product, guard>>
  <2>1. PICK v \in Version : msi' = Installation!NewMsi("major_upgrade", v, "user")
    BY DEF Installation!Setup, Installation!disk
  <2> QED BY <2>1, Fields, MsiSteps DEF Installation!Setup, Installation!disk
<1>3. OneRuns'
  BY DEF OneRuns, Installation!Setup, Installation!disk, Installation!books, Installation!history
<1>4. GuardExact'
  BY Fields, MsiSteps DEF InstallationInstance, GuardExact, Guarded, MsiState, OnlyUpdates,
       HelperState, Installation!Transaction, Installation!Repairing, Installation!Setup,
       Installation!MsiAt, Installation!disk, Installation!books, Installation!history
<1>5. TargetRuns'
  <2>1. msi'.pc \in Working => msi.pc \in Working /\ msi'.target = msi.target
    BY Fields, <1>2 DEF Working, MsiState, Installation!Transaction, Installation!Setup
  <2> QED BY <1>1, <2>1, QuietTarget
<1> QED BY <1>3, <1>4, <1>5

LEMMA OneRemoval ==
  ASSUME InstallationInstance, "uninstall" \notin Wish, "die" \notin Trouble,
         InstallTyped, Alone, OneSound, Installation!Removal
  PROVE  OneSound'
<1> USE DEF Alone, OneSound
<1>1. Quiet
  BY Fields, QuietSteps DEF Installation!Removal
<1>2. OneRuns'
  BY DEF OneRuns, Installation!Removal, Installation!disk, Installation!books,
       Installation!history
<1>3. GuardExact'
  BY Fields, MsiSteps DEF InstallationInstance, GuardExact, Guarded, MsiState, OnlyUpdates,
       HelperState, Installation!Transaction, Installation!Repairing, Installation!Removal,
       Installation!MsiAt, Installation!disk, Installation!books, Installation!history
<1>4. TargetRuns'
  <2>1. product \in Version /\ msi' = Installation!NewMsi("uninstall", product, "user")
    BY Fields DEF Installation!Removal
  <2>2. UNCHANGED msi \/ msi'.pc = "asked"
    BY Fields, MsiSteps, <2>1
  <2>3. msi'.pc \in Working => msi.pc \in Working /\ msi'.target = msi.target
    BY <2>2 DEF Working, Installation!Transaction
  <2> QED BY <1>1, <2>3, QuietTarget
<1> QED BY <1>2, <1>3, <1>4

LEMMA OneMsiGuards ==
  ASSUME InstallationInstance, "uninstall" \notin Wish,
         "die" \notin Trouble, InstallTyped, Alone, OneSound, Installation!MsiGuards
  PROVE  OneSound'
<1> USE DEF Alone, OneSound
<1>1. Quiet
  BY Fields, QuietSteps DEF Installation!MsiGuards
<1>2. OneRuns'
  BY DEF OneRuns, Installation!MsiGuards, Installation!disk, Installation!books,
       Installation!history
<1>3. GuardExact'
  BY Fields, GuardTyped, MsiSteps, MsiReturn DEF InstallationInstance, GuardExact, Guarded,
       MsiState, OnlyUpdates, HelperState, Installation!Transaction, Installation!Repairing,
       Installation!MsiGuards, Installation!MsiAt, Installation!disk, Installation!books,
       Installation!history
<1>4. TargetRuns'
  <2>1. msi'.pc \in Working => msi.pc \in Working /\ msi'.target = msi.target
    BY Fields, MsiReturn, MsiSteps DEF Working, MsiState, Installation!Transaction, Installation!MsiGuards, Installation!MsiAt
  <2> QED BY <1>1, <2>1, QuietTarget
<1> QED BY <1>2, <1>3, <1>4

LEMMA OneMsiStops ==
  ASSUME InstallationInstance, "uninstall" \notin Wish,
         "die" \notin Trouble, InstallTyped, Alone, OneSound, Installation!MsiStops
  PROVE  OneSound'
<1> USE DEF Alone, OneSound
<1>1. Quiet
  BY QuietActions
<1>2. OneRuns'
  BY <1>1, QuietRuns DEF Installation!MsiStops, Installation!disk, Installation!books,
       Installation!history
<1>3. GuardExact'
  BY Fields, MsiSteps, MsiReturn DEF InstallationInstance, GuardExact, Guarded, MsiState,
       OnlyUpdates, HelperState, Installation!Transaction, Installation!Repairing,
       Installation!MsiStops, Installation!MsiAt, Installation!disk, Installation!books,
       Installation!history, Installation!Hurt
<1>4. TargetRuns'
  <2>1. CASE Installation!NobodyRuns
    BY <2>1, Fields, QuietSteps DEF TargetRuns, Running
  <2>2. CASE ~ Installation!NobodyRuns
    BY <2>2, <1>1, Fields, MsiReturn, QuietTarget DEF Installation!MsiStops, Working, Installation!Transaction
  <2> QED BY <2>1, <2>2
<1> QED BY <1>2, <1>3, <1>4

LEMMA OneMsiRemoves ==
  ASSUME InstallationInstance, "uninstall" \notin Wish,
         "die" \notin Trouble, InstallTyped, Alone, OneSound, Installation!MsiRemoves
  PROVE  OneSound'
<1> USE DEF Alone, OneSound
<1>1. Quiet
  BY Fields, QuietSteps DEF Installation!MsiRemoves
<1>2. OneRuns'
  BY DEF OneRuns, Installation!MsiRemoves, Installation!disk, Installation!books,
       Installation!history
<1>3. GuardExact'
  BY Fields, Saves DEF InstallationInstance, GuardExact, Guarded, MsiState, OnlyUpdates,
       HelperState, Installation!Transaction, Installation!Repairing, Installation!MsiRemoves,
       Installation!MsiAt, Installation!disk, Installation!books, Installation!history
<1>4. TargetRuns'
  <2>1. msi'.pc \in Working => msi.pc \in Working /\ msi'.target = msi.target
    BY Fields, Saves DEF Working, MsiState, Installation!Transaction, Installation!MsiRemoves, Installation!MsiAt
  <2> QED BY <1>1, <2>1, QuietTarget
<1> QED BY <1>2, <1>3, <1>4

LEMMA OneMsiCopies ==
  ASSUME InstallationInstance, "uninstall" \notin Wish,
         "die" \notin Trouble, InstallTyped, Alone, OneSound, Installation!MsiCopies
  PROVE  OneSound'
<1> USE DEF Alone, OneSound
<1>1. Quiet
  BY Fields, QuietSteps DEF Installation!MsiCopies
<1>2. OneRuns'
  BY DEF OneRuns, Installation!MsiCopies, Installation!books, Installation!history
<1>3. GuardExact'
  BY Fields, MsiSteps DEF InstallationInstance, GuardExact, Guarded, MsiState, OnlyUpdates,
       HelperState, Installation!Transaction, Installation!Repairing, Installation!MsiCopies,
       Installation!MsiAt, Installation!books, Installation!history
<1>4. TargetRuns'
  <2>1. msi'.pc \in Working => msi.pc \in Working /\ msi'.target = msi.target
    BY Fields, MsiSteps DEF Working, MsiState, Installation!Transaction, Installation!MsiCopies, Installation!MsiAt
  <2> QED BY <1>1, <2>1, QuietTarget
<1> QED BY <1>2, <1>3, <1>4

LEMMA OneMsiCopied ==
  ASSUME InstallationInstance, "uninstall" \notin Wish,
         "die" \notin Trouble, InstallTyped, Alone, OneSound, Installation!MsiCopied
  PROVE  OneSound'
<1> USE DEF Alone, OneSound
<1>1. Quiet
  BY Fields, QuietSteps DEF Installation!MsiCopied
<1>2. OneRuns'
  BY DEF OneRuns, Installation!MsiCopied, Installation!books, Installation!history
<1>3. GuardExact'
  BY Fields, MsiSteps DEF InstallationInstance, GuardExact, Guarded, MsiState, OnlyUpdates,
       HelperState, Installation!Transaction, Installation!Repairing, Installation!MsiCopied,
       Installation!MsiAt, Installation!books, Installation!history, Installation!Hurt
<1>4. TargetRuns'
  <2>1. msi'.pc \in Working => msi.pc \in Working /\ msi'.target = msi.target
    BY Fields, MsiSteps DEF Working, MsiState, Installation!Transaction, Installation!MsiCopied, Installation!MsiAt
  <2> QED BY <1>1, <2>1, QuietTarget
<1> QED BY <1>2, <1>3, <1>4

LEMMA OneMsiVerifies ==
  ASSUME InstallationInstance, "uninstall" \notin Wish,
         "die" \notin Trouble, InstallTyped, Alone, OneSound, Installation!MsiVerifies
  PROVE  OneSound'
<1> USE DEF Alone, OneSound
<1>1. Quiet
  BY QuietActions
<1>2. OneRuns'
  BY <1>1, QuietRuns DEF Installation!MsiVerifies, Installation!disk, Installation!books,
       Installation!history
<1>3. GuardExact'
  BY Fields, MsiSteps, Candidate DEF InstallationInstance, GuardExact, Guarded, MsiState,
       OnlyUpdates, HelperState, Installation!Transaction, Installation!Repairing,
       Installation!MsiVerifies, Installation!MsiAt, Installation!Up, Installation!Whole,
       Installation!Idle, Installation!disk, Installation!books, Installation!history
<1>4. TargetRuns'
  <2>1. \/ Installation!MsiGoes("registering") \/ Installation!MsiGoes("restoring")
        \/ \E p \in Process : msi' = [msi EXCEPT !.pc = "awaiting", !.candidate = p]
    BY DEF Installation!MsiVerifies, Installation!Idle
  <2>2. msi'.target = msi.target
    BY Fields, MsiSteps, Candidate, <2>1 DEF MsiState
  <2>3. msi.pc \in Working
    BY DEF Installation!MsiVerifies, Installation!MsiAt, Working, Installation!Transaction
  <2> QED BY <1>1, <2>2, <2>3, QuietTarget
<1> QED BY <1>2, <1>3, <1>4

LEMMA OneMsiAwaits ==
  ASSUME InstallationInstance, "uninstall" \notin Wish,
         "die" \notin Trouble, InstallTyped, Alone, OneSound, Installation!MsiAwaits
  PROVE  OneSound'
<1> USE DEF Alone, OneSound
<1>1. Quiet
  BY Fields, QuietSteps DEF Installation!MsiAwaits
<1>2. OneRuns'
  BY DEF OneRuns, Installation!MsiAwaits, Installation!disk, Installation!books,
       Installation!history
<1>3. GuardExact'
  BY Fields, MsiSteps DEF InstallationInstance, GuardExact, Guarded, MsiState, OnlyUpdates,
       HelperState, Installation!Transaction, Installation!Repairing, Installation!MsiAwaits,
       Installation!MsiAt, Installation!Up, Installation!Idle, Installation!disk,
       Installation!books, Installation!history, Installation!Hurt
<1>4. TargetRuns'
  <2>1. msi'.pc \in Working => msi.pc \in Working /\ msi'.target = msi.target
    BY Fields, MsiSteps DEF Working, MsiState, Installation!Transaction, Installation!MsiAwaits, Installation!MsiAt
  <2> QED BY <1>1, <2>1, QuietTarget
<1> QED BY <1>2, <1>3, <1>4

LEMMA OneMsiRegisters ==
  ASSUME InstallationInstance, "uninstall" \notin Wish,
         "die" \notin Trouble, InstallTyped, Alone, OneSound, Installation!MsiRegisters
  PROVE  OneSound'
<1> USE DEF Alone, OneSound
<1>1. Quiet
  BY Fields, QuietSteps DEF Installation!MsiRegisters
<1>2. OneRuns'
  BY DEF OneRuns, Installation!MsiRegisters, Installation!books, Installation!history
<1>3. GuardExact'
  BY Fields, MsiSteps DEF InstallationInstance, GuardExact, Guarded, MsiState, OnlyUpdates,
       HelperState, Installation!Transaction, Installation!Repairing, Installation!MsiRegisters,
       Installation!MsiAt, Installation!books, Installation!history
<1>4. TargetRuns'
  <2>1. msi'.pc \in Working => msi.pc \in Working /\ msi'.target = msi.target
    BY Fields, MsiSteps DEF Working, MsiState, Installation!Transaction, Installation!MsiRegisters, Installation!MsiAt
  <2> QED BY <1>1, <2>1, QuietTarget
<1> QED BY <1>2, <1>3, <1>4

LEMMA OneMsiPreparesRemoval ==
  ASSUME InstallationInstance, "uninstall" \notin Wish,
         "die" \notin Trouble, InstallTyped, Alone, OneSound, Installation!MsiPreparesRemoval
  PROVE  OneSound'
<1> USE DEF Alone, OneSound
<1>1. Quiet
  BY QuietActions
<1>2. OneRuns'
  BY <1>1, QuietRuns DEF Installation!MsiPreparesRemoval, Installation!disk, Installation!books,
       Installation!history
<1>3. GuardExact'
  BY Fields, Saves DEF InstallationInstance, GuardExact, Guarded, MsiState, OnlyUpdates,
       HelperState, Installation!Transaction, Installation!Repairing,
       Installation!MsiPreparesRemoval, Installation!MsiAt, Installation!disk,
       Installation!books, Installation!history
<1>4. TargetRuns'
  <2>1. msi'.pc \in Working => msi.pc \in Working /\ msi'.target = msi.target
    BY Fields, Saves DEF Working, MsiState, Installation!Transaction, Installation!MsiPreparesRemoval, Installation!MsiAt
  <2> QED BY <1>1, <2>1, QuietTarget
<1> QED BY <1>2, <1>3, <1>4

LEMMA OneMsiErases ==
  ASSUME InstallationInstance, "uninstall" \notin Wish,
         "die" \notin Trouble, InstallTyped, Alone, OneSound, Installation!MsiErases
  PROVE  OneSound'
<1> USE DEF Alone, OneSound
<1>1. Quiet
  BY Fields, QuietSteps DEF Installation!MsiErases
<1>2. OneRuns'
  BY DEF OneRuns, Installation!MsiErases, Installation!disk, Installation!books,
       Installation!history
<1>3. GuardExact'
  BY Fields, MsiSteps DEF InstallationInstance, GuardExact, Guarded, MsiState, OnlyUpdates,
       HelperState, Installation!Transaction, Installation!Repairing, Installation!MsiErases,
       Installation!MsiAt, Installation!disk, Installation!books, Installation!history,
       Installation!Hurt
<1>4. TargetRuns'
  <2>1. msi'.pc \in Working => msi.pc \in Working /\ msi'.target = msi.target
    BY Fields, MsiSteps DEF Working, MsiState, Installation!Transaction, Installation!MsiErases, Installation!MsiAt
  <2> QED BY <1>1, <2>1, QuietTarget
<1> QED BY <1>2, <1>3, <1>4

LEMMA OneMsiCommits ==
  ASSUME InstallationInstance, "uninstall" \notin Wish,
         "die" \notin Trouble, InstallTyped, Alone, OneSound, Installation!MsiCommits
  PROVE  OneSound'
<1> USE DEF Alone, OneSound
<1>1. Quiet
  BY Fields, QuietSteps DEF Installation!MsiCommits
<1>2. OneRuns'
  BY DEF OneRuns, Installation!MsiCommits, Installation!disk
<1>3. GuardExact'
  BY Fields, MsiReturn DEF InstallationInstance, GuardExact, Guarded, MsiState, OnlyUpdates,
       HelperState, Installation!Transaction, Installation!Repairing, Installation!MsiCommits,
       Installation!MsiAt, Installation!disk, Installation!Hurt
<1>4. TargetRuns'
  <2>1. msi'.pc \in Working => msi.pc \in Working /\ msi'.target = msi.target
    BY Fields, MsiReturn DEF Working, MsiState, Installation!Transaction, Installation!MsiCommits, Installation!MsiAt
  <2> QED BY <1>1, <2>1, QuietTarget
<1> QED BY <1>2, <1>3, <1>4

LEMMA OneMsiRestores ==
  ASSUME InstallationInstance, "uninstall" \notin Wish,
         "die" \notin Trouble, InstallTyped, Alone, OneSound, Installation!MsiRestores
  PROVE  OneSound'
<1> USE DEF Alone, OneSound
<1>1. Quiet
  BY Fields, QuietSteps DEF Installation!MsiRestores
<1>2. OneRuns'
  BY DEF OneRuns, Installation!MsiRestores, Installation!books, Installation!history
<1>3. GuardExact'
  BY Fields, MsiSteps DEF InstallationInstance, GuardExact, Guarded, MsiState, OnlyUpdates,
       HelperState, Installation!Transaction, Installation!Repairing, Installation!MsiRestores,
       Installation!MsiAt, Installation!books, Installation!history
<1>4. TargetRuns'
  <2>1. msi'.pc \in Working => msi.pc \in Working /\ msi'.target = msi.target
    BY Fields, MsiSteps DEF Working, MsiState, Installation!Transaction, Installation!MsiRestores, Installation!MsiAt
  <2> QED BY <1>1, <2>1, QuietTarget
<1> QED BY <1>2, <1>3, <1>4

LEMMA OneMsiRevives ==
  ASSUME InstallationInstance, "uninstall" \notin Wish,
         "die" \notin Trouble, InstallTyped, Alone, OneSound, Installation!MsiRevives
  PROVE  OneSound'
<1> USE DEF Alone, OneSound
<1>1. Quiet
  BY QuietActions
<1>2. OneRuns'
  BY <1>1, QuietRuns DEF Installation!MsiRevives, Installation!disk, Installation!books,
       Installation!history
<1>3. GuardExact'
  BY Fields, MsiSteps DEF InstallationInstance, GuardExact, Guarded, MsiState, OnlyUpdates,
       HelperState, Installation!Transaction, Installation!Repairing, Installation!MsiRevives,
       Installation!MsiAt, Installation!disk, Installation!books, Installation!history,
       Installation!Hurt
<1>4. TargetRuns'
  <2>1. msi'.pc \in Working => msi.pc \in Working /\ msi'.target = msi.target
    BY Fields, MsiSteps DEF Working, MsiState, Installation!Transaction, Installation!MsiRevives, Installation!MsiAt
  <2> QED BY <1>1, <2>1, QuietTarget
<1> QED BY <1>2, <1>3, <1>4

LEMMA OneMsiRestarts ==
  ASSUME InstallationInstance, "uninstall" \notin Wish,
         "die" \notin Trouble, InstallTyped, Alone, OneSound, Installation!MsiRestarts
  PROVE  OneSound'
<1> USE DEF Alone, OneSound
<1>1. Quiet
  BY QuietActions
<1>2. OneRuns'
  BY <1>1, QuietRuns DEF Installation!MsiRestarts, Installation!disk, Installation!books,
       Installation!history
<1>3. GuardExact'
  BY Fields, MsiReturn DEF InstallationInstance, GuardExact, Guarded, MsiState, OnlyUpdates,
       HelperState, Installation!Transaction, Installation!Repairing, Installation!MsiRestarts,
       Installation!MsiAt, Installation!RestartSurviving, Installation!Whole, Installation!Up,
       Installation!disk, Installation!books, Installation!history
<1>4. TargetRuns'
  <2>1. msi'.pc \in Working => msi.pc \in Working /\ msi'.target = msi.target
    BY Fields, MsiReturn DEF Working, MsiState, Installation!Transaction, Installation!MsiRestarts, Installation!MsiAt
  <2> QED BY <1>1, <2>1, QuietTarget
<1> QED BY <1>2, <1>3, <1>4

LEMMA OneHelperGuards ==
  ASSUME InstallationInstance, "uninstall" \notin Wish,
         "die" \notin Trouble, InstallTyped, Alone, OneSound, Installation!HelperGuards
  PROVE  OneSound'
<1> USE DEF Alone, OneSound
<1>1. TargetRuns' /\ OneRuns'
  BY DEF TargetRuns, OneRuns, Installation!HelperGuards, Installation!disk, Installation!Begin
<1>2. GuardExact'
  BY Fields, GuardTyped DEF InstallationInstance, GuardExact, Guarded, MsiState, OnlyUpdates,
       HelperState, Installation!Transaction, Installation!Repairing, Installation!HelperGuards,
       Installation!HelperAt, Installation!disk
<1> QED BY <1>1, <1>2

LEMMA OneHelperRuns ==
  ASSUME InstallationInstance, "uninstall" \notin Wish,
         "die" \notin Trouble, InstallTyped, Alone, OneSound, Installation!HelperRuns
  PROVE  OneSound'
<1> USE DEF Alone, OneSound
<1>1. Quiet
  BY Fields, QuietSteps DEF Installation!HelperRuns
<1>2. OneRuns'
  BY DEF OneRuns, Installation!HelperRuns, Installation!disk, Installation!history
<1>3. GuardExact'
  BY HelperRequests DEF GuardExact, Guarded, Installation!Transaction
<1>4. TargetRuns'
  <2>1. \/ UNCHANGED msi
        \/ \E k \in {"major_upgrade", "uninstall"} :
             helper.record.target \in Version /\ msi' = Installation!NewMsi(k, helper.record.target, "helper")
    BY Fields DEF Installation!HelperRuns, Installation!Target
  <2>2. UNCHANGED msi \/ msi'.pc = "asked"
    BY Fields, MsiSteps, <2>1
  <2>3. msi'.pc \in Working => msi.pc \in Working /\ msi'.target = msi.target
    BY <2>2 DEF Working, Installation!Transaction
  <2> QED BY <1>1, <2>3, QuietTarget
<1> QED BY <1>2, <1>3, <1>4

LEMMA OneHelperCompletes ==
  ASSUME InstallationInstance, "uninstall" \notin Wish,
         "die" \notin Trouble, InstallTyped, Alone, OneSound, Installation!HelperCompletes
  PROVE  OneSound'
<1> USE DEF Alone, OneSound
<1>1. TargetRuns' /\ OneRuns'
  BY DEF TargetRuns, OneRuns, Installation!HelperCompletes, Installation!disk,
       Installation!history
<1>2. GuardExact'
  BY Fields, Settled DEF InstallationInstance, GuardExact, Guarded, MsiState, OnlyUpdates,
       HelperState, Installation!Transaction, Installation!Repairing,
       Installation!HelperCompletes, Installation!HelperAt, Installation!Updates,
       Installation!disk, Installation!history
<1> QED BY <1>1, <1>2

LEMMA OneHelperFails ==
  ASSUME InstallationInstance, "uninstall" \notin Wish,
         "die" \notin Trouble, InstallTyped, Alone, OneSound, Installation!HelperFails
  PROVE  OneSound'
<1> USE DEF Alone, OneSound
<1>1. Quiet
  BY QuietActions
<1>2. TargetRuns' /\ OneRuns'
  BY <1>1, QuietTarget, QuietRuns DEF Installation!HelperFails, Installation!disk,
       Installation!history, Working
<1>3. GuardExact'
  BY Fields, Settled DEF InstallationInstance, GuardExact, Guarded, MsiState, OnlyUpdates,
       HelperState, Installation!Transaction, Installation!Repairing, Installation!HelperFails,
       Installation!HelperAt, Installation!Updates, Installation!RestartSurviving,
       Installation!Whole, Installation!Up, Installation!disk, Installation!history
<1> QED BY <1>2, <1>3

LEMMA OneGuardAges ==
  ASSUME InstallationInstance, "uninstall" \notin Wish,
         "die" \notin Trouble, InstallTyped, Alone, OneSound, Installation!GuardAges
  PROVE  OneSound'
<1> USE DEF Alone, OneSound
<1>1. TargetRuns' /\ OneRuns'
  BY DEF TargetRuns, OneRuns, Installation!GuardAges, Installation!disk, Installation!books,
       Installation!history
<1>2. GuardExact'
  BY Fields, GuardsAge DEF InstallationInstance, GuardExact, Guarded, MsiState, OnlyUpdates,
       HelperState, Installation!Transaction, Installation!Repairing, Installation!GuardAges,
       Installation!disk, Installation!books, Installation!history
<1> QED BY <1>1, <1>2

LEMMA OneNext ==
  ASSUME InstallationInstance, "uninstall" \notin Wish, "die" \notin Trouble,
         InstallTyped, Alone, OneSound, [Installation!Next]_(Installation!vars)
  PROVE  OneSound'
<1>1. CASE UNCHANGED Installation!vars
  BY <1>1, Fields, QuietSteps, OneApart DEF Installation!vars
<1>2. ASSUME NEW p \in Process,
             Installation!Open(p) \/ Installation!Exit(p) \/ Installation!Die(p) \/
             Installation!InstallUpdate(p) \/ Installation!Uninstall(p)
      PROVE  OneSound'
  <2>1. Quiet
    BY <1>2, Fields, QuietSteps, QuietActions DEF Installation!InstallUpdate, Installation!Uninstall
  <2>2. UNCHANGED <<guard, msi>>
    BY <1>2 DEF Installation!Open, Installation!Exit, Installation!Die,
       Installation!InstallUpdate, Installation!Uninstall, Installation!disk, Installation!books,
       Installation!history
  <2> QED BY <2>1, <2>2, OneApart
<1>3. CASE Installation!HelperStops \/ Installation!HelperTimesOut \/ Installation!HelperLearns \/
           Installation!HelperChecks \/ Installation!HelperMeets \/
           Installation!HelperAwaits \/ Installation!HelperDies \/
           Installation!JournalAges
  <2>1. Quiet
    BY <1>3, Fields, QuietSteps, QuietActions DEF Installation!HelperTimesOut, Installation!HelperLearns, Installation!HelperChecks,
       Installation!HelperAwaits, Installation!HelperDies, Installation!JournalAges
  <2>2. UNCHANGED <<guard, msi>>
    BY <1>3 DEF Installation!HelperStops, Installation!HelperTimesOut, Installation!HelperLearns,
       Installation!HelperChecks, Installation!HelperMeets, Installation!HelperAwaits,
       Installation!HelperDies, Installation!JournalAges, Installation!disk, Installation!books,
       Installation!history
  <2> QED BY <2>1, <2>2, OneApart
<1>4. ASSUME NEW p \in Process,
             Installation!Enter(p) \/ Installation!Decide(p) \/
             Installation!TerminateNonTarget(p) \/ Installation!CleanupNonTarget(p) \/
             Installation!Mark(p) \/ Installation!RecoverReads(p) \/
             Installation!RecoverWrites(p)
      PROVE  OneSound'
  BY <1>4, OneEnter, OneDecide, OneTerminateNonTarget, OneCleanupNonTarget, OneMark,
     OneRecoverReads, OneRecoverWrites
<1>5. CASE Installation!Setup \/ Installation!Removal \/ Installation!MsiGuards \/
           Installation!MsiStops \/ Installation!MsiRemoves \/
           Installation!MsiCopies \/ Installation!MsiCopied \/
           Installation!MsiVerifies \/ Installation!MsiAwaits \/
           Installation!MsiRegisters \/ Installation!MsiPreparesRemoval \/
           Installation!MsiErases \/ Installation!MsiCommits \/
           Installation!MsiRestores \/ Installation!MsiRevives \/
           Installation!MsiRestarts \/ Installation!HelperGuards \/
           Installation!HelperRuns \/ Installation!HelperCompletes \/
           Installation!HelperFails \/ Installation!GuardAges
  BY <1>5, OneSetup, OneRemoval, OneMsiGuards, OneMsiStops, OneMsiRemoves,
     OneMsiCopies, OneMsiCopied, OneMsiVerifies, OneMsiAwaits, OneMsiRegisters,
     OneMsiPreparesRemoval, OneMsiErases, OneMsiCommits, OneMsiRestores, OneMsiRevives,
     OneMsiRestarts, OneHelperGuards, OneHelperRuns, OneHelperCompletes,
     OneHelperFails, OneGuardAges
<1> QED BY <1>1, <1>2, <1>3, <1>4, <1>5 DEF Installation!Next

\* What holds at first.
LEMMA InstallInit ==
  ASSUME InstallationInstance, Installation!Init
  PROVE  InstallTyped /\ ReceiptSound /\ Alone /\ WholeSound /\ OneSound
<1> USE DEF Installation!Init
<1>1. /\ msi.pc = "idle" /\ helper.pc = "idle" /\ journal.status = Nil /\ journal.stage = Nil
      /\ helper \in HelperRecord /\ journal \in Entry /\ msi \in MsiRecord
  BY NoHelperTyped DEF Installation!NoMsi, MsiRecord, MsiState
<1>2. \A p \in Process : proc[p] = Installation!Off
  OBVIOUS
<1>3. ProcTyped /\ \A p \in Process : proc[p].pc = "off" /\ proc[p].read = Nil
  BY <1>2, OffIsProc DEF ProcTyped
<1>4. InstallTyped
  BY <1>1, <1>3 DEF InstallTyped, InstallationInstance, Trees, Changing
<1>5. ReceiptSound
  BY <1>1, <1>3 DEF ReceiptSound, HelperBegan, HelperAsked, HelperProven, JournalProven, ReadProven,
                    Proven, InstallationInstance
<1>6. Alone
  BY <1>1, <1>3 DEF Alone, RepairsHold, GuardStands, NobodyRepairs, OnlyUpdates, Guarded,
                    Installation!Transaction, Installation!Repairing
<1>7. WholeSound
  BY <1>1, <1>3 DEF WholeSound, ChosenFit, ProductWhole, SavedWhole, TargetWhole, Chosen, Changing,
                    Installation!Whole, InstallationInstance
<1>8. OneSound
  BY <1>1, <1>3 DEF OneSound, GuardExact, TargetRuns, OneRuns, Guarded, Running, Installation!Transaction
<1> QED BY <1>4, <1>5, <1>6, <1>7, <1>8

(* What is told of an operation is true for all versions, users' wishes    *)
(* and troubles: the record that the helper, or a start after it, closes   *)
(* as completed is of an operation whose version was committed since it    *)
(* began.                                                                  *)
THEOREM InstallationReceiptIsTrue ==
  ASSUME InstallationInstance
  PROVE  Installation!Spec => []Installation!ReceiptIsTrue
<1>1. Installation!Init => InstallTyped /\ ReceiptSound
  BY InstallInit
<1>2. InstallTyped /\ ReceiptSound /\ [Installation!Next]_(Installation!vars) => (InstallTyped /\ ReceiptSound)'
  BY InstallTypedNext, ReceiptNext
<1>3. InstallTyped /\ ReceiptSound => Installation!ReceiptIsTrue
  BY DEF ReceiptSound, JournalProven, Installation!ReceiptIsTrue
<1> QED BY <1>1, <1>2, <1>3, PTL DEF Installation!Spec

(* Unless the helper uninstalls, no start repairs while Windows Installer  *)
(* works, and between transactions the registered version is whole.        *)
THEOREM InstallationIsAlone ==
  ASSUME InstallationInstance, "uninstall" \notin Wish
  PROVE  Installation!Spec => [](Installation!InstallerIsAlone /\ Installation!ProductIsWhole)
<1>1. Installation!Init => InstallTyped /\ Alone /\ WholeSound
  BY InstallInit
<1>2. InstallTyped /\ Alone /\ WholeSound /\ [Installation!Next]_(Installation!vars)
        => (InstallTyped /\ Alone /\ WholeSound)'
  BY InstallTypedNext, AloneNext, WholeNext
<1>3. Alone => Installation!InstallerIsAlone
  BY DEF Alone, NobodyRepairs, Installation!InstallerIsAlone
<1>4. WholeSound => Installation!ProductIsWhole
  BY DEF WholeSound, ProductWhole, Changing, Installation!ProductIsWhole, Installation!Transaction
<1> QED BY <1>1, <1>2, <1>3, <1>4, PTL DEF Installation!Spec

(* If nobody dies in the middle either, one version runs.                  *)
THEOREM InstallationOneVersion ==
  ASSUME InstallationInstance, "uninstall" \notin Wish, "die" \notin Trouble
  PROVE  Installation!Spec => []Installation!OneVersionRuns
<1>1. Installation!Init => InstallTyped /\ Alone /\ OneSound
  BY InstallInit
<1>2. InstallTyped /\ Alone /\ OneSound /\ [Installation!Next]_(Installation!vars)
        => (InstallTyped /\ Alone /\ OneSound)'
  BY InstallTypedNext, AloneNext, OneNext
<1>3. OneSound => Installation!OneVersionRuns
  BY DEF OneSound, OneRuns, Running, Installation!OneVersionRuns
<1> QED BY <1>1, <1>2, <1>3, PTL DEF Installation!Spec

-----------------------------------------------------------------------------
(* ProfilePreparation *)
CONSTANTS Profile, Qwen, MaxPreparation, MaxJob, MaxMishap
VARIABLES prep, thread, machine, dispatch, runner, jobs, form, other, asked, mishaps

Preparation == INSTANCE ProfilePreparation WITH MaxOp <- MaxPreparation, MaxFault <- MaxMishap,
  host <- machine, gate <- dispatch, worker <- runner, page <- form, faults <- mishaps

(* There is a profile, and nobody who holds the gate is nobody. *)
PreparationInstance == Profile # {} /\ Nil \notin {"worker", "page", "other"}

PrepFields ==
  [op : Nat \cup {Nil}, profile : Profile \cup {Nil}, active : BOOLEAN,
   state : {"idle", "running", "completed", "failed", "interrupted"}]
PrepRecord == {r \in PrepFields : r.state \in {"running", "interrupted"} => r.profile \in Profile}
ThreadRecord ==
  [op : Nat \cup {Nil}, pc : {"checks", "installs", "unwinding", "ended"}, cancel : BOOLEAN]
FormFields ==
  [pc : {"idle", "upload", "capabilities", "prepare", "refused", "start", "resume", "resumes",
         "wait", "post"},
   profile : Profile, staged : BOOLEAN, shown : PrepRecord, observed : PrepRecord,
   key : Nat \cup {Nil}, of : Profile \cup {Nil}, keys : Nat, cancel : Nat \cup {Nil}]
FormRecord == {f \in FormFields : f.pc \in {"resume", "resumes"} => f.observed.state = "interrupted"}
JobRow == [key : Nat \cup {Nil}, profile : Profile, status : {"queued", "running", "ended"}]

PrepTyped ==
  /\ prep \in PrepRecord /\ thread \in ThreadRecord /\ form \in FormRecord
  /\ jobs \in Seq(JobRow) /\ machine.ops \in Nat
  /\ machine = [ready |-> machine.ready, runtime |-> machine.runtime, ops |-> machine.ops]
  /\ other = Nil \/ other.profile \in Profile

NoneWaits == \A j \in DOMAIN jobs : jobs[j].status = "ended"
NoneRuns == \A j \in DOMAIN jobs : jobs[j].status # "running"

(* Who cancels was asked to; the operation kept is that of the thread. *)
Fenced ==
  /\ prep.active => thread.op = prep.op /\ thread.pc \in {"checks", "installs"}
  /\ thread.cancel => thread.op \in asked
  /\ form.cancel # Nil => form.cancel \in asked

(* Whoever looked under the gate at what must not run holds it until it    *)
(* has started its own.                                                    *)
Gated ==
  /\ runner \in {"claims", "idle next"} => dispatch = "worker"
  /\ runner = "claims" => ~ prep.active
  /\ other # Nil => dispatch = "other" /\ NoneWaits
  /\ form.pc \in {"start", "resumes"} => dispatch = "page" /\ NoneWaits
  /\ prep.active => NoneRuns

PrepInv == PrepTyped /\ Fenced /\ Gated

\* Each entry of the rows changes, and they stay rows.
LEMMA RowsChange ==
  ASSUME jobs \in Seq(JobRow), NEW F, F = [j \in DOMAIN jobs |-> F[j]],
         \A j \in DOMAIN jobs : F[j] \in JobRow
  PROVE  F \in Seq(JobRow) /\ DOMAIN F = DOMAIN jobs
<1>1. DOMAIN jobs = 1 .. Len(jobs) /\ Len(jobs) \in Nat
  OBVIOUS
<1>2. F \in [1 .. Len(jobs) -> JobRow]
  BY <1>1
<1> QED BY <1>1, <1>2

LEMMA IdleRecord == Preparation!Idle \in PrepRecord
BY DEF Preparation!Idle, PrepRecord, PrepFields

LEMMA NoThreadRecord ==
  /\ Preparation!NoThread \in ThreadRecord /\ Preparation!NoThread.cancel = FALSE
  /\ Preparation!NoThread.pc = "ended"
BY DEF Preparation!NoThread, ThreadRecord

\* The record of the form once its pc changes, but for what resumes a preparation.
FormPcs == {"idle", "upload", "capabilities", "prepare", "refused", "start", "wait", "post"}
FormAt(f, pc) == [f EXCEPT !.pc = pc]

LEMMA FormMoves ==
  ASSUME NEW f \in FormRecord, NEW pc \in FormPcs
  PROVE  /\ FormAt(f, pc) \in FormRecord
         /\ FormAt(f, pc).pc = pc /\ FormAt(f, pc).cancel = f.cancel
BY DEF FormRecord, FormFields, FormPcs, FormAt

\* What the form assigns is what it becomes, but for what it observed.
LEMMA PageStep ==
  ASSUME NEW p \in FormRecord, Preparation!Page(p)
  PROVE  form' \in FormRecord /\ form'.pc = p.pc /\ form'.cancel = p.cancel
<1>1. PICK i \in PrepRecord : i = Preparation!Idle
  BY IdleRecord
<1>2. form' = IF p.pc \in {"idle", "post"} THEN [p EXCEPT !.observed = i] ELSE p
  BY <1>1 DEF Preparation!Page
<1> QED BY <1>2 DEF FormRecord, FormFields

\* A step of the form alone that does not take it to a start.
LEMMA FormStep ==
  ASSUME PrepInv, NEW p \in FormRecord, Preparation!Page(p), p.pc \notin {"start", "resumes"},
         p.cancel # Nil => p.cancel \in asked,
         UNCHANGED <<prep, thread, machine, dispatch, runner, jobs, other, asked>>
  PROVE  PrepInv'
<1>1. form' \in FormRecord /\ form'.pc = p.pc /\ form'.cancel = p.cancel
  BY PageStep
<1>2. PrepTyped'
  BY <1>1 DEF PrepInv, PrepTyped
<1>3. Fenced'
  BY <1>1 DEF PrepInv, Fenced
<1>4. Gated'
  BY <1>1 DEF PrepInv, Gated, NoneWaits, NoneRuns
<1> QED BY <1>2, <1>3, <1>4 DEF PrepInv

\* A new operation begins where none is under way: nobody has asked to cancel it.
LEMMA OperationBegins ==
  ASSUME PrepInv, NEW q \in Profile, Preparation!start(q)
  PROVE  /\ prep' \in PrepRecord /\ thread' \in ThreadRecord /\ machine'.ops \in Nat
         /\ machine' = [ready |-> machine'.ready, runtime |-> machine'.runtime, ops |-> machine'.ops]
         /\ prep'.active => thread'.op = prep'.op /\ thread'.pc \in {"checks", "installs"}
         /\ thread'.cancel => thread'.op \in asked
<1>1. CASE UNCHANGED <<prep, thread, machine>>
  BY <1>1 DEF PrepInv, PrepTyped, Fenced
<1>2. CASE Preparation!Starts(q)
  <2>1. PICK n \in Nat : n = machine.ops + 1
    BY DEF PrepInv, PrepTyped
  <2>2. prep' = [op |-> n, profile |-> q, state |-> "running", active |-> TRUE]
    BY <1>2, <2>1 DEF Preparation!Starts
  <2>3. thread' = [op |-> n, pc |-> "checks", cancel |-> FALSE]
    BY <1>2, <2>1 DEF Preparation!Starts
  <2>4. machine' = [machine EXCEPT !.ops = n]
    BY <1>2, <2>1 DEF Preparation!Starts
  <2>5. /\ machine'.ops \in Nat
        /\ machine' = [ready |-> machine'.ready, runtime |-> machine'.runtime, ops |-> machine'.ops]
    BY <2>4 DEF PrepInv, PrepTyped
  <2>6. prep' \in PrepRecord
    BY <2>2 DEF PrepRecord, PrepFields
  <2>7. thread' \in ThreadRecord
    BY <2>3 DEF ThreadRecord
  <2> QED BY <2>2, <2>3, <2>5, <2>6, <2>7
<1> QED BY <1>1, <1>2 DEF Preparation!start

\* A preparation ends: no more than its thread is left of it.
LEMMA PreparationEnds ==
  ASSUME PrepInv, NEW s \in {"completed", "failed"}, Preparation!Ends(s)
  PROVE  prep' \in PrepRecord /\ ~ prep'.active /\ thread' \in ThreadRecord
         /\ thread'.op = thread.op /\ thread'.cancel = thread.cancel
BY DEF PrepInv, PrepTyped, Preparation!Ends, PrepRecord, PrepFields, ThreadRecord

\* Only the thread moves, or the preparation ends, and nobody else does anything.
LEMMA ThreadStep ==
  ASSUME PrepInv, UNCHANGED <<dispatch, runner, jobs, form, other, asked>>,
         machine'.ops \in Nat,
         machine' = [ready |-> machine'.ready, runtime |-> machine'.runtime, ops |-> machine'.ops],
         prep' \in PrepRecord, thread' \in ThreadRecord,
         prep'.active => prep.active /\ thread'.op = prep'.op /\ thread'.pc \in {"checks", "installs"},
         thread'.cancel => thread'.op \in asked
  PROVE  PrepInv'
<1>1. PrepTyped'
  BY DEF PrepInv, PrepTyped
<1>2. Fenced'
  BY DEF PrepInv, Fenced
<1>3. Gated'
  BY DEF PrepInv, Gated, NoneWaits, NoneRuns
<1> QED BY <1>1, <1>2, <1>3 DEF PrepInv

LEMMA PreparationChecks == ASSUME PrepInv, Preparation!RunChecks PROVE PrepInv'
<1>1. /\ UNCHANGED <<dispatch, runner, jobs, form, other, asked, machine>>
      /\ machine'.ops \in Nat
      /\ machine' = [ready |-> machine'.ready, runtime |-> machine'.runtime, ops |-> machine'.ops]
  BY DEF Preparation!RunChecks, PrepInv, PrepTyped
<1>2. CASE Preparation!Ends("failed") \/ Preparation!Ends("completed")
  <2>1. prep' \in PrepRecord /\ ~ prep'.active /\ thread' \in ThreadRecord
        /\ thread'.op = thread.op /\ thread'.cancel = thread.cancel
    BY <1>2, PreparationEnds
  <2>2. thread.cancel => thread.op \in asked
    BY DEF PrepInv, Fenced
  <2> QED BY <1>1, <2>1, <2>2, ThreadStep
<1>3. CASE thread' = [thread EXCEPT !.pc = "installs"] /\ UNCHANGED prep
  <2>1. /\ thread' \in ThreadRecord /\ thread'.op = thread.op /\ thread'.cancel = thread.cancel
        /\ thread'.pc = "installs" /\ prep' \in PrepRecord
    BY <1>3 DEF PrepInv, PrepTyped, ThreadRecord
  <2>2. (thread.cancel => thread.op \in asked) /\ (prep.active => thread.op = prep.op)
    BY DEF PrepInv, Fenced
  <2> QED BY <1>1, <1>3, <2>1, <2>2, ThreadStep
<1> QED BY <1>2, <1>3 DEF Preparation!RunChecks

LEMMA PreparationInstalls ==
  ASSUME PrepInv, Preparation!RunInstalls \/ Preparation!RunFails
  PROVE  PrepInv'
<1>1. UNCHANGED <<dispatch, runner, jobs, form, other, asked>>
  BY DEF Preparation!RunInstalls, Preparation!RunFails
<1>2. machine'.ops \in Nat
      /\ machine' = [ready |-> machine'.ready, runtime |-> machine'.runtime, ops |-> machine'.ops]
  <2>1. CASE machine' = machine
    BY <2>1 DEF PrepInv, PrepTyped
  <2>2. CASE Preparation!RunInstalls
    <3>1. PICK a, b : machine' = [machine EXCEPT !.ready = a, !.runtime = b]
      BY <2>2 DEF Preparation!RunInstalls
    <3> QED BY <3>1 DEF PrepInv, PrepTyped
  <2> QED BY <2>1, <2>2 DEF Preparation!RunFails
<1>3. Preparation!Ends("failed") \/ Preparation!Ends("completed")
  BY DEF Preparation!RunInstalls, Preparation!RunFails
<1>4. prep' \in PrepRecord /\ ~ prep'.active /\ thread' \in ThreadRecord
      /\ thread'.op = thread.op /\ thread'.cancel = thread.cancel
  BY <1>3, PreparationEnds
<1>5. thread.cancel => thread.op \in asked
  BY DEF PrepInv, Fenced
<1> QED BY <1>1, <1>2, <1>4, <1>5, ThreadStep

LEMMA PreparationUnwinds == ASSUME PrepInv, Preparation!RunUnwinds PROVE PrepInv'
<1>1. /\ UNCHANGED <<prep, dispatch, runner, jobs, form, other, asked, machine>>
      /\ thread' = Preparation!NoThread /\ thread.pc = "unwinding"
  BY DEF Preparation!RunUnwinds
<1>2. thread' \in ThreadRecord /\ ~ thread'.cancel
  BY <1>1, NoThreadRecord
<1>3. ~ prep.active
  BY <1>1 DEF PrepInv, Fenced
<1>4. /\ machine'.ops \in Nat /\ prep' \in PrepRecord
      /\ machine' = [ready |-> machine'.ready, runtime |-> machine'.runtime, ops |-> machine'.ops]
  BY <1>1 DEF PrepInv, PrepTyped
<1> QED BY <1>1, <1>2, <1>3, <1>4, ThreadStep

LEMMA PreparationRestarts == ASSUME PrepInv, Preparation!Restart PROVE PrepInv'
<1> DEFINE F == [j \in DOMAIN jobs |->
              IF jobs[j].status = "running" THEN [jobs[j] EXCEPT !.status = "queued"] ELSE jobs[j]]
<1>1. /\ thread' = Preparation!NoThread /\ dispatch' = Nil /\ runner' = "idle" /\ other' = Nil
      /\ UNCHANGED <<machine, asked>> /\ jobs' = F
      /\ prep' = [prep EXCEPT !.state = IF @ = "running" THEN "interrupted" ELSE @, !.active = FALSE]
      /\ form' = IF form.pc \in {"start", "resumes", "refused"} THEN FormAt(form, "idle") ELSE form
  BY DEF Preparation!Restart, FormAt
<1>2. jobs' \in Seq(JobRow)
  <2>1. jobs \in Seq(JobRow) /\ \A j \in DOMAIN jobs : jobs[j] \in JobRow
    BY DEF PrepInv, PrepTyped
  <2>2. \A j \in DOMAIN jobs : F[j] \in JobRow
    BY <2>1 DEF JobRow
  <2> QED BY <1>1, <2>1, <2>2, RowsChange
<1>3. /\ form' \in FormRecord /\ form'.pc \notin {"start", "resumes"} /\ form'.cancel = form.cancel
  <2>1. form \in FormRecord /\ "idle" \in FormPcs
    BY DEF PrepInv, PrepTyped, FormPcs
  <2> QED BY <1>1, <2>1, FormMoves
<1>4. prep' \in PrepRecord /\ ~ prep'.active
  <2>1. PICK s \in {"idle", "running", "completed", "failed", "interrupted"} :
             /\ s = IF prep.state = "running" THEN "interrupted" ELSE prep.state
             /\ prep' = [prep EXCEPT !.state = s, !.active = FALSE]
    BY <1>1 DEF PrepInv, PrepTyped, PrepRecord, PrepFields
  <2> QED BY <2>1 DEF PrepInv, PrepTyped, PrepRecord, PrepFields
<1>5. thread' \in ThreadRecord /\ ~ thread'.cancel
  BY <1>1, NoThreadRecord
<1>6. PrepTyped'
  BY <1>1, <1>2, <1>3, <1>4, <1>5 DEF PrepInv, PrepTyped
<1>7. Fenced'
  BY <1>1, <1>3, <1>4, <1>5 DEF PrepInv, Fenced
<1>8. Gated'
  BY <1>1, <1>3, <1>4 DEF Gated
<1> QED BY <1>6, <1>7, <1>8 DEF PrepInv

\* The worker looks at the preparation, and claims, under one hold of the gate.
LEMMA WorkerLooks ==
  ASSUME PreparationInstance, PrepInv, Preparation!WorkerLooks
  PROVE  PrepInv'
<1>1. /\ dispatch = Nil /\ dispatch' = "worker"
      /\ runner' = IF prep.active THEN "idle next" ELSE "claims"
      /\ UNCHANGED <<prep, thread, machine, jobs, form, other, asked>>
  BY DEF Preparation!WorkerLooks, Preparation!Takes
<1>2. PrepTyped' /\ Fenced'
  BY <1>1 DEF PrepInv, PrepTyped, Fenced
<1>3. Gated'
  BY <1>1 DEF PrepInv, Gated, NoneRuns, PreparationInstance
<1> QED BY <1>2, <1>3 DEF PrepInv

LEMMA WorkerClaims ==
  ASSUME PreparationInstance, PrepInv, Preparation!WorkerClaims
  PROVE  PrepInv'
<1>1. /\ runner \in {"claims", "idle next"} /\ dispatch = "worker" /\ dispatch' = Nil
      /\ UNCHANGED <<prep, thread, machine, form, other, asked>>
  BY DEF Preparation!WorkerClaims, Preparation!Leaves, PrepInv, Gated
<1>2. other = Nil /\ form.pc \notin {"start", "resumes"}
  BY <1>1 DEF PrepInv, Gated
<1>3. CASE runner' = "idle" /\ UNCHANGED jobs
  <2>1. PrepTyped' /\ Fenced'
    BY <1>1, <1>3 DEF PrepInv, PrepTyped, Fenced
  <2>2. Gated'
    BY <1>1, <1>2, <1>3 DEF PrepInv, Gated, NoneRuns
  <2> QED BY <2>1, <2>2 DEF PrepInv
<1>4. CASE /\ runner = "claims" /\ runner' = "runs"
           /\ \E j \in DOMAIN jobs : jobs' = [jobs EXCEPT ![j].status = "running"]
  <2>1. PICK j \in DOMAIN jobs : jobs' = [jobs EXCEPT ![j].status = "running"]
    BY <1>4
  <2>2. jobs' \in Seq(JobRow)
    <3>0. jobs \in Seq(JobRow) /\ jobs[j] \in JobRow
      BY DEF PrepInv, PrepTyped
    <3>1. [jobs[j] EXCEPT !.status = "running"] \in JobRow
      BY <3>0 DEF JobRow
    <3>2. PICK r \in JobRow : jobs' = [jobs EXCEPT ![j] = r]
      BY <2>1, <3>1
    <3> QED BY <3>0, <3>2
  <2>3. PrepTyped' /\ Fenced'
    BY <1>1, <2>2 DEF PrepInv, PrepTyped, Fenced
  <2>4. ~ prep.active
    BY <1>4 DEF PrepInv, Gated
  <2>5. Gated'
    BY <1>1, <1>2, <1>4, <2>4 DEF Gated
  <2> QED BY <2>3, <2>5 DEF PrepInv
<1> QED BY <1>3, <1>4 DEF Preparation!WorkerClaims

LEMMA WorkerEnds == ASSUME PrepInv, Preparation!WorkerEnds PROVE PrepInv'
<1> DEFINE F == [j \in DOMAIN jobs |->
              IF jobs[j].status = "running" THEN [jobs[j] EXCEPT !.status = "ended"] ELSE jobs[j]]
<1>1. /\ runner' = "idle" /\ jobs' = F
      /\ UNCHANGED <<prep, thread, machine, dispatch, form, other, asked>>
  BY DEF Preparation!WorkerEnds
<1>2. jobs \in Seq(JobRow) /\ \A j \in DOMAIN jobs : jobs[j] \in JobRow
  BY DEF PrepInv, PrepTyped
<1>3. \A j \in DOMAIN jobs : F[j] \in JobRow /\ F[j].status # "running"
                             /\ (jobs[j].status = "ended" => F[j].status = "ended")
  BY <1>2 DEF JobRow
<1>4. jobs' \in Seq(JobRow) /\ DOMAIN jobs' = DOMAIN jobs
  BY <1>1, <1>2, <1>3, RowsChange
<1>5. PrepTyped' /\ Fenced'
  BY <1>1, <1>4 DEF PrepInv, PrepTyped, Fenced
<1>6. NoneRuns' /\ (NoneWaits => NoneWaits')
  <2>1. \A j \in DOMAIN jobs' : jobs'[j] = F[j]
    BY <1>1, <1>4
  <2> QED BY <1>3, <1>4, <2>1 DEF NoneRuns, NoneWaits
<1>7. Gated'
  BY <1>1, <1>6 DEF PrepInv, Gated
<1> QED BY <1>5, <1>7 DEF PrepInv

\* Nothing is queued, nothing runs: every row is of a job that ended.
LEMMA NoActiveJobs ==
  ASSUME PrepInv, Preparation!ActiveJobs = {}
  PROVE  NoneWaits /\ NoneRuns
<1>1. \A j \in DOMAIN jobs : jobs[j] \in JobRow /\ jobs[j].status \notin {"queued", "running"}
  BY DEF PrepInv, PrepTyped, Preparation!ActiveJobs
<1> QED BY <1>1 DEF JobRow, NoneWaits, NoneRuns

LEMMA OtherPrepares ==
  ASSUME PreparationInstance, PrepInv, Preparation!OtherPrepares
  PROVE  PrepInv'
<1>1. /\ dispatch = Nil /\ dispatch' = "other" /\ other' # Nil
      /\ UNCHANGED <<prep, thread, machine, runner, jobs, form, asked>>
  BY DEF Preparation!OtherPrepares, Preparation!Takes
<1>2. PICK p \in Profile : other' = IF Preparation!ActiveJobs # {} THEN Nil ELSE [profile |-> p]
  BY DEF Preparation!OtherPrepares
<1>3. other'.profile \in Profile /\ NoneWaits
  BY <1>1, <1>2, NoActiveJobs
<1>4. PrepTyped' /\ Fenced'
  BY <1>1, <1>3 DEF PrepInv, PrepTyped, Fenced
<1>5. Gated'
  BY <1>1, <1>3 DEF PrepInv, Gated, NoneRuns, NoneWaits, PreparationInstance
<1> QED BY <1>4, <1>5 DEF PrepInv

LEMMA OtherStarts ==
  ASSUME PreparationInstance, PrepInv, Preparation!OtherStarts
  PROVE  PrepInv'
<1>1. /\ other # Nil /\ Preparation!start(other.profile) /\ other' = Nil
      /\ UNCHANGED <<runner, jobs, form, asked>>
  BY DEF Preparation!OtherStarts
<1>2. dispatch = "other" /\ NoneWaits /\ other.profile \in Profile
  BY <1>1 DEF PrepInv, PrepTyped, Gated
<1>3. dispatch' = Nil
  BY <1>2 DEF Preparation!OtherStarts, Preparation!Leaves
<1>4. /\ prep' \in PrepRecord /\ thread' \in ThreadRecord /\ machine'.ops \in Nat
      /\ machine' = [ready |-> machine'.ready, runtime |-> machine'.runtime, ops |-> machine'.ops]
      /\ prep'.active => thread'.op = prep'.op /\ thread'.pc \in {"checks", "installs"}
      /\ thread'.cancel => thread'.op \in asked
  BY <1>1, <1>2, OperationBegins
<1>5. PrepTyped'
  BY <1>1, <1>4 DEF PrepInv, PrepTyped
<1>6. Fenced'
  BY <1>1, <1>4 DEF PrepInv, Fenced
<1>7. Gated'
  BY <1>1, <1>2, <1>3 DEF PrepInv, Gated, NoneRuns, NoneWaits
<1> QED BY <1>5, <1>6, <1>7 DEF PrepInv

\* A request to cancel reaches the operation it names, and only this one.
LEMMA CancelReaches ==
  ASSUME PrepInv, NEW op \in asked', Preparation!request_cancel(op), asked \subseteq asked',
         UNCHANGED prep
  PROVE  /\ thread' \in ThreadRecord
         /\ thread'.cancel => thread'.op \in asked'
         /\ thread'.op = thread.op /\ thread'.pc = thread.pc
<1>1. thread \in ThreadRecord /\ (thread.cancel => thread.op \in asked) /\ (prep.active => thread.op = prep.op)
  BY DEF PrepInv, PrepTyped, Fenced
<1>2. CASE prep.active /\ prep.op = op
  <2>1. thread' = [thread EXCEPT !.cancel = TRUE]
    BY <1>2 DEF Preparation!request_cancel
  <2> QED BY <1>1, <1>2, <2>1 DEF ThreadRecord
<1>3. CASE thread' = thread
  BY <1>1, <1>3
<1> QED BY <1>2, <1>3 DEF Preparation!request_cancel

LEMMA OtherCancels == ASSUME PrepInv, Preparation!OtherCancels PROVE PrepInv'
<1>1. /\ asked' = asked \cup {prep.op} /\ Preparation!request_cancel(prep.op)
      /\ UNCHANGED <<prep, machine, dispatch, runner, jobs, form, other>>
  BY DEF Preparation!OtherCancels
<1>2. prep.op \in asked' /\ asked \subseteq asked'
  BY <1>1
<1>3. /\ thread' \in ThreadRecord
      /\ thread'.cancel => thread'.op \in asked'
      /\ thread'.op = thread.op /\ thread'.pc = thread.pc
  BY <1>1, <1>2, CancelReaches
<1>4. PrepTyped' /\ Gated'
  BY <1>1, <1>3 DEF PrepInv, PrepTyped, Gated, NoneRuns, NoneWaits
<1>5. Fenced'
  BY <1>1, <1>2, <1>3 DEF PrepInv, Fenced
<1> QED BY <1>4, <1>5 DEF PrepInv

\* What the form does without the Agent, or reads of it.
LEMMA FormTurns ==
  ASSUME PrepInv,
         \/ Preparation!ChangeProfile \/ Preparation!refreshPreparation \/ Preparation!submit
         \/ Preparation!craigSource \/ Preparation!Fails \/ Preparation!resumePreparation
  PROVE  PrepInv'
<1>1. UNCHANGED <<prep, thread, machine, dispatch, runner, jobs, other, asked>>
  BY DEF Preparation!ChangeProfile, Preparation!refreshPreparation, Preparation!submit, Preparation!Agent,
         Preparation!craigSource, Preparation!Fails, Preparation!resumePreparation, Preparation!Stays
<1>2. /\ form \in FormRecord /\ prep \in PrepRecord
      /\ form.cancel # Nil => form.cancel \in asked
  BY DEF PrepInv, PrepTyped, Fenced
<1>3. SUFFICES \/ PrepInv'
                \/ \E p \in FormRecord : /\ Preparation!Page(p)
                                        /\ p.pc \notin {"start", "resumes"} /\ p.cancel = form.cancel
  BY <1>1, <1>2, FormStep
<1>4. CASE Preparation!ChangeProfile
  <2>1. PICK q \in Profile : Preparation!Page([form EXCEPT !.profile = q]) /\ form.pc = "idle"
    BY <1>4 DEF Preparation!ChangeProfile, Preparation!busy
  <2>2. [form EXCEPT !.profile = q] \in FormRecord /\ [form EXCEPT !.profile = q].pc = form.pc
        /\ [form EXCEPT !.profile = q].cancel = form.cancel
    BY <1>2 DEF FormRecord, FormFields
  <2> QED BY <2>1, <2>2
<1>5. CASE Preparation!refreshPreparation
  <2>1. Preparation!Page([form EXCEPT !.shown = prep])
    BY <1>5 DEF Preparation!refreshPreparation
  <2>2. PICK f : f = [form EXCEPT !.shown = prep]
    OBVIOUS
  <2>3. f \in FormRecord /\ f.pc = form.pc /\ f.cancel = form.cancel
    BY <1>2, <2>2 DEF FormRecord, FormFields
  <2>4. CASE form.pc \notin {"start", "resumes"}
    BY <2>1, <2>2, <2>3, <2>4
  <2>5. CASE form.pc \in {"start", "resumes"}
    <3>1. form' \in FormRecord /\ form'.pc = form.pc /\ form'.cancel = form.cancel
      BY <2>1, <2>2, <2>3, PageStep
    <3>2. PrepTyped' /\ Fenced'
      BY <1>1, <3>1 DEF PrepInv, PrepTyped, Fenced
    <3>3. Gated'
      BY <1>1, <3>1 DEF PrepInv, Gated, NoneRuns, NoneWaits
    <3> QED BY <1>2, <3>2, <3>3 DEF PrepInv
  <2> QED BY <2>4, <2>5
<1>6. CASE Preparation!submit
  <2>1. PICK pc \in {"capabilities", "upload"} :
             Preparation!Page([form EXCEPT !.pc = pc, !.observed = form.shown])
    BY <1>6 DEF Preparation!submit
  <2>2. PICK f : f = [form EXCEPT !.pc = pc, !.observed = form.shown]
    OBVIOUS
  <2>3. f \in FormRecord /\ f.pc = pc /\ f.cancel = form.cancel
    BY <1>2, <2>2 DEF FormRecord, FormFields
  <2> QED BY <2>1, <2>2, <2>3
<1>7. CASE Preparation!craigSource
  <2>1. Preparation!Page([form EXCEPT !.pc = "capabilities", !.staged = TRUE])
    BY <1>7 DEF Preparation!craigSource
  <2>2. PICK f : f = [form EXCEPT !.pc = "capabilities", !.staged = TRUE]
    OBVIOUS
  <2>3. f \in FormRecord /\ f.pc = "capabilities" /\ f.cancel = form.cancel
    BY <1>2, <2>2 DEF FormRecord, FormFields
  <2> QED BY <2>1, <2>2, <2>3
<1>8. CASE Preparation!Fails
  <2>1. PICK s \in {form.staged, FALSE} : Preparation!Page([form EXCEPT !.pc = "idle", !.staged = s])
    BY <1>8 DEF Preparation!Fails
  <2>2. PICK f : f = [form EXCEPT !.pc = "idle", !.staged = s]
    OBVIOUS
  <2>3. f \in FormRecord /\ f.pc = "idle" /\ f.cancel = form.cancel
    BY <1>2, <2>2 DEF FormRecord, FormFields
  <2> QED BY <2>1, <2>2, <2>3
<1>9. CASE Preparation!resumePreparation
  <2>1. /\ Preparation!Page([form EXCEPT !.pc = "resume", !.observed = form.shown])
        /\ form.shown.state = "interrupted"
    BY <1>9 DEF Preparation!resumePreparation
  <2>2. PICK f : f = [form EXCEPT !.pc = "resume", !.observed = form.shown]
    OBVIOUS
  <2>3. f \in FormRecord /\ f.pc = "resume" /\ f.cancel = form.cancel
    BY <1>2, <2>1, <2>2 DEF FormRecord, FormFields
  <2> QED BY <2>1, <2>2, <2>3
<1> QED BY <1>4, <1>5, <1>6, <1>7, <1>8, <1>9

LEMMA FormAsks ==
  ASSUME PrepInv, Preparation!capabilities \/ Preparation!wait
  PROVE  PrepInv'
<1>1. UNCHANGED <<prep, thread, machine, dispatch, runner, jobs, other, asked>>
  BY DEF Preparation!capabilities, Preparation!wait, Preparation!Agent, Preparation!Stays
<1>2. /\ form \in FormRecord /\ prep \in PrepRecord
      /\ form.cancel # Nil => form.cancel \in asked
  BY DEF PrepInv, PrepTyped, Fenced
<1>3. \A pc \in FormPcs \ {"start"} : Preparation!Page(FormAt(form, pc)) => PrepInv'
  BY <1>1, <1>2, FormMoves, FormStep DEF FormPcs
<1>4. CASE Preparation!capabilities
  <2>1. PICK p : Preparation!Page(p) /\
          p \in {FormAt(form, "post"), FormAt(form, "idle"), FormAt(form, "prepare"), FormAt(form, "wait")}
    <3>1. PICK s : s = Preparation!parseCapabilities(form.profile)
      OBVIOUS
    <3>2. PICK p : p = CASE s = "ready" -> [form EXCEPT !.pc = "post"]
               [] s = "upgrade" -> [form EXCEPT !.pc = "idle"]
               [] s = "prepare" /\ ~form.observed.active -> [form EXCEPT !.pc = "prepare"]
               [] s = "prepare" /\ form.observed.active /\ form.observed.profile = form.profile ->
                    [form EXCEPT !.pc = "wait"]
               [] OTHER -> [form EXCEPT !.pc = "idle"]
      OBVIOUS
    <3>3. Preparation!Page(p)
      BY <1>4, <3>1, <3>2 DEF Preparation!capabilities
    <3> QED BY <3>2, <3>3 DEF FormAt
  <2> QED BY <1>3, <2>1 DEF FormPcs
<1>5. CASE Preparation!wait
  <2>1. CASE \E pc \in {"post", "idle"} : Preparation!Page(FormAt(form, pc))
    BY <1>3, <2>1 DEF FormPcs
  <2>2. CASE Preparation!Page([form EXCEPT !.shown = prep,
               !.observed = IF prep.op = form.observed.op THEN prep ELSE @,
               !.pc = IF prep.op = form.observed.op THEN "wait" ELSE "idle"])
    <3>1. PICK o \in PrepRecord : o = IF prep.op = form.observed.op THEN prep ELSE form.observed
      BY <1>2 DEF FormRecord, FormFields
    <3>2. PICK pc \in {"wait", "idle"} : pc = IF prep.op = form.observed.op THEN "wait" ELSE "idle"
      OBVIOUS
    <3>3. PICK f : f = [form EXCEPT !.pc = pc, !.shown = prep, !.observed = o]
      OBVIOUS
    <3>4. Preparation!Page(f)
      <4>1. f = [form EXCEPT !.shown = prep,
               !.observed = IF prep.op = form.observed.op THEN prep ELSE @,
               !.pc = IF prep.op = form.observed.op THEN "wait" ELSE "idle"]
        BY <1>2, <3>1, <3>2, <3>3 DEF FormRecord, FormFields
      <4> QED BY <2>2, <4>1
    <3>5. pc \in FormPcs
      BY DEF FormPcs
    <3>6. f \in FormRecord /\ f.pc = pc /\ f.cancel = form.cancel
      BY <1>2, <3>1, <3>3, <3>5 DEF FormRecord, FormFields, FormPcs
    <3> QED BY <1>1, <1>2, <3>4, <3>6, FormStep
  <2> QED BY <1>5, <2>1, <2>2 DEF Preparation!wait, FormAt
<1> QED BY <1>4, <1>5

LEMMA FormPrepares ==
  ASSUME PreparationInstance, PrepInv, Preparation!prepareProfile
  PROVE  PrepInv'
<1>1. /\ dispatch = Nil /\ dispatch' = "page"
      /\ UNCHANGED <<prep, thread, machine, runner, jobs, other, asked>>
  BY DEF Preparation!prepareProfile, Preparation!Takes
<1>2. PICK pc \in {"refused", "start", "resumes"} :
             /\ pc = IF Preparation!ActiveJobs # {} THEN "refused"
                     ELSE IF form.pc = "prepare" THEN "start" ELSE "resumes"
             /\ Preparation!Page(FormAt(form, pc)) /\ form.pc \in {"prepare", "resume"}
  <2>1. form \in FormRecord
    BY DEF PrepInv, PrepTyped
  <2> QED BY <2>1 DEF Preparation!prepareProfile, FormAt, FormRecord, FormFields
<1>3. form' \in FormRecord /\ form'.pc = pc /\ form'.cancel = form.cancel
  <2>1. form \in FormRecord
    BY DEF PrepInv, PrepTyped
  <2>2. FormAt(form, pc) \in FormRecord /\ FormAt(form, pc).pc = pc
        /\ FormAt(form, pc).cancel = form.cancel
    BY <1>2, <2>1 DEF FormRecord, FormFields, FormAt
  <2> QED BY <1>2, <2>2, PageStep
<1>4. form'.pc \in {"start", "resumes"} => NoneWaits
  BY <1>2, <1>3, NoActiveJobs
<1>5. PrepTyped' /\ Fenced'
  BY <1>1, <1>3 DEF PrepInv, PrepTyped, Fenced
<1>6. Gated'
  BY <1>1, <1>4 DEF PrepInv, Gated, NoneRuns, NoneWaits, PreparationInstance
<1> QED BY <1>5, <1>6 DEF PrepInv

LEMMA FormStarts ==
  ASSUME PreparationInstance, PrepInv, Preparation!prepareStarts
  PROVE  PrepInv'
<1>1. /\ form.pc \in {"start", "resumes", "refused"} /\ UNCHANGED <<runner, jobs, other, asked>>
      /\ dispatch' = IF dispatch = "page" THEN Nil ELSE dispatch
  BY DEF Preparation!prepareStarts, Preparation!Leaves
<1>2. /\ form \in FormRecord /\ Preparation!Wanted \in Profile
      /\ form.cancel # Nil => form.cancel \in asked
  BY DEF PrepInv, PrepTyped, Fenced, FormRecord, FormFields, Preparation!Wanted, PrepRecord
<1>3. /\ prep' \in PrepRecord /\ thread' \in ThreadRecord /\ machine'.ops \in Nat
      /\ machine' = [ready |-> machine'.ready, runtime |-> machine'.runtime, ops |-> machine'.ops]
      /\ prep'.active => thread'.op = prep'.op /\ thread'.pc \in {"checks", "installs"}
      /\ thread'.cancel => thread'.op \in asked
  <2>1. CASE Preparation!start(Preparation!Wanted)
    BY <1>2, <2>1, OperationBegins
  <2>2. CASE UNCHANGED <<prep, thread, machine>>
    BY <2>2 DEF PrepInv, PrepTyped, Fenced
  <2> QED BY <2>1, <2>2 DEF Preparation!prepareStarts
<1>4. PICK p \in FormRecord : Preparation!Page(p) /\ p.pc \notin {"start", "resumes"} /\ p.cancel = form.cancel
  <2>1. CASE Preparation!Page(FormAt(form, "idle"))
    <3>1. "idle" \in FormPcs
      BY DEF FormPcs
    <3> QED BY <1>2, <2>1, <3>1, FormMoves
  <2>2. CASE \E pc \in {"wait", "idle"} :
               Preparation!Page([form EXCEPT !.pc = pc, !.shown = prep', !.observed = prep'])
    <3>1. PICK q \in PrepRecord : q = prep'
      BY <1>3
    <3>2. PICK pc \in {"wait", "idle"} :
               Preparation!Page([form EXCEPT !.pc = pc, !.shown = q, !.observed = q])
      BY <2>2, <3>1
    <3>3. PICK f : f = [form EXCEPT !.pc = pc, !.shown = q, !.observed = q]
      OBVIOUS
    <3>4. f \in FormRecord /\ f.pc = pc /\ f.cancel = form.cancel
      BY <1>2, <3>1, <3>3 DEF FormRecord, FormFields
    <3> QED BY <3>2, <3>3, <3>4
  <2>3. \/ Preparation!Page(FormAt(form, "idle"))
        \/ Preparation!Page([form EXCEPT !.pc = IF form.pc = "start" THEN "wait" ELSE "idle",
                                         !.shown = prep', !.observed = prep'])
    <3>1. form \in FormRecord
      BY <1>2
    <3> QED BY <3>1 DEF Preparation!prepareStarts, FormAt, FormRecord, FormFields
  <2> QED BY <2>1, <2>2, <2>3
<1>5. form' \in FormRecord /\ form'.pc = p.pc /\ form'.cancel = p.cancel
  BY <1>4, PageStep
<1>6. PrepTyped'
  BY <1>1, <1>3, <1>5 DEF PrepInv, PrepTyped
<1>7. Fenced'
  BY <1>1, <1>2, <1>3, <1>4, <1>5 DEF Fenced
<1>8. Gated'
  <2>1. CASE form.pc \in {"start", "resumes"}
    <3>1. dispatch = "page" /\ NoneWaits /\ dispatch' = Nil
      BY <1>1, <2>1 DEF PrepInv, Gated
    <3>2. NoneRuns
      BY <3>1 DEF NoneRuns, NoneWaits
    <3> QED BY <1>1, <1>4, <1>5, <3>1, <3>2 DEF PrepInv, Gated, NoneRuns, NoneWaits
  <2>2. CASE form.pc = "refused"
    <3>1. UNCHANGED prep
      BY <2>2 DEF Preparation!prepareStarts
    <3> QED BY <1>1, <1>4, <1>5, <3>1 DEF PrepInv, Gated, NoneRuns, NoneWaits
  <2> QED BY <1>1, <2>1, <2>2
<1> QED BY <1>6, <1>7, <1>8 DEF PrepInv

LEMMA FormSubmits ==
  ASSUME PreparationInstance, PrepInv, Preparation!transcription
  PROVE  PrepInv'
<1>1. dispatch = Nil /\ UNCHANGED <<prep, thread, machine, dispatch, runner, other, asked>>
  BY DEF Preparation!transcription
<1>2. other = Nil /\ form.pc \notin {"start", "resumes"} /\ runner \notin {"claims", "idle next"}
  BY <1>1 DEF PrepInv, Gated, PreparationInstance, Preparation!transcription
<1>3. PICK k : k = Preparation!Keyed
  OBVIOUS
<1>4. k \in FormRecord /\ k.cancel = form.cancel
  <2>1. form \in FormRecord
    BY DEF PrepInv, PrepTyped
  <2>2. CASE k = form
    BY <2>1, <2>2
  <2>3. CASE k = [form EXCEPT !.key = form.keys + 1, !.keys = @ + 1, !.of = form.profile]
    <3>1. PICK n \in Nat : n = form.keys + 1
      BY <2>1 DEF FormRecord, FormFields
    <3>2. k = [form EXCEPT !.key = n, !.keys = n, !.of = form.profile]
      BY <2>3, <3>1
    <3> QED BY <2>1, <3>2 DEF FormRecord, FormFields
  <2> QED BY <1>3, <2>2, <2>3 DEF Preparation!Keyed
<1>5. PICK p \in FormRecord : Preparation!Page(p) /\ p.pc = "idle" /\ p.cancel = form.cancel
  <2>1. CASE Preparation!Page(FormAt(k, "idle"))
    <3>1. "idle" \in FormPcs
      BY DEF FormPcs
    <3> QED BY <1>4, <2>1, <3>1, FormMoves
  <2>2. CASE \E a \in BOOLEAN : Preparation!Page([k EXCEPT !.pc = "idle", !.key = IF a THEN Nil ELSE @])
    <3>1. PICK a \in BOOLEAN : Preparation!Page([k EXCEPT !.pc = "idle", !.key = IF a THEN Nil ELSE @])
      BY <2>2
    <3>2. PICK f : f = [k EXCEPT !.pc = "idle", !.key = IF a THEN Nil ELSE @]
      OBVIOUS
    <3>3. f \in FormRecord /\ f.pc = "idle" /\ f.cancel = k.cancel
      BY <1>4, <3>2 DEF FormRecord, FormFields
    <3> QED BY <1>4, <3>1, <3>2, <3>3
  <2> QED BY <1>3, <2>1, <2>2 DEF Preparation!transcription, FormAt
<1>6. form' \in FormRecord /\ form'.pc = "idle" /\ form'.cancel = form.cancel
  BY <1>5, PageStep
<1>7. jobs' = jobs \/ \E r \in JobRow : r.status = "queued" /\ jobs' = Append(jobs, r)
  <2>1. PICK r : r = [key |-> k.key, profile |-> form.profile, status |-> "queued"]
    OBVIOUS
  <2>2. k.key \in Nat \cup {Nil} /\ form.profile \in Profile
    BY <1>4 DEF PrepInv, PrepTyped, FormRecord, FormFields
  <2>3. r \in JobRow /\ r.status = "queued"
    BY <2>1, <2>2 DEF JobRow
  <2>4. jobs' = jobs \/ jobs' = Append(jobs, r)
    BY <1>3, <2>1 DEF Preparation!transcription
  <2> QED BY <2>3, <2>4
<1>8. jobs' \in Seq(JobRow) /\ (NoneRuns => NoneRuns')
  <2>1. jobs \in Seq(JobRow)
    BY DEF PrepInv, PrepTyped
  <2>2. CASE jobs' = jobs
    BY <2>1, <2>2 DEF NoneRuns
  <2>3. CASE \E r \in JobRow : r.status = "queued" /\ jobs' = Append(jobs, r)
    BY <2>1, <2>3 DEF NoneRuns
  <2> QED BY <1>7, <2>2, <2>3
<1>9. PrepTyped' /\ Fenced'
  BY <1>1, <1>6, <1>8 DEF PrepInv, PrepTyped, Fenced
<1>10. Gated'
  BY <1>1, <1>2, <1>6, <1>8 DEF PrepInv, Gated
<1> QED BY <1>9, <1>10 DEF PrepInv

LEMMA FormWishesCancel == ASSUME PrepInv, Preparation!cancelActivePreparation PROVE PrepInv'
<1>1. /\ UNCHANGED <<prep, thread, machine, dispatch, runner, jobs, other>>
      /\ Preparation!Page([form EXCEPT !.cancel = form.shown.op])
      /\ asked' = asked \cup {form.shown.op}
  BY DEF Preparation!cancelActivePreparation, Preparation!Agent
<1>2. PICK f : f = [form EXCEPT !.cancel = form.shown.op]
  OBVIOUS
<1>3. f \in FormRecord /\ f.pc = form.pc /\ f.cancel = form.shown.op
  BY <1>2 DEF PrepInv, PrepTyped, FormRecord, FormFields, PrepRecord, PrepFields
<1>4. form' \in FormRecord /\ form'.pc = form.pc /\ form'.cancel = form.shown.op
  BY <1>1, <1>2, <1>3, PageStep
<1>5. PrepTyped'
  BY <1>1, <1>4 DEF PrepInv, PrepTyped
<1>6. Fenced'
  BY <1>1, <1>4 DEF PrepInv, Fenced
<1>7. Gated'
  BY <1>1, <1>4 DEF PrepInv, Gated, NoneRuns, NoneWaits
<1> QED BY <1>5, <1>6, <1>7 DEF PrepInv

LEMMA FormCancels == ASSUME PrepInv, Preparation!cancelPreparation PROVE PrepInv'
<1>1. /\ UNCHANGED <<prep, machine, dispatch, runner, jobs, other, asked>>
      /\ Preparation!request_cancel(form.cancel)
      /\ Preparation!Page([form EXCEPT !.cancel = Nil, !.shown = prep])
      /\ form.cancel # Nil
  BY DEF Preparation!cancelPreparation
<1>2. PICK f : f = [form EXCEPT !.cancel = Nil, !.shown = prep]
  OBVIOUS
<1>3. f \in FormRecord /\ f.pc = form.pc /\ f.cancel = Nil
  BY <1>2 DEF PrepInv, PrepTyped, FormRecord, FormFields
<1>4. form' \in FormRecord /\ form'.pc = form.pc /\ form'.cancel = Nil
  BY <1>1, <1>2, <1>3, PageStep
<1>5. form.cancel \in asked' /\ asked \subseteq asked'
  BY <1>1 DEF PrepInv, Fenced
<1>6. /\ thread' \in ThreadRecord
      /\ thread'.cancel => thread'.op \in asked'
      /\ thread'.op = thread.op /\ thread'.pc = thread.pc
  BY <1>1, <1>5, CancelReaches
<1>7. PrepTyped'
  BY <1>1, <1>4, <1>6 DEF PrepInv, PrepTyped
<1>8. Fenced'
  BY <1>1, <1>4, <1>6 DEF PrepInv, Fenced
<1>9. Gated'
  BY <1>1, <1>4 DEF PrepInv, Gated, NoneRuns, NoneWaits
<1> QED BY <1>7, <1>8, <1>9 DEF PrepInv

LEMMA PreparationBegins == ASSUME PreparationInstance, Preparation!Init PROVE PrepInv
<1>1. /\ prep = Preparation!Idle /\ thread = Preparation!NoThread /\ jobs = <<>> /\ other = Nil
      /\ machine = [ready |-> {}, runtime |-> "old", ops |-> 0]
      /\ form = Preparation!Fresh /\ runner = "idle"
  BY DEF Preparation!Init
<1>2. prep \in PrepRecord /\ ~ prep.active
  BY <1>1, IdleRecord DEF Preparation!Idle
<1>3. thread \in ThreadRecord /\ ~ thread.cancel
  BY <1>1, NoThreadRecord
<1>4. form \in FormRecord /\ form.pc = "idle" /\ form.cancel = Nil
  <2>1. PICK q : q = CHOOSE p \in Profile : TRUE
    OBVIOUS
  <2>2. q \in Profile
    BY <2>1 DEF PreparationInstance
  <2>3. PICK i \in PrepRecord : i = Preparation!Idle
    BY IdleRecord
  <2>4. form = [pc |-> "idle", profile |-> q, staged |-> FALSE, shown |-> i,
                observed |-> i, key |-> Nil, of |-> Nil, keys |-> 0, cancel |-> Nil]
    BY <1>1, <2>1, <2>3 DEF Preparation!Fresh
  <2> QED BY <2>2, <2>4 DEF FormRecord, FormFields
<1>5. PrepTyped
  BY <1>1, <1>2, <1>3, <1>4 DEF PrepTyped
<1>6. Fenced
  BY <1>2, <1>3, <1>4 DEF Fenced
<1>7. Gated
  BY <1>1, <1>2, <1>4 DEF Gated
<1> QED BY <1>5, <1>6, <1>7 DEF PrepInv

\* Each step of the Agent, of the form and of the other tab keeps the invariant.
LEMMA PreparationStep ==
  ASSUME PreparationInstance, PrepInv, [Preparation!Next]_Preparation!vars
  PROVE  PrepInv'
<1>1. CASE UNCHANGED Preparation!vars
  <2>1. PrepTyped'
    BY <1>1 DEF Preparation!vars, PrepInv, PrepTyped
  <2>2. Fenced'
    BY <1>1 DEF Preparation!vars, PrepInv, Fenced
  <2>3. Gated'
    BY <1>1 DEF Preparation!vars, PrepInv, Gated, NoneRuns, NoneWaits
  <2> QED BY <2>1, <2>2, <2>3 DEF PrepInv
<1>2. CASE Preparation!Next
  BY <1>2, PreparationChecks, PreparationInstalls, PreparationUnwinds, PreparationRestarts, WorkerLooks,
     WorkerClaims, WorkerEnds, OtherPrepares, OtherStarts, OtherCancels, FormTurns, FormAsks,
     FormPrepares, FormStarts, FormSubmits, FormWishesCancel, FormCancels DEF Preparation!Next
<1> QED BY <1>1, <1>2

(* The invariant of a preparation holds for every number of profiles,      *)
(* preparations, jobs and faults.                                          *)
THEOREM PreparationInvariant == ASSUME PreparationInstance PROVE Preparation!Spec => []PrepInv
<1>1. Preparation!Init => PrepInv
  BY PreparationBegins
<1>2. PrepInv /\ [Preparation!Next]_Preparation!vars => PrepInv'
  BY PreparationStep
<1> QED BY <1>1, <1>2, PTL DEF Preparation!Spec

(* No job runs while a profile is being prepared: the queue worker looks   *)
(* at the preparation, and a request for one at the jobs, while they hold  *)
(* the gate until their own has begun.                                     *)
THEOREM NoContention == ASSUME PreparationInstance PROVE Preparation!Spec => []Preparation!NoContention
<1>1. PrepInv => Preparation!NoContention
  BY DEF PrepInv, Gated, NoneRuns, Preparation!NoContention
<1> QED BY <1>1, PreparationInvariant, PTL

(* An operation whose thread is told to stop is one that somebody asked to *)
(* cancel: a late request does not reach the preparation that followed.    *)
THEOREM CancelIsFenced == ASSUME PreparationInstance PROVE Preparation!Spec => []Preparation!CancelIsFenced
<1>1. PrepInv => Preparation!CancelIsFenced
  BY DEF PrepInv, Fenced, Preparation!CancelIsFenced
<1> QED BY <1>1, PreparationInvariant, PTL
=============================================================================

---------------------------- MODULE LocalBridge ----------------------------
(***************************************************************************)
(* How the page talks to the Agent: one token for the whole page, calls    *)
(* that share it, and a new token when the Agent no longer knows the old   *)
(* one.  The Agent keeps its sessions in memory.  A request that left the  *)
(* page may be handled after the call that sent it has given up.           *)
(***************************************************************************)
EXTENDS Integers, FiniteSets

CONSTANTS
  Caller,      \* the calls of the page
  Nil,         \* no value
  MaxToken,    \* bound on the tokens the Agent issues
  MaxSessions, \* sessions the Agent keeps
  MaxBreak     \* bound on restarts, expiries and changes of the pairing

VARIABLES
  agent,       \* its sessions, how many it issued, its master key, its version
  bridge,      \* the token of the page, how it was obtained, the user's wish,
               \*  and who paired the page when it was not
  callers,     \* the calls
  mail,        \* requests on their way to the Agent
  breaks       \* how often something was interrupted

vars == <<agent, bridge, callers, mail, breaks>>

Token == 1 .. MaxToken
Legacy == 0
Owner == {"controller", "form", "cancel"}
Endpoint == {"json", "review", "upload"}
Size == {0, 4096, 4097, 33554433}

Limit == [json |-> 4096, review |-> 33554432, upload |-> 33554433]

Unused ==
  [pc |-> "unused", owner |-> Nil, endpoint |-> Nil, size |-> 0, aborted |-> FALSE,
   tries |-> 0, answer |-> Nil, result |-> Nil, applied |-> 0]

Init ==
  /\ agent = [sessions |-> {}, issued |-> 0, automatic |-> TRUE]
  /\ bridge = [token |-> Nil, mode |-> "none", wanted |-> FALSE, by |-> Nil]
  /\ callers = [c \in Caller |-> Unused]
  /\ mail = {}
  /\ breaks = 0

Breaks == breaks < MaxBreak /\ breaks' = breaks + 1

With(c, rec) == callers' = [callers EXCEPT ![c] = rec]
End(c, result) == [callers[c] EXCEPT !.pc = "done", !.result = result]

-----------------------------------------------------------------------------
(* The Agent and the user. *)
Restart ==
  /\ Breaks
  /\ \E automatic \in BOOLEAN :
       agent' = [agent EXCEPT !.sessions = {}, !.automatic = automatic]
  /\ UNCHANGED <<bridge, callers, mail>>

Expire(t) ==
  /\ Breaks
  /\ t \in agent.sessions
  /\ agent' = [agent EXCEPT !.sessions = @ \ {t}]
  /\ UNCHANGED <<bridge, callers, mail>>

(* What the page aborts with its pairing: the calls of the controller, and *)
(* those of the form, whose effects end when the page is no longer paired. *)
(* The cancellation of a preparation has a signal of its own.              *)
Abort(S) == callers' = [c \in Caller |->
  IF callers[c].owner \in S THEN [callers[c] EXCEPT !.aborted = TRUE] ELSE callers[c]]

disconnect ==
  /\ Breaks
  /\ bridge.mode # "none"
  /\ Abort({"controller", "form"})
  /\ bridge' = [token |-> Nil, mode |-> "none", wanted |-> FALSE, by |-> Nil]
  /\ UNCHANGED <<agent, mail>>

(* pair: the key the user typed. *)
pair ==
  /\ Breaks
  /\ bridge.mode = "none"
  /\ Abort({"controller"})
  /\ bridge' = [token |-> Legacy, mode |-> "legacy", wanted |-> TRUE, by |-> "user"]
  /\ UNCHANGED <<agent, mail>>

(* connect without a key: the bootstrap is a call of its own. *)
connect(c) ==
  /\ Breaks
  /\ bridge.mode = "none" /\ callers[c].pc = "unused"
  /\ bridge' = [bridge EXCEPT !.wanted = TRUE]
  /\ callers' = [d \in Caller |->
       IF d = c THEN [Unused EXCEPT !.pc = "health", !.owner = "controller",
                                    !.endpoint = "session", !.tries = 1]
       ELSE IF callers[d].owner = "controller" THEN [callers[d] EXCEPT !.aborted = TRUE]
       ELSE callers[d]]
  /\ UNCHANGED <<agent, mail>>

-----------------------------------------------------------------------------
(* One try: the token as it is now, and a body within the limit. *)
Request(c, try, token) == [call |-> c, try |-> try, token |-> token]

Try(c, rec) ==
  IF bridge.token = Nil
    THEN /\ With(c, [rec EXCEPT !.pc = "done", !.result = "unauthorized"])
         /\ UNCHANGED mail
    ELSE IF rec.size > Limit[rec.endpoint]
    THEN /\ With(c, [rec EXCEPT !.pc = "done", !.result = "payload_too_large"])
         /\ UNCHANGED mail
    ELSE /\ With(c, [rec EXCEPT !.pc = "sent", !.tries = @ + 1, !.answer = Nil])
         /\ mail' = mail \cup {Request(c, rec.tries + 1, bridge.token)}

(* The calls that show something start only on a page that is paired. *)
Call(c) ==
  \E owner \in Owner, endpoint \in Endpoint, size \in Size :
    /\ callers[c].pc = "unused" /\ bridge.token # Nil
    /\ owner = "cancel" => endpoint = "json" /\ size = 4096
    /\ owner = "controller" => endpoint # "upload"
    /\ owner = "form" => endpoint # "review"
    /\ Try(c, [Unused EXCEPT !.owner = owner, !.endpoint = endpoint, !.size = size])
    /\ UNCHANGED <<agent, bridge, breaks>>

Authorized(token) == token = Legacy \/ token \in agent.sessions

(* The Agent does what it is asked, or answers that it does not know the   *)
(* token; the answer may be lost.                                          *)
Handle(q) ==
  LET rec == callers[q.call]
      waits == rec.pc = "sent" /\ rec.tries = q.try
      answer == IF Authorized(q.token) THEN "ok" ELSE "unauthorized"
  IN /\ q \in mail
     /\ mail' = mail \ {q}
     /\ \E told \in {answer, Nil} :
          With(q.call, [rec EXCEPT
            !.applied = @ + (IF Authorized(q.token) THEN 1 ELSE 0),
            !.answer = IF waits /\ told # Nil THEN told ELSE @])
     /\ UNCHANGED <<agent, bridge, breaks>>

Lose(q) ==
  /\ q \in mail
  /\ mail' = mail \ {q}
  /\ UNCHANGED <<agent, bridge, callers, breaks>>

(* Only an answer that the token is unknown starts a bootstrap, once. *)
Retries(rec) ==
  rec.answer = "unauthorized" /\ bridge.mode = "browser" /\ ~rec.aborted /\ rec.tries = 1

(* The answer, the timeout of the endpoint, or the abort of its signal. *)
requestOnce(c) ==
  LET rec == callers[c]
  IN /\ rec.pc = "sent"
     /\ rec.aborted \/ rec.answer # Nil \/ breaks < MaxBreak
     /\ IF Retries(rec)
          THEN With(c, [rec EXCEPT !.pc = "health"])
          ELSE With(c, End(c, CASE rec.aborted -> "unreachable"
                                [] ~rec.aborted /\ rec.answer = Nil -> "timeout"
                                [] OTHER -> rec.answer))
     /\ breaks' = IF rec.answer = Nil /\ ~rec.aborted THEN breaks + 1 ELSE breaks
     /\ UNCHANGED <<agent, bridge, mail>>

(* bootstrap: the public health says whether this Agent has sessions. *)
Health(c) ==
  LET rec == callers[c]
  IN /\ rec.pc = "health"
     /\ \/ /\ ~rec.aborted /\ agent.automatic
           /\ With(c, [rec EXCEPT !.pc = "session"])
        \/ /\ ~rec.aborted /\ ~agent.automatic
           /\ With(c, End(c, "version_incompatible"))
        \/ /\ rec.aborted
           /\ With(c, End(c, "unreachable"))
     /\ UNCHANGED <<agent, bridge, mail, breaks>>

Oldest(S) == CHOOSE t \in S : \A u \in S : t <= u

(* issue: the oldest session makes place. *)
Issued ==
  LET kept == IF Cardinality(agent.sessions) < MaxSessions THEN agent.sessions
              ELSE agent.sessions \ {Oldest(agent.sessions)}
  IN [agent EXCEPT !.sessions = kept \cup {agent.issued + 1}, !.issued = @ + 1]

(* Mutant: the token is taken although the call was aborted. *)
PairsAnyway(rec) == TRUE

(* An aborted fetch rejects: its answer pairs nothing. *)
Pairs(rec) == ~rec.aborted

Session(c) ==
  LET rec == callers[c]
  IN /\ rec.pc = "session"
     /\ IF Pairs(rec)
          THEN /\ agent.issued < MaxToken
               /\ agent' = Issued
               /\ bridge' = [bridge EXCEPT !.token = agent.issued + 1, !.mode = "browser",
                                           !.by = IF bridge.token = Nil THEN rec.owner ELSE @]
               /\ With(c, IF rec.endpoint = "session" THEN End(c, "ok")
                          ELSE [rec EXCEPT !.pc = "again"])
          ELSE /\ With(c, End(c, "unreachable"))
               /\ UNCHANGED <<agent, bridge>>
     /\ UNCHANGED <<mail, breaks>>

(* Neither answer may come, although a session was opened. *)
Unanswered(c) ==
  /\ Breaks
  /\ callers[c].pc \in {"health", "session"} /\ ~callers[c].aborted
  /\ agent' \in (IF callers[c].pc = "session" /\ agent.issued < MaxToken
                 THEN {agent, Issued} ELSE {agent})
  /\ With(c, End(c, "timeout"))
  /\ UNCHANGED <<bridge, mail>>

(* The second try, with whatever token the page has by then. *)
Again(c) ==
  /\ callers[c].pc = "again"
  /\ IF callers[c].aborted
       THEN With(c, End(c, "unreachable")) /\ UNCHANGED mail
       ELSE Try(c, callers[c])
  /\ UNCHANGED <<agent, bridge, breaks>>

Next ==
  \/ Restart \/ disconnect \/ pair
  \/ \E t \in Token : Expire(t)
  \/ \E q \in mail : Handle(q) \/ Lose(q)
  \/ \E c \in Caller :
       connect(c) \/ Call(c) \/ requestOnce(c) \/ Health(c) \/ Session(c)
       \/ Unanswered(c) \/ Again(c)

Spec == Init /\ [][Next]_vars

-----------------------------------------------------------------------------
TypeOK ==
  /\ agent.sessions \subseteq Token /\ agent.issued \in 0 .. MaxToken
  /\ Cardinality(agent.sessions) <= MaxSessions
  /\ bridge.token \in {Nil, Legacy} \cup Token
  /\ bridge.mode = (CASE bridge.token = Nil -> "none" [] bridge.token = Legacy -> "legacy"
                      [] OTHER -> "browser")
  /\ \A c \in Caller : callers[c].tries \in 0 .. 2

(* A call is done at most once, whatever is lost or repeated: it is told   *)
(* done only if it was, and told refused only if it was not.               *)
AppliedOnce ==
  \A c \in Caller :
    LET rec == callers[c]
    IN /\ rec.applied <= 1
       /\ rec.result = "ok" /\ rec.endpoint # "session" => rec.applied = 1
       /\ rec.result \in {"unauthorized", "payload_too_large", "version_incompatible"} =>
            rec.applied = 0

(* A page its user disconnected is not paired again by a call that was     *)
(* already on its way, except the cancellation of a preparation, whose     *)
(* signal nobody aborts.                                                   *)
StaysDisconnected == ~bridge.wanted /\ bridge.token # Nil => bridge.by = "cancel"
=============================================================================

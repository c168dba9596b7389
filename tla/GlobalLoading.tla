--------------------------- MODULE GlobalLoading ---------------------------
(***************************************************************************)
(* The overlay that covers the page while something is waited for.  Each   *)
(* wait holds a token: components, events of the window, forms that are    *)
(* sent, and an observer that looks for busy elements whenever the page    *)
(* changes - the overlay is one of them.  The overlay appears after a      *)
(* delay and goes after an exit; both timers race with what begins and     *)
(* ends meanwhile.                                                         *)
(***************************************************************************)
EXTENDS Naturals, FiniteSets

CONSTANTS
  Component,  \* callers of begin, run and useGlobalLoadingFlag
  Event,      \* ids of beginGlobalLoadingEvent
  Element,    \* elements that may be busy
  Quiet,      \* those inside data-global-loading="off"
  Nil

VARIABLES
  mounted,    \* the provider is there and its listeners too
  tokens,     \* who holds one
  phase, showTimer, hideTimer,
  waiting,    \* the callers whose wait goes on
  busy,       \* the elements that are marked busy now
  changed,    \* the page changed and the observer was not called yet
  sent        \* a form was sent, and the browser still shows this document

vars == <<mounted, tokens, phase, showTimer, hideTimer, waiting, busy, changed, sent>>
loader == <<tokens, phase, showTimer, hideTimer>>

Caller == Component \cup Event
Overlay == "overlay"
Observer == "observer"
Form == "form"

TypeOK ==
  /\ {mounted, showTimer, hideTimer, changed, sent} \subseteq BOOLEAN
  /\ tokens \subseteq Caller \cup {Observer, Form}
  /\ phase \in {"hidden", "active", "leaving"}
  /\ waiting \subseteq Caller /\ busy \subseteq Element
  /\ ~ mounted => tokens = {} /\ phase = "hidden"

Empty == tokens = {} /\ phase = "hidden" /\ showTimer = FALSE /\ hideTimer = FALSE
Init == /\ mounted = FALSE /\ Empty /\ waiting = {} /\ busy \in SUBSET Element
        /\ changed = FALSE /\ sent = FALSE

-----------------------------------------------------------------------------
(* Mutant: what begins during the exit leaves the timer of the exit. *)
beginLeavesTimer(t, immediate) ==
  LET shows == phase # "hidden" \/ immediate IN
  /\ tokens' = tokens \cup {t}
  /\ phase' = IF shows THEN "active" ELSE "hidden"
  /\ showTimer' = ~ shows
  /\ UNCHANGED hideTimer

(* begin: what leaves comes back at once; what is hidden, after a delay    *)
(* unless it is immediate.                                                 *)
begin(t, immediate) ==
  LET shows == phase # "hidden" \/ immediate IN
  /\ tokens' = tokens \cup {t}
  /\ phase' = IF shows THEN "active" ELSE "hidden"
  /\ showTimer' = ~ shows
  /\ hideTimer' = FALSE

(* What begin answers, and finishWhenIdle: a token is given back once, and *)
(* the last one starts the exit.                                           *)
stop(t) ==
  LET last == t \in tokens /\ tokens \ {t} = {} IN
  /\ tokens' = tokens \ {t}
  /\ showTimer' = (showTimer /\ ~ last)
  /\ phase' = IF last /\ phase # "hidden" THEN "leaving" ELSE phase
  /\ hideTimer' = (hideTimer \/ (last /\ phase # "hidden"))

(* The overlay that comes or goes is a change of the page. *)
Redrawn == changed' = (changed \/ phase' # phase)

Show ==
  /\ showTimer /\ showTimer' = FALSE /\ hideTimer' = FALSE
  /\ phase' = IF tokens = {} THEN phase ELSE "active"
  /\ Redrawn
  /\ UNCHANGED <<mounted, tokens, waiting, busy, sent>>

Hide ==
  /\ hideTimer /\ hideTimer' = FALSE
  /\ phase' = IF tokens = {} THEN "hidden" ELSE phase
  /\ Redrawn
  /\ UNCHANGED <<mounted, tokens, showTimer, waiting, busy, sent>>

-----------------------------------------------------------------------------
(* run, useGlobalLoadingFlag, GlobalRouteLoading: they begin once and stop *)
(* when the operation settles, the flag falls or the component goes.       *)
Begin(c) ==
  /\ mounted /\ c \in Component \ waiting
  /\ \E immediate \in BOOLEAN : begin(c, immediate)
  /\ waiting' = waiting \cup {c} /\ Redrawn
  /\ UNCHANGED <<mounted, busy, sent>>

(* beginGlobalLoadingEvent, onStart: nobody listens before the provider. *)
Emit(e) ==
  /\ e \in Event \ waiting /\ waiting' = waiting \cup {e}
  /\ IF mounted THEN begin(e, FALSE) ELSE UNCHANGED loader
  /\ Redrawn
  /\ UNCHANGED <<mounted, busy, sent>>

(* The end of a wait; onStop knows no event that began before it listened. *)
Stop(c) ==
  /\ c \in waiting /\ waiting' = waiting \ {c}
  /\ stop(c) /\ Redrawn
  /\ UNCHANGED <<mounted, busy, sent>>

(* GlobalFormLoadingBridge: it begins and leaves the end to the browser.   *)
SubmitForm ==
  /\ mounted /\ ~ sent /\ sent' = TRUE /\ begin(Form, FALSE) /\ Redrawn
  /\ UNCHANGED <<mounted, waiting, busy>>

(* The next document: everything starts anew.                              *)
Navigate ==
  /\ sent /\ sent' = FALSE /\ mounted' = FALSE /\ changed' = FALSE
  /\ tokens' = {} /\ phase' = "hidden" /\ showTimer' = FALSE /\ hideTimer' = FALSE
  /\ waiting' = {} /\ busy' \in SUBSET Element

-----------------------------------------------------------------------------
(* Elements become busy and free, whoever owns them. *)
Mark ==
  /\ \E e \in Element : busy' = IF e \in busy THEN busy \ {e} ELSE busy \cup {e}
  /\ changed' = mounted
  /\ UNCHANGED <<mounted, loader, waiting, sent>>

(* What BUSY_SELECTOR finds, without what is inside "off"; the overlay is  *)
(* marked busy, and "off".                                                 *)
hasBlockingBusyElement ==
  LET found == IF phase = "hidden" THEN busy ELSE busy \cup {Overlay}
  IN found \ (Quiet \cup {Overlay}) # {}

syncBusyState ==
  IF hasBlockingBusyElement /\ Observer \notin tokens THEN begin(Observer, FALSE)
  ELSE IF ~ hasBlockingBusyElement /\ Observer \in tokens THEN stop(Observer)
  ELSE UNCHANGED loader

(* The observer is called after the changes, and sees what there is then.  *)
Observe ==
  /\ mounted /\ changed /\ syncBusyState
  /\ changed' = (phase' # phase)
  /\ UNCHANGED <<mounted, waiting, busy, sent>>

(* The provider's effects: they listen, and look once. *)
Mount ==
  /\ ~ mounted /\ mounted' = TRUE
  /\ syncBusyState /\ Redrawn
  /\ UNCHANGED <<waiting, busy, sent>>

(* The provider goes, with the components under it. *)
Unmount ==
  /\ mounted /\ mounted' = FALSE /\ changed' = FALSE
  /\ tokens' = {} /\ phase' = "hidden" /\ showTimer' = FALSE /\ hideTimer' = FALSE
  /\ waiting' = waiting \cap Event
  /\ UNCHANGED <<busy, sent>>

Next == \/ \E c \in Component : Begin(c)
        \/ \E e \in Event : Emit(e)
        \/ \E c \in Caller : Stop(c)
        \/ Show \/ Hide \/ SubmitForm \/ Navigate \/ Mark \/ Observe \/ Mount \/ Unmount
Spec == Init /\ [][Next]_vars

-----------------------------------------------------------------------------
(* While anybody waits the page is covered, or will be when the delay is   *)
(* over; when nobody waits it is free, or will be when the exit is over.   *)
CoveredWhileWaiting ==
  /\ phase = "active" => tokens # {}
  /\ tokens # {} => phase = "active" \/ (phase = "hidden" /\ showTimer)
  /\ showTimer => phase = "hidden" /\ tokens # {}
  /\ hideTimer <=> phase = "leaving"

(* What covers the page is a wait that goes on: a caller's, or that of an  *)
(* element that is busy and not kept out - never the overlay's own.  Only  *)
(* a form gives its token back to nobody.                                  *)
TokensHaveOwners ==
  /\ tokens \cap Caller \subseteq waiting
  /\ Observer \in tokens => changed \/ busy \ Quiet # {}
  /\ mounted /\ busy \ Quiet # {} /\ ~ changed => Observer \in tokens
=============================================================================

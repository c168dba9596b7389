-------------------------- MODULE ComponentProofs ---------------------------
(***************************************************************************)
(* What is proved of the components holds of the instances that the run    *)
(* checks: each theorem here states a property of that run, from the       *)
(* theorems about the component for every value of its constants.          *)
(***************************************************************************)
EXTENDS MCComponents, TLAPS

At(c) == focus = c

\* The component under check is the same in every step.
LEMMA Stays ==
  ASSUME NEW c PROVE [Next]_slots => (At(c) => At(c)') /\ (~ At(c) => ~ At(c)')
BY DEF Next, slots, At

\* While a component is in focus, the run takes its steps and no others.
LEMMA FocusPublication ==
  /\ At("Publication") /\ [Next]_slots => [Publication!Next]_(Publication!vars)
  /\ [Next]_slots =>
         /\ (At("Publication") => At("Publication")')
         /\ (~ At("Publication") => ~ At("Publication")')
  /\ Init /\ At("Publication") => Publication!Init
<1>1. At("Publication") /\ [Next]_slots => [Publication!Next]_(Publication!vars)
  BY DEF Next, slots, Publication!vars, At
<1>2. [Next]_slots =>
          /\ (At("Publication") => At("Publication")')
          /\ (~ At("Publication") => ~ At("Publication")')
  BY Stays
<1>3. Init /\ At("Publication") => Publication!Init
  BY DEF Init, At
<1> QED BY <1>1, <1>2, <1>3

LEMMA FocusFence ==
  /\ At("Fence") /\ [Next]_slots => [Fence!Next]_(Fence!vars)
  /\ [Next]_slots => (At("Fence") => At("Fence")') /\ (~ At("Fence") => ~ At("Fence")')
  /\ Init /\ At("Fence") => Fence!Init
<1>1. At("Fence") /\ [Next]_slots => [Fence!Next]_(Fence!vars)
  BY DEF Next, slots, Fence!vars, At
<1>2. [Next]_slots => (At("Fence") => At("Fence")') /\ (~ At("Fence") => ~ At("Fence")')
  BY Stays
<1>3. Init /\ At("Fence") => Fence!Init
  BY DEF Init, At
<1> QED BY <1>1, <1>2, <1>3

LEMMA FocusComparison ==
  /\ At("Comparison") /\ [Next]_slots => [Comparison!Next]_(Comparison!vars)
  /\ [Next]_slots =>
         /\ (At("Comparison") => At("Comparison")')
         /\ (~ At("Comparison") => ~ At("Comparison")')
  /\ Init /\ At("Comparison") => Comparison!Init
<1>1. At("Comparison") /\ [Next]_slots => [Comparison!Next]_(Comparison!vars)
  BY DEF Next, slots, Comparison!vars, At
<1>2. [Next]_slots =>
          /\ (At("Comparison") => At("Comparison")')
          /\ (~ At("Comparison") => ~ At("Comparison")')
  BY Stays
<1>3. Init /\ At("Comparison") => Comparison!Init
  BY DEF Init, At
<1> QED BY <1>1, <1>2, <1>3

LEMMA FocusCanon ==
  /\ At("Canon") /\ [Next]_slots => [Canon!Next]_(Canon!vars)
  /\ [Next]_slots => (At("Canon") => At("Canon")') /\ (~ At("Canon") => ~ At("Canon")')
  /\ Init /\ At("Canon") => Canon!Init
<1>1. At("Canon") /\ [Next]_slots => [Canon!Next]_(Canon!vars)
  BY DEF Next, slots, Canon!vars, At
<1>2. [Next]_slots => (At("Canon") => At("Canon")') /\ (~ At("Canon") => ~ At("Canon")')
  BY Stays
<1>3. Init /\ At("Canon") => Canon!Init
  BY DEF Init, At
<1> QED BY <1>1, <1>2, <1>3

LEMMA FocusLoading ==
  /\ At("Loading") /\ [Next]_slots => [Loading!Next]_(Loading!vars)
  /\ [Next]_slots => (At("Loading") => At("Loading")') /\ (~ At("Loading") => ~ At("Loading")')
  /\ Init /\ At("Loading") => Loading!Init
<1>1. At("Loading") /\ [Next]_slots => [Loading!Next]_(Loading!vars)
  BY DEF Next, slots, Loading!vars, At
<1>2. [Next]_slots => (At("Loading") => At("Loading")') /\ (~ At("Loading") => ~ At("Loading")')
  BY Stays
<1>3. Init /\ At("Loading") => Loading!Init
  BY DEF Init, At
<1> QED BY <1>1, <1>2, <1>3

LEMMA FocusEditor ==
  /\ At("Editor") /\ [Next]_slots => [Editor!Next]_(Editor!vars)
  /\ [Next]_slots => (At("Editor") => At("Editor")') /\ (~ At("Editor") => ~ At("Editor")')
  /\ Init /\ At("Editor") => Editor!Init
<1>1. At("Editor") /\ [Next]_slots => [Editor!Next]_(Editor!vars)
  BY DEF Next, slots, Editor!vars, At
<1>2. [Next]_slots => (At("Editor") => At("Editor")') /\ (~ At("Editor") => ~ At("Editor")')
  BY Stays
<1>3. Init /\ At("Editor") => Editor!Init
  BY DEF Init, At
<1> QED BY <1>1, <1>2, <1>3

LEMMA FocusSegment ==
  /\ At("Segment") /\ [Next]_slots => [Segment!Next]_(Segment!vars)
  /\ [Next]_slots => (At("Segment") => At("Segment")') /\ (~ At("Segment") => ~ At("Segment")')
  /\ Init /\ At("Segment") => Segment!Init
<1>1. At("Segment") /\ [Next]_slots => [Segment!Next]_(Segment!vars)
  BY DEF Next, slots, Segment!vars, At
<1>2. [Next]_slots => (At("Segment") => At("Segment")') /\ (~ At("Segment") => ~ At("Segment")')
  BY Stays
<1>3. Init /\ At("Segment") => Segment!Init
  BY DEF Init, At
<1> QED BY <1>1, <1>2, <1>3

LEMMA FocusWorld ==
  /\ At("World") /\ [Next]_slots => [World!Next]_(World!vars)
  /\ [Next]_slots => (At("World") => At("World")') /\ (~ At("World") => ~ At("World")')
  /\ Init /\ At("World") => World!Init
<1>1. At("World") /\ [Next]_slots => [World!Next]_(World!vars)
  BY DEF Next, slots, World!vars, At
<1>2. [Next]_slots => (At("World") => At("World")') /\ (~ At("World") => ~ At("World")')
  BY Stays
<1>3. Init /\ At("World") => World!Init
  BY DEF Init, At
<1> QED BY <1>1, <1>2, <1>3

LEMMA FocusMedia ==
  /\ At("Media") /\ [Next]_slots => [Media!Next]_(Media!vars)
  /\ [Next]_slots => (At("Media") => At("Media")') /\ (~ At("Media") => ~ At("Media")')
  /\ Init /\ At("Media") => Media!Init
<1>1. At("Media") /\ [Next]_slots => [Media!Next]_(Media!vars)
  BY DEF Next, slots, Media!vars, At
<1>2. [Next]_slots => (At("Media") => At("Media")') /\ (~ At("Media") => ~ At("Media")')
  BY Stays
<1>3. Init /\ At("Media") => Media!Init
  BY DEF Init, At
<1> QED BY <1>1, <1>2, <1>3

LEMMA FocusAuthoring ==
  /\ At("Authoring") /\ [Next]_slots => [Authoring!Next]_(Authoring!vars)
  /\ [Next]_slots =>
         /\ (At("Authoring") => At("Authoring")')
         /\ (~ At("Authoring") => ~ At("Authoring")')
  /\ Init /\ At("Authoring") => Authoring!Init
<1>1. At("Authoring") /\ [Next]_slots => [Authoring!Next]_(Authoring!vars)
  BY DEF Next, slots, Authoring!vars, At
<1>2. [Next]_slots =>
          /\ (At("Authoring") => At("Authoring")')
          /\ (~ At("Authoring") => ~ At("Authoring")')
  BY Stays
<1>3. Init /\ At("Authoring") => Authoring!Init
  BY DEF Init, At
<1> QED BY <1>1, <1>2, <1>3

LEMMA FocusContent ==
  /\ At("Content") /\ [Next]_slots => [Content!Next]_(Content!vars)
  /\ [Next]_slots => (At("Content") => At("Content")') /\ (~ At("Content") => ~ At("Content")')
  /\ Init /\ At("Content") => Content!Init
<1>1. At("Content") /\ [Next]_slots => [Content!Next]_(Content!vars)
  BY DEF Next, slots, Content!vars, At
<1>2. [Next]_slots => (At("Content") => At("Content")') /\ (~ At("Content") => ~ At("Content")')
  BY Stays
<1>3. Init /\ At("Content") => Content!Init
  BY DEF Init, At
<1> QED BY <1>1, <1>2, <1>3

LEMMA FocusLembra ==
  /\ At("Lembra") /\ [Next]_slots => [Lembra!Next]_(Lembra!vars)
  /\ [Next]_slots => (At("Lembra") => At("Lembra")') /\ (~ At("Lembra") => ~ At("Lembra")')
  /\ Init /\ At("Lembra") => Lembra!Init
<1>1. At("Lembra") /\ [Next]_slots => [Lembra!Next]_(Lembra!vars)
  BY DEF Next, slots, Lembra!vars, At
<1>2. [Next]_slots => (At("Lembra") => At("Lembra")') /\ (~ At("Lembra") => ~ At("Lembra")')
  BY Stays
<1>3. Init /\ At("Lembra") => Lembra!Init
  BY DEF Init, At
<1> QED BY <1>1, <1>2, <1>3

LEMMA FocusBridge ==
  /\ At("Bridge") /\ [Next]_slots => [Bridge!Next]_(Bridge!vars)
  /\ [Next]_slots => (At("Bridge") => At("Bridge")') /\ (~ At("Bridge") => ~ At("Bridge")')
  /\ Init /\ At("Bridge") => Bridge!Init
<1>1. At("Bridge") /\ [Next]_slots => [Bridge!Next]_(Bridge!vars)
  BY DEF Next, slots, Bridge!vars, At
<1>2. [Next]_slots => (At("Bridge") => At("Bridge")') /\ (~ At("Bridge") => ~ At("Bridge")')
  BY Stays
<1>3. Init /\ At("Bridge") => Bridge!Init
  BY DEF Init, At
<1> QED BY <1>1, <1>2, <1>3

LEMMA FocusStaging ==
  /\ At("Staging") /\ [Next]_slots => [Staging!Next]_(Staging!vars)
  /\ [Next]_slots => (At("Staging") => At("Staging")') /\ (~ At("Staging") => ~ At("Staging")')
  /\ Init /\ At("Staging") => Staging!Init
<1>1. At("Staging") /\ [Next]_slots => [Staging!Next]_(Staging!vars)
  BY DEF Next, slots, Staging!vars, At
<1>2. [Next]_slots => (At("Staging") => At("Staging")') /\ (~ At("Staging") => ~ At("Staging")')
  BY Stays
<1>3. Init /\ At("Staging") => Staging!Init
  BY DEF Init, At
<1> QED BY <1>1, <1>2, <1>3

LEMMA FocusStagingCrash ==
  /\ At("StagingCrash") /\ [Next]_slots => [StagingCrash!Next]_(StagingCrash!vars)
  /\ [Next]_slots =>
         /\ (At("StagingCrash") => At("StagingCrash")')
         /\ (~ At("StagingCrash") => ~ At("StagingCrash")')
  /\ Init /\ At("StagingCrash") => StagingCrash!Init
<1>1. At("StagingCrash") /\ [Next]_slots => [StagingCrash!Next]_(StagingCrash!vars)
  BY DEF Next, slots, StagingCrash!vars, At
<1>2. [Next]_slots =>
          /\ (At("StagingCrash") => At("StagingCrash")')
          /\ (~ At("StagingCrash") => ~ At("StagingCrash")')
  BY Stays
<1>3. Init /\ At("StagingCrash") => StagingCrash!Init
  BY DEF Init, At
<1> QED BY <1>1, <1>2, <1>3

LEMMA FocusInstallation ==
  /\ At("Installation") /\ [Next]_slots => [Installation!Next]_(Installation!vars)
  /\ [Next]_slots =>
         /\ (At("Installation") => At("Installation")')
         /\ (~ At("Installation") => ~ At("Installation")')
  /\ Init /\ At("Installation") => Installation!Init
<1>1. At("Installation") /\ [Next]_slots => [Installation!Next]_(Installation!vars)
  BY DEF Next, slots, Installation!vars, At
<1>2. [Next]_slots =>
          /\ (At("Installation") => At("Installation")')
          /\ (~ At("Installation") => ~ At("Installation")')
  BY Stays
<1>3. Init /\ At("Installation") => Installation!Init
  BY DEF Init, At
<1> QED BY <1>1, <1>2, <1>3

LEMMA FocusRemoval ==
  /\ At("Removal") /\ [Next]_slots => [Removal!Next]_(Removal!vars)
  /\ [Next]_slots => (At("Removal") => At("Removal")') /\ (~ At("Removal") => ~ At("Removal")')
  /\ Init /\ At("Removal") => Removal!Init
<1>1. At("Removal") /\ [Next]_slots => [Removal!Next]_(Removal!vars)
  BY DEF Next, slots, Removal!vars, At
<1>2. [Next]_slots => (At("Removal") => At("Removal")') /\ (~ At("Removal") => ~ At("Removal")')
  BY Stays
<1>3. Init /\ At("Removal") => Removal!Init
  BY DEF Init, At
<1> QED BY <1>1, <1>2, <1>3

LEMMA FocusPreparation ==
  /\ At("Preparation") /\ [Next]_slots => [Preparation!Next]_(Preparation!vars)
  /\ [Next]_slots =>
         /\ (At("Preparation") => At("Preparation")')
         /\ (~ At("Preparation") => ~ At("Preparation")')
  /\ Init /\ At("Preparation") => Preparation!Init
<1>1. At("Preparation") /\ [Next]_slots => [Preparation!Next]_(Preparation!vars)
  BY DEF Next, slots, Preparation!vars, At
<1>2. [Next]_slots =>
          /\ (At("Preparation") => At("Preparation")')
          /\ (~ At("Preparation") => ~ At("Preparation")')
  BY Stays
<1>3. Init /\ At("Preparation") => Preparation!Init
  BY DEF Init, At
<1> QED BY <1>1, <1>2, <1>3

LEMMA FocusPreparationFaults ==
  /\ At("PreparationFaults") /\ [Next]_slots => [PreparationFaults!Next]_(PreparationFaults!vars)
  /\ [Next]_slots =>
         /\ (At("PreparationFaults") => At("PreparationFaults")')
         /\ (~ At("PreparationFaults") => ~ At("PreparationFaults")')
  /\ Init /\ At("PreparationFaults") => PreparationFaults!Init
<1>1. At("PreparationFaults") /\ [Next]_slots => [PreparationFaults!Next]_(PreparationFaults!vars)
  BY DEF Next, slots, PreparationFaults!vars, At
<1>2. [Next]_slots =>
          /\ (At("PreparationFaults") => At("PreparationFaults")')
          /\ (~ At("PreparationFaults") => ~ At("PreparationFaults")')
  BY Stays
<1>3. Init /\ At("PreparationFaults") => PreparationFaults!Init
  BY DEF Init, At
<1> QED BY <1>1, <1>2, <1>3

(* A committed revision is never forgotten, replaced unseen or made twice. *)
THEOREM PublicationHolds == Spec => []PublishedAsConfirmed
<1>1. Publication!Spec => [](/\ Publication!NothingForgotten
                             /\ Publication!NoBlindOverwrite
                             /\ Publication!PublishedOnce)
  <2>1. Publication!Instance
    BY InstancesAssumption
  <2> QED BY <2>1, Publication!PublicationIsKept, Publication!PublicationIsAgreed,
             Publication!PublicationIsOnce, PTL
<1>2. ASSUME At("Publication") => /\ Publication!NothingForgotten
                                  /\ Publication!NoBlindOverwrite
                                  /\ Publication!PublishedOnce
      PROVE  PublishedAsConfirmed
  BY <1>2 DEF PublishedAsConfirmed, At
<1> QED BY FocusPublication, <1>1, <1>2, PTL DEF Spec, Publication!Spec

(* With every mishap possible, a claim removes no marker but its own. *)
THEOREM FenceHolds == Spec => []RemovesOwnMarker
<1>1. Fence!Spec => []Fence!RemovesOwnMarker
  <2>1. [c \in {f1, f2, f3} |-> IF c = f1 THEN "commit" ELSE "cancel"]
          \in [{f1, f2, f3} -> Fence!Outcome]
    BY DEF Fence!Outcome
  <2>2. {"write", "fsync", "confirm", "kill", "power"} \subseteq Fence!MishapKind
    BY DEF Fence!MishapKind
  <2>3. Nil \notin Fence!Outcome
    BY RecordsAssumption
  <2> QED BY ONLY <2>1, <2>2, <2>3, Fence!FenceRemovesOwnMarker
<1>2. ASSUME At("Fence") => Fence!RemovesOwnMarker
      PROVE  RemovesOwnMarker
  BY <1>2 DEF RemovesOwnMarker, At
<1> QED BY FocusFence, <1>1, <1>2, PTL DEF Spec, Fence!Spec

-----------------------------------------------------------------------------
(* Review, editing and what is shown while work goes on. *)
Reviews == INSTANCE ReviewProofs WITH
  grants <- s1, status <- s2, canon <- s3, decisions <- s4, page <- s5, call <- s6, told <- s7,
  forms <- s8, changes <- s9, Reviewer <- {q1, q2}, Candidate <- {n1, n2},
  Declared <- [c \in {n1, n2} |-> IF c = n1 THEN <<f1, g1>> ELSE <<f2>>], Row <- {f1, f2, g1},
  Transcript <- {f1, f2},
  SessionOf <- [x \in {n1, n2, f1, f2, g1} |-> IF x \in {n1, f1, g1} THEN y1 ELSE IF x = n2 THEN y1 ELSE y2],
  Preview <- 1,
  Granted <- [r \in {q1, q2} |-> IF r = q1 THEN {"read", "transcript", "manage", "approve"} ELSE {"read", "manage"}],
  Triage <- {"rejected"}, MaxForm <- 3, MaxChange <- 1, mounted <- s1, tokens <- s2,
  phase <- s3, showTimer <- s4, hideTimer <- s5, waiting <- s6, busy <- s7, changed <- s8,
  sent <- s9, Component <- {q1, q2}, Event <- {g1}, Element <- {n1, n2}, Quiet <- {n2},
  drafts <- s1, approvals <- s2, wire <- s3, tab <- s4, Cell <- {c1}, MaxRevision <- 2,
  MaxLate <- 2, row <- s1, roles <- s2, pages <- s3, editor <- s4, calls <- s5, ops <- s6,
  history <- s7, typed <- s8, Tab <- {t1, t2}, Text <- {y1, y2, y3}, Speaker <- {n1},
  Clean <- [x \in {y1, y2, y3, n1, n2, n3} |-> IF x = y2 THEN y1 ELSE IF x = y3 THEN "blank" ELSE x],
  Player <- n2, Character <- n3, First <- y1, MaxOp <- 5, shelf <- s1, pending <- s2,
  object <- s3, favorites <- s4, references <- s5, favoriteIds <- s6, broken <- s7,
  filter <- s8, intent <- s9, viewer <- s10, saving <- s11, asks <- s12, uses <- s13,
  mishaps <- s14, chosen <- s15, doubtful <- s16, Ref <- {g1, g2}, Old <- g1,
  Opening <- [text |-> y1, file |-> f1], File <- {f1, f2}, Image <- {f1}, Caption <- {y1, y2},
  Part <- 2, MaxUse <- 6, MaxMishap <- 1, left <- s1, right <- s2, leftIndex <- s3,
  rightIndex <- s4, leftFrom <- s5, rightFrom <- s6, regions <- s7, Tolerance <- 1,
  Inputs <- Runs

(* The steps proved about there are those that are checked here. *)
LEMMA SameCanon ==
  /\ Canon!Init <=> Reviews!Canon!Init
  /\ [Canon!Next]_(Canon!vars) <=> [Reviews!Canon!Next]_(Reviews!Canon!vars)
  /\ Canon!DecidedOnce <=> Reviews!Canon!DecidedOnce
  /\ Canon!ToldIsRegistered <=> Reviews!Canon!ToldIsRegistered
  /\ Canon!CanonIsSourced <=> Reviews!Canon!CanonIsSourced
<1>1. Canon!Init <=> Reviews!Canon!Init
  BY DEF Canon!Init, Reviews!Canon!Init
<1>2. [Canon!Next]_(Canon!vars) <=> [Reviews!Canon!Next]_(Reviews!Canon!vars)
  BY DEF Canon!vars, Canon!database, Canon!Canon, Canon!Decision, Canon!Capability,
    Canon!Blank, Canon!Open, Canon!LoadAccess, Canon!Segments, Canon!Events, Canon!previewIds,
    Canon!LoadQueue, Canon!LoadFails, Canon!Needs, Canon!Submit, Canon!Action, Canon!HasSource,
    Canon!Registered, Canon!Register, Canon!Undecided, Canon!Repeated, Canon!Rpc, Canon!Answer,
    Canon!Lose, Canon!Change, Canon!Next, Reviews!Canon!vars, Reviews!Canon!database,
    Reviews!Canon!Canon, Reviews!Canon!Decision, Reviews!Canon!Capability, Reviews!Canon!Blank,
    Reviews!Canon!Open, Reviews!Canon!LoadAccess, Reviews!Canon!Segments, Reviews!Canon!Events,
    Reviews!Canon!previewIds, Reviews!Canon!LoadQueue, Reviews!Canon!LoadFails,
    Reviews!Canon!Needs, Reviews!Canon!Submit, Reviews!Canon!Action, Reviews!Canon!HasSource,
    Reviews!Canon!Registered, Reviews!Canon!Register, Reviews!Canon!Undecided,
    Reviews!Canon!Repeated, Reviews!Canon!Rpc, Reviews!Canon!Answer, Reviews!Canon!Lose,
    Reviews!Canon!Change, Reviews!Canon!Next
<1>3. Canon!DecidedOnce <=> Reviews!Canon!DecidedOnce
  BY DEF Canon!Canon, Canon!DecidedOnce, Canon!Cardinality, Reviews!Canon!Canon,
    Reviews!Canon!DecidedOnce, Reviews!Canon!Cardinality
<1>4. Canon!ToldIsRegistered <=> Reviews!Canon!ToldIsRegistered
  BY DEF Canon!Registered, Canon!ToldIsRegistered, Reviews!Canon!Registered,
    Reviews!Canon!ToldIsRegistered
<1>5. Canon!CanonIsSourced <=> Reviews!Canon!CanonIsSourced
  BY DEF Canon!Named, Canon!CanonIsSourced, Reviews!Canon!Named, Reviews!Canon!CanonIsSourced
<1> QED BY <1>1, <1>2, <1>3, <1>4, <1>5

LEMMA SameLoading ==
  /\ Loading!Init <=> Reviews!Loading!Init
  /\ [Loading!Next]_(Loading!vars) <=> [Reviews!Loading!Next]_(Reviews!Loading!vars)
  /\ Loading!CoveredWhileWaiting <=> Reviews!Loading!CoveredWhileWaiting
  /\ Loading!TokensHaveOwners <=> Reviews!Loading!TokensHaveOwners
<1>1. Loading!Init <=> Reviews!Loading!Init
  BY DEF Loading!Empty, Loading!Init, Reviews!Loading!Empty, Reviews!Loading!Init
<1>2. [Loading!Next]_(Loading!vars) <=> [Reviews!Loading!Next]_(Reviews!Loading!vars)
  BY DEF Loading!vars, Loading!loader, Loading!Caller, Loading!Overlay, Loading!Observer,
    Loading!Form, Loading!begin, Loading!stop, Loading!Redrawn, Loading!Show, Loading!Hide,
    Loading!Begin, Loading!Emit, Loading!Stop, Loading!SubmitForm, Loading!Navigate,
    Loading!Mark, Loading!hasBlockingBusyElement, Loading!syncBusyState, Loading!Observe,
    Loading!Mount, Loading!Unmount, Loading!Next, Reviews!Loading!vars, Reviews!Loading!loader,
    Reviews!Loading!Caller, Reviews!Loading!Overlay, Reviews!Loading!Observer,
    Reviews!Loading!Form, Reviews!Loading!begin, Reviews!Loading!stop, Reviews!Loading!Redrawn,
    Reviews!Loading!Show, Reviews!Loading!Hide, Reviews!Loading!Begin, Reviews!Loading!Emit,
    Reviews!Loading!Stop, Reviews!Loading!SubmitForm, Reviews!Loading!Navigate,
    Reviews!Loading!Mark, Reviews!Loading!hasBlockingBusyElement,
    Reviews!Loading!syncBusyState, Reviews!Loading!Observe, Reviews!Loading!Mount,
    Reviews!Loading!Unmount, Reviews!Loading!Next
<1>3. Loading!CoveredWhileWaiting <=> Reviews!Loading!CoveredWhileWaiting
  BY DEF Loading!CoveredWhileWaiting, Reviews!Loading!CoveredWhileWaiting
<1>4. Loading!TokensHaveOwners <=> Reviews!Loading!TokensHaveOwners
  BY DEF Loading!Caller, Loading!Observer, Loading!TokensHaveOwners, Reviews!Loading!Caller,
    Reviews!Loading!Observer, Reviews!Loading!TokensHaveOwners
<1> QED BY <1>1, <1>2, <1>3, <1>4

LEMMA SameEditor ==
  /\ Editor!Init <=> Reviews!Editor!Init
  /\ [Editor!Next]_(Editor!vars) <=> [Reviews!Editor!Next]_(Reviews!Editor!vars)
  /\ Editor!SavesWhatIsShown <=> Reviews!Editor!SavesWhatIsShown
  /\ Editor!TypedIsKept <=> Reviews!Editor!TypedIsKept
  /\ Editor!OnlyTyped <=> Reviews!Editor!OnlyTyped
  /\ Editor!CleanIsSaved <=> Reviews!Editor!CleanIsSaved
  /\ Editor!PublishableIsApproved <=> Reviews!Editor!PublishableIsApproved
<1>1. Editor!Init <=> Reviews!Editor!Init
  BY DEF Editor!Unedited, Editor!Closed, Editor!Init, Reviews!Editor!Unedited,
    Reviews!Editor!Closed, Reviews!Editor!Init
<1>2. [Editor!Next]_(Editor!vars) <=> [Reviews!Editor!Next]_(Reviews!Editor!vars)
  BY DEF Editor!vars, Editor!Mine, Editor!Theirs, Editor!Value, Editor!Status,
    Editor!unapproved, Editor!Revision, Editor!Saved, Editor!Snapshot, Editor!Unedited,
    Editor!Closed, Editor!Mounted, Editor!Open, Editor!Busy, Editor!Comparing,
    Editor!editingBlocked, Editor!Calls, Editor!Answer, Editor!Call, Editor!Adopted,
    Editor!save_review, Editor!Write, Editor!Handle, Editor!OtherSaves, Editor!OtherApproves,
    Editor!openLocalReview, Editor!repairPublicationTarget, Editor!Superseded,
    Editor!saveLocalReview, Editor!Answered, Editor!Dies, Editor!Lost, Editor!closeLocalReview,
    Editor!Typed, Editor!patch, Editor!setStatus, Editor!previewParticipantRename,
    Editor!Preview, Editor!ApplyRename, Editor!Compare, Editor!Changed, Editor!Collides,
    Editor!StatusCollides, Editor!prepareReviewRebase, Editor!Compared,
    Editor!CancelComparison, Editor!ApplyRebase, Editor!Dropped, Editor!Next,
    Editor!Cardinality, Reviews!Editor!vars, Reviews!Editor!Mine, Reviews!Editor!Theirs,
    Reviews!Editor!Value, Reviews!Editor!Status, Reviews!Editor!unapproved,
    Reviews!Editor!Revision, Reviews!Editor!Saved, Reviews!Editor!Snapshot,
    Reviews!Editor!Unedited, Reviews!Editor!Closed, Reviews!Editor!Mounted,
    Reviews!Editor!Open, Reviews!Editor!Busy, Reviews!Editor!Comparing,
    Reviews!Editor!editingBlocked, Reviews!Editor!Calls, Reviews!Editor!Answer,
    Reviews!Editor!Call, Reviews!Editor!Adopted, Reviews!Editor!save_review,
    Reviews!Editor!Write, Reviews!Editor!Handle, Reviews!Editor!OtherSaves,
    Reviews!Editor!OtherApproves, Reviews!Editor!openLocalReview,
    Reviews!Editor!repairPublicationTarget, Reviews!Editor!Superseded,
    Reviews!Editor!saveLocalReview, Reviews!Editor!Answered, Reviews!Editor!Dies,
    Reviews!Editor!Lost, Reviews!Editor!closeLocalReview, Reviews!Editor!Typed,
    Reviews!Editor!patch, Reviews!Editor!setStatus, Reviews!Editor!previewParticipantRename,
    Reviews!Editor!Preview, Reviews!Editor!ApplyRename, Reviews!Editor!Compare,
    Reviews!Editor!Changed, Reviews!Editor!Collides, Reviews!Editor!StatusCollides,
    Reviews!Editor!prepareReviewRebase, Reviews!Editor!Compared,
    Reviews!Editor!CancelComparison, Reviews!Editor!ApplyRebase, Reviews!Editor!Dropped,
    Reviews!Editor!Next, Reviews!Editor!Cardinality
<1>3. Editor!SavesWhatIsShown <=> Reviews!Editor!SavesWhatIsShown
  BY DEF Editor!Open, Editor!SavesWhatIsShown, Reviews!Editor!Open,
    Reviews!Editor!SavesWhatIsShown
<1>4. Editor!TypedIsKept <=> Reviews!Editor!TypedIsKept
  BY DEF Editor!Open, Editor!TypedIsKept, Reviews!Editor!Open, Reviews!Editor!TypedIsKept
<1>5. Editor!OnlyTyped <=> Reviews!Editor!OnlyTyped
  BY DEF Editor!OnlyTyped, Reviews!Editor!OnlyTyped
<1>6. Editor!CleanIsSaved <=> Reviews!Editor!CleanIsSaved
  BY DEF Editor!Open, Editor!CleanIsSaved, Reviews!Editor!Open, Reviews!Editor!CleanIsSaved
<1>7. Editor!PublishableIsApproved <=> Reviews!Editor!PublishableIsApproved
  BY DEF Editor!Open, Editor!PublishableIsApproved, Reviews!Editor!Open,
    Reviews!Editor!PublishableIsApproved
<1> QED BY <1>1, <1>2, <1>3, <1>4, <1>5, <1>6, <1>7

LEMMA SameSegment ==
  /\ Segment!Init <=> Reviews!Segment!Init
  /\ [Segment!Next]_(Segment!vars) <=> [Reviews!Segment!Next]_(Reviews!Segment!vars)
  /\ Segment!SavesOverWhatItShows <=> Reviews!Segment!SavesOverWhatItShows
  /\ Segment!TypedIsShown <=> Reviews!Segment!TypedIsShown
  /\ Segment!ToldIsShown <=> Reviews!Segment!ToldIsShown
<1>1. Segment!Init <=> Reviews!Segment!Init
  BY DEF Segment!shownSpeaker, Segment!Shown, Segment!Init, Reviews!Segment!shownSpeaker,
    Reviews!Segment!Shown, Reviews!Segment!Init
<1>2. [Segment!Next]_(Segment!vars) <=> [Reviews!Segment!Next]_(Reviews!Segment!vars)
  BY DEF Segment!vars, Segment!Blank, Segment!shownSpeaker, Segment!Shown,
    Segment!loadEditAccessContext, Segment!authorizeCampaignCapability,
    Segment!requireCapability, Segment!readTranscriptSegment,
    Segment!createTranscriptEditorState, Segment!isTranscriptEditorDirty, Segment!Edited,
    Segment!editTranscriptDraft, Segment!CanBegin, Segment!beginTranscriptSave,
    Segment!completeTranscriptSaveSuccess, Segment!completeTranscriptSaveFailure,
    Segment!loadTranscriptConflictRemote, Segment!CanReconcile,
    Segment!reapplyTranscriptConflictDraft, Segment!acceptTranscriptConflictRemote,
    Segment!CanReset, Segment!resetTranscriptDraft, Segment!On, Segment!Editable,
    Segment!Becomes, Segment!Wants, Segment!Dropped, Segment!EditSessionPage,
    Segment!TranscriptEditor, Segment!Type, Segment!Cancel, Segment!Reconcile, Segment!Ask,
    Segment!save, Segment!loadCurrentVersion, Segment!Waiting, Segment!Answered,
    Segment!Answers, Segment!cleaned, Segment!prepareTranscriptEdit,
    Segment!edit_transcript_segment_atomic, Segment!mutateTranscriptSegment,
    Segment!updateTranscriptSegmentAction, Segment!reloadTranscriptSegmentAction,
    Segment!Saved, Segment!Reloaded, Segment!Receive, Segment!Lost, Segment!Role, Segment!User,
    Segment!Next, Reviews!Segment!vars, Reviews!Segment!Blank, Reviews!Segment!shownSpeaker,
    Reviews!Segment!Shown, Reviews!Segment!loadEditAccessContext,
    Reviews!Segment!authorizeCampaignCapability, Reviews!Segment!requireCapability,
    Reviews!Segment!readTranscriptSegment, Reviews!Segment!createTranscriptEditorState,
    Reviews!Segment!isTranscriptEditorDirty, Reviews!Segment!Edited,
    Reviews!Segment!editTranscriptDraft, Reviews!Segment!CanBegin,
    Reviews!Segment!beginTranscriptSave, Reviews!Segment!completeTranscriptSaveSuccess,
    Reviews!Segment!completeTranscriptSaveFailure,
    Reviews!Segment!loadTranscriptConflictRemote, Reviews!Segment!CanReconcile,
    Reviews!Segment!reapplyTranscriptConflictDraft,
    Reviews!Segment!acceptTranscriptConflictRemote, Reviews!Segment!CanReset,
    Reviews!Segment!resetTranscriptDraft, Reviews!Segment!On, Reviews!Segment!Editable,
    Reviews!Segment!Becomes, Reviews!Segment!Wants, Reviews!Segment!Dropped,
    Reviews!Segment!EditSessionPage, Reviews!Segment!TranscriptEditor, Reviews!Segment!Type,
    Reviews!Segment!Cancel, Reviews!Segment!Reconcile, Reviews!Segment!Ask,
    Reviews!Segment!save, Reviews!Segment!loadCurrentVersion, Reviews!Segment!Waiting,
    Reviews!Segment!Answered, Reviews!Segment!Answers, Reviews!Segment!cleaned,
    Reviews!Segment!prepareTranscriptEdit, Reviews!Segment!edit_transcript_segment_atomic,
    Reviews!Segment!mutateTranscriptSegment, Reviews!Segment!updateTranscriptSegmentAction,
    Reviews!Segment!reloadTranscriptSegmentAction, Reviews!Segment!Saved,
    Reviews!Segment!Reloaded, Reviews!Segment!Receive, Reviews!Segment!Lost,
    Reviews!Segment!Role, Reviews!Segment!User, Reviews!Segment!Next
<1>3. Segment!SavesOverWhatItShows <=> Reviews!Segment!SavesOverWhatItShows
  BY DEF Segment!On, Segment!Showed, Segment!Told, Segment!SavesOverWhatItShows,
    Reviews!Segment!On, Reviews!Segment!Showed, Reviews!Segment!Told,
    Reviews!Segment!SavesOverWhatItShows
<1>4. Segment!TypedIsShown <=> Reviews!Segment!TypedIsShown
  BY DEF Segment!On, Segment!Told, Segment!TypedIsShown, Reviews!Segment!On,
    Reviews!Segment!Told, Reviews!Segment!TypedIsShown
<1>5. Segment!ToldIsShown <=> Reviews!Segment!ToldIsShown
  BY DEF Segment!ToldIsShown, Reviews!Segment!ToldIsShown
<1> QED BY <1>1, <1>2, <1>3, <1>4, <1>5

LEMMA SameLembra ==
  /\ Lembra!Init <=> Reviews!Lembra!Init
  /\ [Lembra!Next]_(Lembra!vars) <=> [Reviews!Lembra!Next]_(Reviews!Lembra!vars)
  /\ Lembra!SavedAsChosen <=> Reviews!Lembra!SavedAsChosen
  /\ Lembra!FavoriteIsSaved <=> Reviews!Lembra!FavoriteIsSaved
<1>1. Lembra!Init <=> Reviews!Lembra!Init
  BY DEF Lembra!Closed, Lembra!Active, Lembra!Loaded, Lembra!Init, Reviews!Lembra!Closed,
    Reviews!Lembra!Active, Reviews!Lembra!Loaded, Reviews!Lembra!Init
<1>2. [Lembra!Next]_(Lembra!vars) <=> [Reviews!Lembra!Next]_(Reviews!Lembra!vars)
  BY DEF Lembra!vars, Lembra!server, Lembra!page, Lembra!ghost, Lembra!Spoilt, Lembra!Closed,
    Lembra!Open, Lembra!Idle, Lembra!Shown, Lembra!Mine, Lembra!Active,
    Lembra!matchesLembraSearch, Lembra!Visible, Lembra!CardOffers, Lembra!ViewerOffers,
    Lembra!ComposerOffers, Lembra!Loaded, Lembra!LembraPage, Lembra!Kept, Lembra!openViewer,
    Lembra!closeViewer, Lembra!moveViewer, Lembra!startEditing, Lembra!AskToRemove,
    Lembra!Toolbar, Lembra!prepareFile, Lembra!Compose, Lembra!closeDraft, Lembra!Asked,
    Lembra!Ask, Lembra!saveReference, Lembra!saveReferenceEdit, Lembra!removeSelectedReference,
    Lembra!With, Lembra!Toggling, Lembra!toggleFavorite, Lembra!User, Lembra!Fault,
    Lembra!NoIdentity, Lembra!Sending, Lembra!SendPart, Lembra!AskToFinalize,
    Lembra!inspectLembraImage, Lembra!Verified, Lembra!putImmutable,
    Lembra!insertLembraReference, Lembra!finalizeLembraUploadAction,
    Lembra!updateLembraReferenceMetadata, Lembra!retireLembraReference,
    Lembra!setLembraFavorite, Lembra!Served, Lembra!Servable, Lembra!Serve, Lembra!Other,
    Lembra!ImageFails, Lembra!Requested, Lembra!Finalized, Lembra!Updated, Lembra!Retired,
    Lembra!Favored, Lembra!Answered, Lembra!Done, Lembra!Next, Reviews!Lembra!vars,
    Reviews!Lembra!server, Reviews!Lembra!page, Reviews!Lembra!ghost, Reviews!Lembra!Spoilt,
    Reviews!Lembra!Closed, Reviews!Lembra!Open, Reviews!Lembra!Idle, Reviews!Lembra!Shown,
    Reviews!Lembra!Mine, Reviews!Lembra!Active, Reviews!Lembra!matchesLembraSearch,
    Reviews!Lembra!Visible, Reviews!Lembra!CardOffers, Reviews!Lembra!ViewerOffers,
    Reviews!Lembra!ComposerOffers, Reviews!Lembra!Loaded, Reviews!Lembra!LembraPage,
    Reviews!Lembra!Kept, Reviews!Lembra!openViewer, Reviews!Lembra!closeViewer,
    Reviews!Lembra!moveViewer, Reviews!Lembra!startEditing, Reviews!Lembra!AskToRemove,
    Reviews!Lembra!Toolbar, Reviews!Lembra!prepareFile, Reviews!Lembra!Compose,
    Reviews!Lembra!closeDraft, Reviews!Lembra!Asked, Reviews!Lembra!Ask,
    Reviews!Lembra!saveReference, Reviews!Lembra!saveReferenceEdit,
    Reviews!Lembra!removeSelectedReference, Reviews!Lembra!With, Reviews!Lembra!Toggling,
    Reviews!Lembra!toggleFavorite, Reviews!Lembra!User, Reviews!Lembra!Fault,
    Reviews!Lembra!NoIdentity, Reviews!Lembra!Sending, Reviews!Lembra!SendPart,
    Reviews!Lembra!AskToFinalize, Reviews!Lembra!inspectLembraImage, Reviews!Lembra!Verified,
    Reviews!Lembra!putImmutable, Reviews!Lembra!insertLembraReference,
    Reviews!Lembra!finalizeLembraUploadAction, Reviews!Lembra!updateLembraReferenceMetadata,
    Reviews!Lembra!retireLembraReference, Reviews!Lembra!setLembraFavorite,
    Reviews!Lembra!Served, Reviews!Lembra!Servable, Reviews!Lembra!Serve, Reviews!Lembra!Other,
    Reviews!Lembra!ImageFails, Reviews!Lembra!Requested, Reviews!Lembra!Finalized,
    Reviews!Lembra!Updated, Reviews!Lembra!Retired, Reviews!Lembra!Favored,
    Reviews!Lembra!Answered, Reviews!Lembra!Done, Reviews!Lembra!Next
<1>3. Lembra!SavedAsChosen <=> Reviews!Lembra!SavedAsChosen
  BY DEF Lembra!Mine, Lembra!inspectLembraImage, Lembra!SavedAsChosen, Reviews!Lembra!Mine,
    Reviews!Lembra!inspectLembraImage, Reviews!Lembra!SavedAsChosen
<1>4. Lembra!FavoriteIsSaved <=> Reviews!Lembra!FavoriteIsSaved
  BY DEF Lembra!Shown, Lembra!Active, Lembra!Toggling, Lembra!FavoriteIsSaved,
    Reviews!Lembra!Shown, Reviews!Lembra!Active, Reviews!Lembra!Toggling,
    Reviews!Lembra!FavoriteIsSaved
<1> QED BY <1>1, <1>2, <1>3, <1>4

LEMMA SameComparison ==
  /\ Comparison!Init <=> Reviews!Comparison!Init
  /\ [Comparison!Next]_(Comparison!vars) <=> [Reviews!Comparison!Next]_(Reviews!Comparison!vars)
  /\ Comparison!EverySegmentOnce <=> Reviews!Comparison!EverySegmentOnce
  /\ Comparison!AroundOneAnchor <=> Reviews!Comparison!AroundOneAnchor
  /\ Comparison!SameRunIsEqual <=> Reviews!Comparison!SameRunIsEqual
<1>1. Comparison!Init <=> Reviews!Comparison!Init
  BY DEF Comparison!Ordered, Comparison!Init, Reviews!Comparison!Ordered,
    Reviews!Comparison!Init
<1>2. [Comparison!Next]_(Comparison!vars) <=> [Reviews!Comparison!Next]_(Reviews!Comparison!vars)
  BY DEF Comparison!vars, Comparison!Smaller, Comparison!Larger, Comparison!comparableInTime,
    Comparison!Open, Comparison!LeftLeft, Comparison!RightLeft, Comparison!Region,
    Comparison!Cut, Comparison!OnlyLeft, Comparison!OnlyRight, Comparison!Take,
    Comparison!GoesFirst, Comparison!RestOfRight, Comparison!RestOfLeft, Comparison!Apart,
    Comparison!Match, Comparison!TakesMoreRight, Comparison!TakesMoreLeft,
    Comparison!MoreRight, Comparison!MoreLeft, Comparison!Close, Comparison!compareTrack,
    Comparison!Finished, Comparison!Next, Reviews!Comparison!vars, Reviews!Comparison!Smaller,
    Reviews!Comparison!Larger, Reviews!Comparison!comparableInTime, Reviews!Comparison!Open,
    Reviews!Comparison!LeftLeft, Reviews!Comparison!RightLeft, Reviews!Comparison!Region,
    Reviews!Comparison!Cut, Reviews!Comparison!OnlyLeft, Reviews!Comparison!OnlyRight,
    Reviews!Comparison!Take, Reviews!Comparison!GoesFirst, Reviews!Comparison!RestOfRight,
    Reviews!Comparison!RestOfLeft, Reviews!Comparison!Apart, Reviews!Comparison!Match,
    Reviews!Comparison!TakesMoreRight, Reviews!Comparison!TakesMoreLeft,
    Reviews!Comparison!MoreRight, Reviews!Comparison!MoreLeft, Reviews!Comparison!Close,
    Reviews!Comparison!compareTrack, Reviews!Comparison!Finished, Reviews!Comparison!Next
<1>3. Comparison!EverySegmentOnce <=> Reviews!Comparison!EverySegmentOnce
  BY DEF Comparison!EverySegmentOnce, Reviews!Comparison!EverySegmentOnce
<1>4. Comparison!AroundOneAnchor <=> Reviews!Comparison!AroundOneAnchor
  BY DEF Comparison!Smaller, Comparison!Larger, Comparison!comparableInTime,
    Comparison!AroundOneAnchor, Reviews!Comparison!Smaller, Reviews!Comparison!Larger,
    Reviews!Comparison!comparableInTime, Reviews!Comparison!AroundOneAnchor
<1>5. Comparison!SameRunIsEqual <=> Reviews!Comparison!SameRunIsEqual
  BY DEF Comparison!Joined, Comparison!speakerSequence, Comparison!kind,
    Comparison!speakerChanged, Comparison!differentRegions, Comparison!SameRunIsEqual,
    Reviews!Comparison!Joined, Reviews!Comparison!speakerSequence, Reviews!Comparison!kind,
    Reviews!Comparison!speakerChanged, Reviews!Comparison!differentRegions,
    Reviews!Comparison!SameRunIsEqual
<1> QED BY <1>1, <1>2, <1>3, <1>4, <1>5

(* Every segment of two runs is compared once, around one of them, and a   *)
(* run compared with itself differs nowhere.                               *)
THEOREM ComparisonHolds == Spec => []ComparisonIsWhole
<1>1. Comparison!Spec => [](/\ Comparison!EverySegmentOnce
                            /\ Comparison!AroundOneAnchor
                            /\ Comparison!SameRunIsEqual)
  <2>1. Reviews!ComparisonInstance
    <3>1. 1 \in Int
      OBVIOUS
    <3> QED BY ONLY <3>1, InstancesAssumption DEF Reviews!ComparisonInstance
  <2>2. Reviews!Comparison!Spec => [](/\ Reviews!Comparison!EverySegmentOnce
                                      /\ Reviews!Comparison!AroundOneAnchor
                                      /\ Reviews!Comparison!SameRunIsEqual)
    BY <2>1, Reviews!ComparisonIsWhole, Reviews!ComparisonOfItself, PTL
  <2> QED BY <2>2, SameComparison, PTL DEF Comparison!Spec, Reviews!Comparison!Spec
<1>2. ASSUME At("Comparison") => /\ Comparison!EverySegmentOnce
                                 /\ Comparison!AroundOneAnchor
                                 /\ Comparison!SameRunIsEqual
      PROVE  ComparisonIsWhole
  BY <1>2 DEF ComparisonIsWhole, At
<1> QED BY FocusComparison, <1>1, <1>2, PTL DEF Spec, Comparison!Spec

(* A candidate is decided once, what a reviewer was told stands, and no    *)
(* canon is without a source of its session.                               *)
THEOREM CanonHolds == Spec => []CanonIsDecided
<1>1. Canon!Spec => [](Canon!DecidedOnce /\ Canon!ToldIsRegistered /\ Canon!CanonIsSourced)
  <2>1. Reviews!CanonInstance
    BY DEF Reviews!CanonInstance, Reviews!Canon!Capability
  <2>2. Reviews!Canon!Spec => [](/\ Reviews!Canon!DecidedOnce
                                 /\ Reviews!Canon!ToldIsRegistered
                                 /\ Reviews!Canon!CanonIsSourced)
    BY <2>1, Reviews!CanonDecidedOnce, Reviews!CanonToldStands, Reviews!CanonHasSource, PTL
  <2> QED BY <2>2, SameCanon, PTL DEF Canon!Spec, Reviews!Canon!Spec
<1>2. ASSUME At("Canon") => Canon!DecidedOnce /\ Canon!ToldIsRegistered /\ Canon!CanonIsSourced
      PROVE  CanonIsDecided
  BY <1>2 DEF CanonIsDecided, At
<1> QED BY FocusCanon, <1>1, <1>2, PTL DEF Spec, Canon!Spec

(* The page is covered while somebody waits, and by no wait that is over. *)
THEOREM LoadingHolds == Spec => []LoaderShowsWork
<1>1. Loading!Spec => [](Loading!CoveredWhileWaiting /\ Loading!TokensHaveOwners)
  <2>1. Reviews!LoadingInstance
    BY ValuesAssumption DEF Reviews!LoadingInstance
  <2>2. Reviews!Loading!Spec => [](/\ Reviews!Loading!CoveredWhileWaiting
                                   /\ Reviews!Loading!TokensHaveOwners)
    BY <2>1, Reviews!LoadingCovers, Reviews!LoadingHasOwners, PTL
  <2> QED BY <2>2, SameLoading, PTL DEF Loading!Spec, Reviews!Loading!Spec
<1>2. ASSUME At("Loading") => Loading!CoveredWhileWaiting /\ Loading!TokensHaveOwners
      PROVE  LoaderShowsWork
  BY <1>2 DEF LoaderShowsWork, At
<1> QED BY FocusLoading, <1>1, <1>2, PTL DEF Spec, Loading!Spec

(* What was typed stays, a revision changes only what its editor typed, a  *)
(* review shown as saved is, and what can be published was approved.       *)
THEOREM EditorHolds == Spec => []ReviewIsKept
<1>1. Editor!Spec => [](/\ Editor!TypedIsKept
                        /\ Editor!OnlyTyped
                        /\ Editor!CleanIsSaved
                        /\ Editor!PublishableIsApproved)
  <2>1. Reviews!EditorInstance
    BY ValuesAssumption DEF Reviews!EditorInstance
  <2>2. Reviews!Editor!Spec => [](/\ Reviews!Editor!TypedIsKept
                                  /\ Reviews!Editor!OnlyTyped
                                  /\ Reviews!Editor!CleanIsSaved
                                  /\ Reviews!Editor!PublishableIsApproved)
    BY <2>1, Reviews!EditorKeepsReview, PTL
  <2> QED BY <2>2, SameEditor, PTL DEF Editor!Spec, Reviews!Editor!Spec
<1>2. ASSUME At("Editor") => /\ Editor!TypedIsKept
                             /\ Editor!OnlyTyped
                             /\ Editor!CleanIsSaved
                             /\ Editor!PublishableIsApproved
      PROVE  ReviewIsKept
  BY <1>2 DEF ReviewIsKept, At
<1> QED BY FocusEditor, <1>1, <1>2, PTL DEF Spec, Editor!Spec

(* A save that succeeds leaves on the screen what was there. *)
THEOREM EditorSavesHold == Spec => SavesWhatIsShown
<1>1. Editor!Spec => [][Editor!SavesWhatIsShown]_(Editor!vars)
  <2>1. Reviews!EditorInstance
    BY ValuesAssumption DEF Reviews!EditorInstance
  <2>2. Reviews!Editor!Spec => [][Reviews!Editor!SavesWhatIsShown]_(Reviews!Editor!vars)
    BY <2>1, Reviews!EditorSavesWhatIsShown
  <2>3. [Reviews!Editor!SavesWhatIsShown]_(Reviews!Editor!vars)
          => [Editor!SavesWhatIsShown]_(Editor!vars)
    BY SameEditor DEF Editor!vars, Reviews!Editor!vars
  <2> QED BY <2>2, <2>3, SameEditor, PTL DEF Editor!Spec, Reviews!Editor!Spec
<1>2. [Editor!SavesWhatIsShown]_(Editor!vars) => (At("Editor") => Editor!SavesWhatIsShown)
  BY DEF Editor!SavesWhatIsShown, Editor!vars
<1> QED BY FocusEditor, <1>1, <1>2, PTL DEF Spec, Editor!Spec, SavesWhatIsShown, At

(* An editor saves only over what it was shown or told, what was typed is   *)
(* shown until it is saved or given up, and what a save tells is what the   *)
(* row shows, but for a name typed under its character.                     *)
THEOREM SegmentHolds == Spec => []SegmentIsKept
<1>1. Segment!Spec => [](/\ Segment!SavesOverWhatItShows
                         /\ Segment!TypedIsShown
                         /\ Segment!ToldIsShown)
  <2>1. Reviews!SegmentInstance
    <3>1. PICK f : f = [x \in {y1, y2, y3, n1, n2, n3} |->
                          IF x = y2 THEN y1 ELSE IF x = y3 THEN "blank" ELSE x]
      OBVIOUS
    <3>2. f[y1] = y1 /\ f[y2] = y1 /\ (y3 # y2 => f[y3] = "blank")
          /\ f[n1] = n1 /\ f[n2] = n2 /\ f[n3] = n3
      BY <3>1, ValuesAssumption
    <3>3. Reviews!Value = {y1, y2, y3, n1, n2, n3}
      BY ValuesAssumption DEF Reviews!Value
    <3>4. f \in [Reviews!Value -> Reviews!Value \cup {"blank"}]
      BY <3>1, <3>3
    <3>5. \A x \in Reviews!Value : f[x] \in Reviews!Value => f[f[x]] = f[x]
      BY <3>2, <3>3, ValuesAssumption
    <3> QED BY <3>1, <3>4, <3>5, ValuesAssumption DEF Reviews!SegmentInstance,
               Reviews!Segment!Blank
  <2>2. Reviews!Segment!Spec => [](/\ Reviews!Segment!SavesOverWhatItShows
                                   /\ Reviews!Segment!TypedIsShown
                                   /\ Reviews!Segment!ToldIsShown)
    BY <2>1, Reviews!SegmentIsSavedAsShown, PTL
  <2> QED BY <2>2, SameSegment, PTL DEF Segment!Spec, Reviews!Segment!Spec
<1>2. ASSUME At("Segment") => /\ Segment!SavesOverWhatItShows
                              /\ Segment!TypedIsShown
                              /\ Segment!ToldIsShown
      PROVE  SegmentIsKept
  BY <1>2 DEF SegmentIsKept, At
<1> QED BY FocusSegment, <1>1, <1>2, PTL DEF Spec, Segment!Spec

(* What is saved in the library is what its user chose, and a heart shows  *)
(* what is saved.                                                          *)
THEOREM LembraHolds == Spec => []LibraryIsKept
<1>1. Lembra!Spec => [](Lembra!SavedAsChosen /\ Lembra!FavoriteIsSaved)
  <2>1. Reviews!LembraInstance
    <3>1. Nil \notin {g1, g2} /\ Nil \notin {y1, y2}
      BY ValuesAssumption
    <3>2. Nil \notin Reviews!Shelved
      BY RecordsAssumption DEF Reviews!Shelved
    <3>3. Nil \notin Reviews!Composed
      BY RecordsAssumption DEF Reviews!Composed
    <3>4. Nil \notin Reviews!SavingRecord
      BY RecordsAssumption DEF Reviews!SavingRecord
    <3>5. [text |-> y1, file |-> f1] \in Reviews!Choice
      BY DEF Reviews!Choice
    <3>6. 2 \in Nat \ {0}
      OBVIOUS
    <3> QED BY ONLY <3>1, <3>2, <3>3, <3>4, <3>5, <3>6 DEF Reviews!LembraInstance
  <2>2. Reviews!Lembra!Spec => [](/\ Reviews!Lembra!SavedAsChosen
                                  /\ Reviews!Lembra!FavoriteIsSaved)
    BY <2>1, Reviews!LembraIsKept, PTL
  <2> QED BY <2>2, SameLembra, PTL DEF Lembra!Spec, Reviews!Lembra!Spec
<1>2. ASSUME At("Lembra") => Lembra!SavedAsChosen /\ Lembra!FavoriteIsSaved
      PROVE  LibraryIsKept
  BY <1>2 DEF LibraryIsKept, At
<1> QED BY FocusLembra, <1>1, <1>2, PTL DEF Spec, Lembra!Spec

-----------------------------------------------------------------------------
(* The editing of the World. *)
Worlds == INSTANCE WorldProofs WITH
  world <- s1, lease <- s2, copies <- s3, tabs <- s4, edits <- s5, issued <- s6,
  promised <- s7, expiries <- s8, faults <- s9, Window <- {e1, e2},
  Owner <- [t \in {e1, e2} |-> t], Layouter <- {e1}, MaxToken <- 2, MaxEdit <- 2,
  MaxQueue <- 1, MaxExpiry <- 1, MaxFault <- 1, enabled <- s1, token <- s2, draft <- s3,
  upload <- s4, parts <- s5, staged <- s6, public <- s7, asset <- s8, binding <- s9,
  visible <- s10, pub <- s11, moves <- s12, wanted <- s13, Entity <- {n1, n2},
  File <- {f1, f2}, Image <- {f1}, Part <- 2, Upload <- {g1, g2}, Publisher <- {q1, q2},
  MaxLease <- 2, MaxMove <- 5, session <- s1, saved <- s2, published <- s3, ui <- s4,
  compose <- s5, candidate <- s6, look <- s7, overrides <- s8, shell <- s9, acts <- s10,
  Node <- {n1, n2}, New <- {n3}, Edge <- {<<n1, n2>>}, Pair <- {<<n1, n2>>, <<n1, n3>>},
  Narrow <- [f \in {"type", "relation", "query"} |-> IF f = "relation" THEN {} ELSE {n1}],
  MaxAct <- 8, sketch <- s1, shown <- s2, sources <- s3, active <- s4, gate <- s5, panel <- s6,
  sending <- s7, strokes <- s8, wish <- s9, meant <- s10, turned <- s11,
  Figure <- {n1, n2, n3}, Drawn <- {n1, n2}, Portrayed <- {n1}, Relation <- {g1, g2},
  Old <- g1, Type <- {y1, y2}, Directed <- {y1},
  First <- [source |-> n1, target |-> n2, type |-> y1], Decided <- {k1},
  Line <- {<<n1, n2>>, <<n2, n1>>},
  Rank <- [n \in {n1, n2, n3} |-> IF n = n1 THEN 1 ELSE IF n = n2 THEN 2 ELSE 3],
  MaxStroke <- 2

(* The steps proved about there are those that are checked here. *)
LEMMA SameWorld ==
  /\ World!Init <=> Worlds!World!Init
  /\ [World!Next]_(World!vars) <=> [Worlds!World!Next]_(Worlds!World!vars)
  /\ World!ToldIsPublished <=> Worlds!World!ToldIsPublished
  /\ World!DraftsArePrivate <=> Worlds!World!DraftsArePrivate
  /\ World!OneActive <=> Worlds!World!OneActive
<1>1. World!Init <=> Worlds!World!Init
  BY DEF World!Kind, World!Blank, World!Closed, World!Init, Worlds!World!Kind,
    Worlds!World!Blank, Worlds!World!Closed, Worlds!World!Init
<1>2. [World!Next]_(World!vars) <=> [Worlds!World!Next]_(Worlds!World!vars)
  <2>1. World!Expire <=> Worlds!World!Expire
    BY DEF World!Expire, Worlds!World!Expire
  <2>2. \A t, k : World!Recovery(t, k) = Worlds!World!Recovery(t, k)
    BY DEF World!Kind, World!Content, World!Revs, World!Row, World!Put, World!Turn,
      World!checkpoint_world_edit_draft_from_lease, World!FreshLease, World!Handoff,
      World!Active, World!CurrentBase, World!SameAsPublished, World!Answer, World!Recovery,
      Worlds!World!Kind, Worlds!World!Content, Worlds!World!Revs, Worlds!World!Row,
      Worlds!World!Put, Worlds!World!Turn, Worlds!World!checkpoint_world_edit_draft_from_lease,
      Worlds!World!FreshLease, Worlds!World!Handoff, Worlds!World!Active,
      Worlds!World!CurrentBase, Worlds!World!SameAsPublished, Worlds!World!Answer,
      Worlds!World!Recovery
  <2>3. \A t, k :
      World!acquire_world_edit_lease_atomic(t, k)
        = Worlds!World!acquire_world_edit_lease_atomic(t, k)
    BY <2>2 DEF World!Owns, World!Answer, World!acquire_world_edit_lease_atomic,
      Worlds!World!Owns, Worlds!World!Answer, Worlds!World!acquire_world_edit_lease_atomic
  <2>4. \A t : World!Start(t) <=> Worlds!World!Start(t)
    BY ZenonT(90), <2>3 DEF World!Tabs, World!Fault, World!Start, Worlds!World!Tabs,
      Worlds!World!Fault, Worlds!World!Start
  <2>5. \A t : World!AcquireGraph(t) <=> Worlds!World!AcquireGraph(t)
    BY DEF World!Kind, World!Blank, World!Marks, World!Closed, World!Tabs, World!Fault,
      World!Untold, World!Owns, World!Holds, World!GraphDraft, World!EndSession, World!Gone,
      World!AcquireGraph, Worlds!World!Kind, Worlds!World!Blank, Worlds!World!Marks,
      Worlds!World!Closed, Worlds!World!Tabs, Worlds!World!Fault, Worlds!World!Untold,
      Worlds!World!Owns, Worlds!World!Holds, Worlds!World!GraphDraft, Worlds!World!EndSession,
      Worlds!World!Gone, Worlds!World!AcquireGraph
  <2>6. \A t, k : /\ World!Edit(t, k) <=> Worlds!World!Edit(t, k)
                  /\ World!DebounceEnds(t, k) <=> Worlds!World!DebounceEnds(t, k)
    BY DEF World!Kind, World!Kinds, World!Tabs, World!Untold, World!Room, World!Save, World!Edit,
      World!DebounceEnds, Worlds!World!Kind, Worlds!World!Kinds, Worlds!World!Tabs,
      Worlds!World!Untold, Worlds!World!Room, Worlds!World!Save, Worlds!World!Edit,
      Worlds!World!DebounceEnds
  <2>7. \A t : /\ World!SafetyFlush(t) <=> Worlds!World!SafetyFlush(t)
               /\ World!SaveFails(t) <=> Worlds!World!SaveFails(t)
    BY DEF World!Kind, World!Blank, World!Marks, World!Closed, World!Tabs, World!Fault,
      World!Untold, World!markLeaseLost, World!Room, World!Save, World!Marker, World!SafetyFlush,
      World!Saved, World!Took, World!SaveFails, Worlds!World!Kind, Worlds!World!Blank,
      Worlds!World!Marks, Worlds!World!Closed, Worlds!World!Tabs, Worlds!World!Fault,
      Worlds!World!Untold, Worlds!World!markLeaseLost, Worlds!World!Room, Worlds!World!Save,
      Worlds!World!Marker, Worlds!World!SafetyFlush, Worlds!World!Saved, Worlds!World!Took,
      Worlds!World!SaveFails
  <2>8. \A t : World!SaveDraft(t) <=> Worlds!World!SaveDraft(t)
    BY DEF World!Kind, World!Blank, World!Marks, World!Closed, World!Tabs, World!Fault,
      World!Untold, World!Row, World!Put, World!Turn,
      World!checkpoint_world_edit_draft_from_lease, World!Owns, World!Holds, World!markLeaseLost,
      World!Save, World!Marker, World!Saved, World!Took, World!SaveAnswer, World!SaveDraft,
      Worlds!World!Kind, Worlds!World!Blank, Worlds!World!Marks, Worlds!World!Closed,
      Worlds!World!Tabs, Worlds!World!Fault, Worlds!World!Untold, Worlds!World!Row,
      Worlds!World!Put, Worlds!World!Turn, Worlds!World!checkpoint_world_edit_draft_from_lease,
      Worlds!World!Owns, Worlds!World!Holds, Worlds!World!markLeaseLost, Worlds!World!Save,
      Worlds!World!Marker, Worlds!World!Saved, Worlds!World!Took, Worlds!World!SaveAnswer,
      Worlds!World!SaveDraft
  <2>9. \A t, goal : World!Ask(t, goal) <=> Worlds!World!Ask(t, goal)
    BY DEF World!Kind, World!Blank, World!Closed, World!Tabs, World!Untold,
      World!cancelPendingDraftSaves, World!Room, World!Save, World!Marker, World!Ask,
      Worlds!World!Kind, Worlds!World!Blank, Worlds!World!Closed, Worlds!World!Tabs,
      Worlds!World!Untold, Worlds!World!cancelPendingDraftSaves, Worlds!World!Room,
      Worlds!World!Save, Worlds!World!Marker, Worlds!World!Ask
  <2>10. \A t : World!Publish(t) <=> Worlds!World!Publish(t)
    BY DEF World!Kind, World!Blank, World!Marks, World!Kinds, World!Closed, World!Tabs,
      World!Fault, World!Revs, World!Untold, World!Row, World!Put, World!Owns, World!Holds,
      World!Changes, World!Published, World!publishWorldEditLayoutAction, World!MayRefuse,
      World!publishWorldEditStateAction, World!PublishAnswer, World!confirmedGraphPublishReceipt,
      World!markLeaseLost, World!EndSession, World!completePublishedEdit, World!Publish,
      Worlds!World!Kind, Worlds!World!Blank, Worlds!World!Marks, Worlds!World!Kinds,
      Worlds!World!Closed, Worlds!World!Tabs, Worlds!World!Fault, Worlds!World!Revs,
      Worlds!World!Untold, Worlds!World!Row, Worlds!World!Put, Worlds!World!Owns,
      Worlds!World!Holds, Worlds!World!Changes, Worlds!World!Published,
      Worlds!World!publishWorldEditLayoutAction, Worlds!World!MayRefuse,
      Worlds!World!publishWorldEditStateAction, Worlds!World!PublishAnswer,
      Worlds!World!confirmedGraphPublishReceipt, Worlds!World!markLeaseLost,
      Worlds!World!EndSession, Worlds!World!completePublishedEdit, Worlds!World!Publish
  <2>11. \A t : World!Release(t) <=> Worlds!World!Release(t)
    BY DEF World!Kind, World!Blank, World!Marks, World!Closed, World!Tabs, World!Fault,
      World!Untold, World!Owns, World!EndSession, World!Gone,
      World!release_world_edit_lease_atomic, World!Ends, World!Release, Worlds!World!Kind,
      Worlds!World!Blank, Worlds!World!Marks, Worlds!World!Closed, Worlds!World!Tabs,
      Worlds!World!Fault, Worlds!World!Untold, Worlds!World!Owns, Worlds!World!EndSession,
      Worlds!World!Gone, Worlds!World!release_world_edit_lease_atomic, Worlds!World!Ends,
      Worlds!World!Release
  <2>12. \A t : World!Discard(t) <=> Worlds!World!Discard(t)
    BY DEF World!Kind, World!Blank, World!Marks, World!Closed, World!Tabs, World!Fault,
      World!Untold, World!Row, World!Put, World!Turn, World!Owns, World!EndSession, World!Gone,
      World!discard_world_edit_lease_atomic, World!Ends, World!Discard, Worlds!World!Kind,
      Worlds!World!Blank, Worlds!World!Marks, Worlds!World!Closed, Worlds!World!Tabs,
      Worlds!World!Fault, Worlds!World!Untold, Worlds!World!Row, Worlds!World!Put,
      Worlds!World!Turn, Worlds!World!Owns, Worlds!World!EndSession, Worlds!World!Gone,
      Worlds!World!discard_world_edit_lease_atomic, Worlds!World!Ends, Worlds!World!Discard
  <2>13. \A t : /\ World!Heartbeat(t) <=> Worlds!World!Heartbeat(t)
                /\ World!Reload(t) <=> Worlds!World!Reload(t)
    BY DEF World!Kind, World!Blank, World!Marks, World!Closed, World!Tabs, World!Fault,
      World!Untold, World!Owns, World!Holds, World!markLeaseLost, World!Heartbeat, World!Reload,
      Worlds!World!Kind, Worlds!World!Blank, Worlds!World!Marks, Worlds!World!Closed,
      Worlds!World!Tabs, Worlds!World!Fault, Worlds!World!Untold, Worlds!World!Owns,
      Worlds!World!Holds, Worlds!World!markLeaseLost, Worlds!World!Heartbeat, Worlds!World!Reload
  <2> QED BY ONLY <2>1, <2>2, <2>3, <2>4, <2>5, <2>6, <2>7, <2>8, <2>9, <2>10, <2>11, <2>12, <2>13
         DEF World!Next, World!vars, World!Kind, Worlds!World!Next, Worlds!World!vars,
           Worlds!World!Kind
<1>3. World!ToldIsPublished <=> Worlds!World!ToldIsPublished
  BY DEF World!ToldIsPublished, Worlds!World!ToldIsPublished
<1>4. World!DraftsArePrivate <=> Worlds!World!DraftsArePrivate
  BY DEF World!Kind, World!DraftsArePrivate, Worlds!World!Kind, Worlds!World!DraftsArePrivate
<1>5. World!OneActive <=> Worlds!World!OneActive
  BY DEF World!Active, World!OneActive, World!Cardinality, Worlds!World!Active,
    Worlds!World!OneActive, Worlds!World!Cardinality
<1> QED BY <1>1, <1>2, <1>3, <1>4, <1>5

LEMMA SameMedia ==
  /\ Media!Init <=> Worlds!Media!Init
  /\ [Media!Next]_(Media!vars) <=> [Worlds!Media!Next]_(Worlds!Media!vars)
  /\ Media!PortraitsAreThere <=> Worlds!Media!PortraitsAreThere
  /\ Media!BoundAsDrafted <=> Worlds!Media!BoundAsDrafted
  /\ Media!PublicIsVerified <=> Worlds!Media!PublicIsVerified
<1>1. Media!Init <=> Worlds!Media!Init
  BY DEF Media!Unset, Media!Key, Media!hydrateWorldGraphDraftMedia, Media!Init,
    Worlds!Media!Unset, Worlds!Media!Key, Worlds!Media!hydrateWorldGraphDraftMedia,
    Worlds!Media!Init
<1>2. [Media!Next]_(Media!vars) <=> [Worlds!Media!Next]_(Worlds!Media!vars)
  BY DEF Media!vars, Media!stores, Media!graph, Media!Unset, Media!hydrateWorldGraphDraftMedia,
    Media!authorizeWorldEntityMediaTarget, Media!Phase, Media!To,
    Media!requestWorldEntityPortraitUploadAction, Media!SendPart,
    Media!finalizeWorldEntityPortraitUploadAction, Media!inspectWorldEntityImage,
    Media!ReadParts, Media!KeyOf, Media!putImmutableObject, Media!Put,
    Media!persistVerifiedAsset, Media!Persist, Media!Uploaded, Media!UploadFails, Media!Edit,
    Media!Lease, Media!Switch, Media!worldEntityMediaDraftHasIntent, Media!Wants,
    Media!safeAssetForEntity, Media!worldEntityMediaCanBecomePublic,
    Media!prepareWorldEntityMediaForPublish, Media!At, Media!Seen, Media!Known, Media!Promote,
    Media!Delivered, Media!Verify, Media!promoteWorldEntityPortrait, Media!BindingsChecked,
    Media!MediaValid, Media!Bound, Media!publish_world_edit_state_with_media_atomic,
    Media!failPublish, Media!Refused, Media!Start, Media!Step, Media!Next, Media!Cardinality,
    Worlds!Media!vars, Worlds!Media!stores, Worlds!Media!graph, Worlds!Media!Unset,
    Worlds!Media!hydrateWorldGraphDraftMedia, Worlds!Media!authorizeWorldEntityMediaTarget,
    Worlds!Media!Phase, Worlds!Media!To, Worlds!Media!requestWorldEntityPortraitUploadAction,
    Worlds!Media!SendPart, Worlds!Media!finalizeWorldEntityPortraitUploadAction,
    Worlds!Media!inspectWorldEntityImage, Worlds!Media!ReadParts, Worlds!Media!KeyOf,
    Worlds!Media!putImmutableObject, Worlds!Media!Put, Worlds!Media!persistVerifiedAsset,
    Worlds!Media!Persist, Worlds!Media!Uploaded, Worlds!Media!UploadFails, Worlds!Media!Edit,
    Worlds!Media!Lease, Worlds!Media!Switch, Worlds!Media!worldEntityMediaDraftHasIntent,
    Worlds!Media!Wants, Worlds!Media!safeAssetForEntity,
    Worlds!Media!worldEntityMediaCanBecomePublic,
    Worlds!Media!prepareWorldEntityMediaForPublish, Worlds!Media!At, Worlds!Media!Seen,
    Worlds!Media!Known, Worlds!Media!Promote, Worlds!Media!Delivered, Worlds!Media!Verify,
    Worlds!Media!promoteWorldEntityPortrait, Worlds!Media!BindingsChecked,
    Worlds!Media!MediaValid, Worlds!Media!Bound,
    Worlds!Media!publish_world_edit_state_with_media_atomic, Worlds!Media!failPublish,
    Worlds!Media!Refused, Worlds!Media!Start, Worlds!Media!Step, Worlds!Media!Next,
    Worlds!Media!Cardinality
<1>3. Media!PortraitsAreThere <=> Worlds!Media!PortraitsAreThere
  BY DEF Media!Wants, Media!Preview, Media!worldEntityPublicMediaUrl, Media!Presented,
    Media!PortraitsAreThere, Worlds!Media!Wants, Worlds!Media!Preview,
    Worlds!Media!worldEntityPublicMediaUrl, Worlds!Media!Presented,
    Worlds!Media!PortraitsAreThere
<1>4. Media!BoundAsDrafted <=> Worlds!Media!BoundAsDrafted
  BY DEF Media!BoundAsDrafted, Worlds!Media!BoundAsDrafted
<1>5. Media!PublicIsVerified <=> Worlds!Media!PublicIsVerified
  BY DEF Media!PublicIsVerified, Worlds!Media!PublicIsVerified
<1> QED BY <1>1, <1>2, <1>3, <1>4, <1>5

LEMMA SameAuthoring ==
  /\ Authoring!Init <=> Worlds!Authoring!Init
  /\ [Authoring!Next]_(Authoring!vars) <=> [Worlds!Authoring!Next]_(Worlds!Authoring!vars)
  /\ Authoring!ToolOwnsItsDraft <=> Worlds!Authoring!ToolOwnsItsDraft
  /\ Authoring!VisitorMovesStayLocal <=> Worlds!Authoring!VisitorMovesStayLocal
<1>1. Authoring!Init <=> Worlds!Authoring!Init
  BY DEF Authoring!All, Authoring!NoLayout, Authoring!createWorldAuthoringUiState,
    Authoring!NoCompose, Authoring!Init, Worlds!Authoring!All, Worlds!Authoring!NoLayout,
    Worlds!Authoring!createWorldAuthoringUiState, Worlds!Authoring!NoCompose,
    Worlds!Authoring!Init
<1>2. [Authoring!Next]_(Authoring!vars) <=> [Worlds!Authoring!Next]_(Worlds!Authoring!vars)
  BY DEF Authoring!vars, Authoring!All, Authoring!NoLayout,
    Authoring!createWorldAuthoringUiState, Authoring!NoCompose, Authoring!editing,
    Authoring!busy, Authoring!Ends, Authoring!filterWorldProjection,
    Authoring!filterWorldRelations, Authoring!searchWorldProjection, Authoring!Kept,
    Authoring!Shown, Authoring!visibleProjection, Authoring!Selects,
    Authoring!useWorldExplorerView, Authoring!AuthoringPanelVisible,
    Authoring!directCreateEnabled, Authoring!relationAuthoringAvailable,
    Authoring!connectionActive, Authoring!ControlsShown, Authoring!WorldDirectCreateControls,
    Authoring!worldCommandIsAvailable, Authoring!authoringStarted, Authoring!authoringStopped,
    Authoring!toggleFocusMode, Authoring!nextWorldInspectorMode, Authoring!toggleInspector,
    Authoring!setTool, Authoring!Becomes, Authoring!Shows, Authoring!Op,
    Authoring!layoutCandidateFor, Authoring!Saves, Authoring!Stays, Authoring!start,
    Authoring!setAuthoringActive, Authoring!onApplyLayoutDraft, Authoring!Acquired,
    Authoring!Stopped, Authoring!markLeaseLost, Authoring!publish,
    Authoring!completePublishedEdit, Authoring!release, Authoring!Dropped, Authoring!Controls,
    Authoring!OpenPicker, Authoring!beginDirectCreate, Authoring!CancelPlacing,
    Authoring!TypeName, Authoring!handleCanvasPaneClick, Authoring!appendWorldDraftNode,
    Authoring!createDirectNode, Authoring!beginConnectionFromNode,
    Authoring!relationConnectionIsValid, Authoring!captureRelationCandidate,
    Authoring!confirmRelation, Authoring!reconnectRelation, Authoring!cancelRelationAuthoring,
    Authoring!onNodeSelect, Authoring!rememberNodePosition, Authoring!resetLayout,
    Authoring!WorldEntityNode, Authoring!WorldAccessibleRelations,
    Authoring!WorldInspectorContent, Authoring!selectEntityFromPalette,
    Authoring!WorldFloatingChrome, Authoring!openDirectCreateFromCommand,
    Authoring!executeWorldCommand, Authoring!worldCommandForShortcut,
    Authoring!WorldCommandPalette, Authoring!WorldConductorBar, Authoring!WorldWorkspaceShell,
    Authoring!Step, Authoring!Next, Worlds!Authoring!vars, Worlds!Authoring!All,
    Worlds!Authoring!NoLayout, Worlds!Authoring!createWorldAuthoringUiState,
    Worlds!Authoring!NoCompose, Worlds!Authoring!editing, Worlds!Authoring!busy,
    Worlds!Authoring!Ends, Worlds!Authoring!filterWorldProjection,
    Worlds!Authoring!filterWorldRelations, Worlds!Authoring!searchWorldProjection,
    Worlds!Authoring!Kept, Worlds!Authoring!Shown, Worlds!Authoring!visibleProjection,
    Worlds!Authoring!Selects, Worlds!Authoring!useWorldExplorerView,
    Worlds!Authoring!AuthoringPanelVisible, Worlds!Authoring!directCreateEnabled,
    Worlds!Authoring!relationAuthoringAvailable, Worlds!Authoring!connectionActive,
    Worlds!Authoring!ControlsShown, Worlds!Authoring!WorldDirectCreateControls,
    Worlds!Authoring!worldCommandIsAvailable, Worlds!Authoring!authoringStarted,
    Worlds!Authoring!authoringStopped, Worlds!Authoring!toggleFocusMode,
    Worlds!Authoring!nextWorldInspectorMode, Worlds!Authoring!toggleInspector,
    Worlds!Authoring!setTool, Worlds!Authoring!Becomes, Worlds!Authoring!Shows,
    Worlds!Authoring!Op, Worlds!Authoring!layoutCandidateFor, Worlds!Authoring!Saves,
    Worlds!Authoring!Stays, Worlds!Authoring!start, Worlds!Authoring!setAuthoringActive,
    Worlds!Authoring!onApplyLayoutDraft, Worlds!Authoring!Acquired, Worlds!Authoring!Stopped,
    Worlds!Authoring!markLeaseLost, Worlds!Authoring!publish,
    Worlds!Authoring!completePublishedEdit, Worlds!Authoring!release, Worlds!Authoring!Dropped,
    Worlds!Authoring!Controls, Worlds!Authoring!OpenPicker, Worlds!Authoring!beginDirectCreate,
    Worlds!Authoring!CancelPlacing, Worlds!Authoring!TypeName,
    Worlds!Authoring!handleCanvasPaneClick, Worlds!Authoring!appendWorldDraftNode,
    Worlds!Authoring!createDirectNode, Worlds!Authoring!beginConnectionFromNode,
    Worlds!Authoring!relationConnectionIsValid, Worlds!Authoring!captureRelationCandidate,
    Worlds!Authoring!confirmRelation, Worlds!Authoring!reconnectRelation,
    Worlds!Authoring!cancelRelationAuthoring, Worlds!Authoring!onNodeSelect,
    Worlds!Authoring!rememberNodePosition, Worlds!Authoring!resetLayout,
    Worlds!Authoring!WorldEntityNode, Worlds!Authoring!WorldAccessibleRelations,
    Worlds!Authoring!WorldInspectorContent, Worlds!Authoring!selectEntityFromPalette,
    Worlds!Authoring!WorldFloatingChrome, Worlds!Authoring!openDirectCreateFromCommand,
    Worlds!Authoring!executeWorldCommand, Worlds!Authoring!worldCommandForShortcut,
    Worlds!Authoring!WorldCommandPalette, Worlds!Authoring!WorldConductorBar,
    Worlds!Authoring!WorldWorkspaceShell, Worlds!Authoring!Step, Worlds!Authoring!Next
<1>3. Authoring!ToolOwnsItsDraft <=> Worlds!Authoring!ToolOwnsItsDraft
  BY DEF Authoring!editing, Authoring!AuthoringPanelVisible, Authoring!directCreateEnabled,
    Authoring!ToolOwnsItsDraft, Worlds!Authoring!editing,
    Worlds!Authoring!AuthoringPanelVisible, Worlds!Authoring!directCreateEnabled,
    Worlds!Authoring!ToolOwnsItsDraft
<1>4. Authoring!VisitorMovesStayLocal <=> Worlds!Authoring!VisitorMovesStayLocal
  BY DEF Authoring!All, Authoring!VisitorMovesStayLocal, Worlds!Authoring!All,
    Worlds!Authoring!VisitorMovesStayLocal
<1> QED BY <1>1, <1>2, <1>3, <1>4

LEMMA SameContent ==
  /\ Content!Init <=> Worlds!Content!Init
  /\ [Content!Next]_(Content!vars) <=> [Worlds!Content!Next]_(Worlds!Content!vars)
  /\ Content!PromotionIsWanted <=> Worlds!Content!PromotionIsWanted
  /\ Content!GraphIsWhole <=> Worlds!Content!GraphIsWhole
  /\ Content!PublicIsProven <=> Worlds!Content!PublicIsProven
<1>1. Content!Init <=> Worlds!Content!Init
  BY DEF Content!Init, Worlds!Content!Init
<1>2. [Content!Next]_(Content!vars) <=> [Worlds!Content!Next]_(Worlds!Content!vars)
  <2>1. \A n : /\ Content!CreateEntity(n) <=> Worlds!Content!CreateEntity(n)
               /\ Content!ArchiveEntity(n) <=> Worlds!Content!ArchiveEntity(n)
               /\ Content!RemovePortrait(n) <=> Worlds!Content!RemovePortrait(n)
    BY DEF Content!Exists, Content!Public, Content!Changed, Content!Promoted,
      Content!handleDraftChange, Content!server, Content!Rest, Content!CreateEntity,
      Content!Archived, Content!ArchiveEntity, Content!RemovePortrait, Worlds!Content!Exists,
      Worlds!Content!Public, Worlds!Content!Changed, Worlds!Content!Promoted,
      Worlds!Content!handleDraftChange, Worlds!Content!server, Worlds!Content!Rest,
      Worlds!Content!CreateEntity, Worlds!Content!Archived, Worlds!Content!ArchiveEntity,
      Worlds!Content!RemovePortrait
  <2>2. Content!Retouch <=> Worlds!Content!Retouch
    BY DEF Content!Exists, Content!Public, Content!Changed, Content!Promoted,
      Content!handleDraftChange, Content!server, Content!Rest, Content!Retouch,
      Worlds!Content!Exists, Worlds!Content!Public, Worlds!Content!Changed,
      Worlds!Content!Promoted, Worlds!Content!handleDraftChange, Worlds!Content!server,
      Worlds!Content!Rest, Worlds!Content!Retouch
  <2>3. \A r, m, v : Content!CreateRelation(r, m, v) <=> Worlds!Content!CreateRelation(r, m, v)
    BY DEF Content!Live, Content!Exists, Content!Active, Content!Public, Content!MeaningOf,
      Content!Turn, Content!Same, Content!Duplicates, Content!CanAppend, Content!Append,
      Content!Changed, Content!Promoted, Content!handleDraftChange, Content!server, Content!Rest,
      Content!CreateRelation, Worlds!Content!Live, Worlds!Content!Exists, Worlds!Content!Active,
      Worlds!Content!Public, Worlds!Content!MeaningOf, Worlds!Content!Turn, Worlds!Content!Same,
      Worlds!Content!Duplicates, Worlds!Content!CanAppend, Worlds!Content!Append,
      Worlds!Content!Changed, Worlds!Content!Promoted, Worlds!Content!handleDraftChange,
      Worlds!Content!server, Worlds!Content!Rest, Worlds!Content!CreateRelation
  <2>4. \A g, r, m : Content!Remean(g, r, m) = Worlds!Content!Remean(g, r, m)
    BY DEF Content!Exists, Content!Active, Content!MeaningOf, Content!Turn, Content!Same,
      Content!Duplicates, Content!archiveEquivalentRelations, Content!Remean,
      Worlds!Content!Exists, Worlds!Content!Active, Worlds!Content!MeaningOf,
      Worlds!Content!Turn, Worlds!Content!Same, Worlds!Content!Duplicates,
      Worlds!Content!archiveEquivalentRelations, Worlds!Content!Remean
  <2>5. \A next : Content!handleDraftChange(next) <=> Worlds!Content!handleDraftChange(next)
    BY DEF Content!Exists, Content!Public, Content!Changed, Content!Promoted,
      Content!handleDraftChange, Worlds!Content!Exists, Worlds!Content!Public,
      Worlds!Content!Changed, Worlds!Content!Promoted, Worlds!Content!handleDraftChange
  <2>6. \A r, y :
      Content!changeWorldDraftRelationType(r, y)
        <=> Worlds!Content!changeWorldDraftRelationType(r, y)
    BY <2>4, <2>5 DEF Content!Exists, Content!Active, Content!MeaningOf, Content!server,
      Content!Rest, Content!changeWorldDraftRelationType, Worlds!Content!Exists,
      Worlds!Content!Active, Worlds!Content!MeaningOf, Worlds!Content!server,
      Worlds!Content!Rest, Worlds!Content!changeWorldDraftRelationType
  <2>7. \A r, p : Content!reconnectRelation(r, p) <=> Worlds!Content!reconnectRelation(r, p)
    BY SMTT(60) DEF Content!Live, Content!Exists, Content!Active, Content!MeaningOf,
      Content!Turn, Content!Same, Content!Duplicates, Content!archiveEquivalentRelations,
      Content!Remean, Content!server, Content!Rest, Content!reconnectRelation,
      Worlds!Content!Live, Worlds!Content!Exists, Worlds!Content!Active,
      Worlds!Content!MeaningOf, Worlds!Content!Turn, Worlds!Content!Same,
      Worlds!Content!Duplicates, Worlds!Content!archiveEquivalentRelations,
      Worlds!Content!Remean, Worlds!Content!server, Worlds!Content!Rest,
      Worlds!Content!reconnectRelation
  <2>8. \A r, v : Content!SetVisibility(r, v) <=> Worlds!Content!SetVisibility(r, v)
    BY DEF Content!Exists, Content!Public, Content!Changed, Content!Promoted,
      Content!handleDraftChange, Content!server, Content!Rest, Content!SetVisibility,
      Worlds!Content!Exists, Worlds!Content!Public, Worlds!Content!Changed,
      Worlds!Content!Promoted, Worlds!Content!handleDraftChange, Worlds!Content!server,
      Worlds!Content!Rest, Worlds!Content!SetVisibility
  <2>9. \A r : /\ Content!ArchiveRelation(r) <=> Worlds!Content!ArchiveRelation(r)
               /\ Content!OpenPanel(r) <=> Worlds!Content!OpenPanel(r)
    BY DEF Content!Exists, Content!Active, Content!Public, Content!Changed, Content!Promoted,
      Content!handleDraftChange, Content!server, Content!Rest, Content!ArchiveRelation,
      Content!OpenPanel, Worlds!Content!Exists, Worlds!Content!Active, Worlds!Content!Public,
      Worlds!Content!Changed, Worlds!Content!Promoted, Worlds!Content!handleDraftChange,
      Worlds!Content!server, Worlds!Content!Rest, Worlds!Content!ArchiveRelation,
      Worlds!Content!OpenPanel
  <2>10. \A y, d, a : Content!SetType(y, d, a) <=> Worlds!Content!SetType(y, d, a)
    BY DEF Content!Exists, Content!Public, Content!Changed, Content!Promoted,
      Content!handleDraftChange, Content!server, Content!Rest, Content!SetType,
      Worlds!Content!Exists, Worlds!Content!Public, Worlds!Content!Changed,
      Worlds!Content!Promoted, Worlds!Content!handleDraftChange, Worlds!Content!server,
      Worlds!Content!Rest, Worlds!Content!SetType
  <2>11. /\ Content!GateReads <=> Worlds!Content!GateReads
         /\ Content!GateAnswers <=> Worlds!Content!GateAnswers
         /\ Content!ClosePanel <=> Worlds!Content!ClosePanel
         /\ Content!EndUpload <=> Worlds!Content!EndUpload
    BY DEF Content!Exists, Content!Active, Content!server, Content!Rest, Content!Eligible,
      Content!GateReads, Content!GateAnswers, Content!ClosePanel, Content!EndUpload,
      Worlds!Content!Exists, Worlds!Content!Active, Worlds!Content!server, Worlds!Content!Rest,
      Worlds!Content!Eligible, Worlds!Content!GateReads, Worlds!Content!GateAnswers,
      Worlds!Content!ClosePanel, Worlds!Content!EndUpload
  <2>12. \A q : /\ Content!saveProvenance(q) <=> Worlds!Content!saveProvenance(q)
                /\ Content!Retire(q) <=> Worlds!Content!Retire(q)
                /\ Content!StartUpload(q) <=> Worlds!Content!StartUpload(q)
    BY DEF Content!Exists, Content!Active, Content!Public, Content!MeaningOf, Content!server,
      Content!Replaceable, Content!saveProvenance, Content!Retire, Content!StartUpload,
      Worlds!Content!Exists, Worlds!Content!Active, Worlds!Content!Public,
      Worlds!Content!MeaningOf, Worlds!Content!server, Worlds!Content!Replaceable,
      Worlds!Content!saveProvenance, Worlds!Content!Retire, Worlds!Content!StartUpload
  <2>13. Content!Publish <=> Worlds!Content!Publish
    BY DEF Content!Exists, Content!Active, Content!Public, Content!MeaningOf, Content!Turn,
      Content!Same, Content!Duplicates, Content!WellFormed, Content!DuplicateFree, Content!Row,
      Content!Rewritten, Content!Proven, Content!Reviewed, Content!Publish,
      Worlds!Content!Exists, Worlds!Content!Active, Worlds!Content!Public,
      Worlds!Content!MeaningOf, Worlds!Content!Turn, Worlds!Content!Same,
      Worlds!Content!Duplicates, Worlds!Content!WellFormed, Worlds!Content!DuplicateFree,
      Worlds!Content!Row, Worlds!Content!Rewritten, Worlds!Content!Proven,
      Worlds!Content!Reviewed, Worlds!Content!Publish
  <2> QED BY ONLY <2>1, <2>2, <2>3, <2>4, <2>5, <2>6, <2>7, <2>8, <2>9, <2>10, <2>11, <2>12, <2>13
         DEF Content!Next, Content!vars, Content!EntityEditor, Content!RelationEditor,
           Content!Exists, Content!Edit, Content!Done, Content!Audience, Worlds!Content!Next,
           Worlds!Content!vars, Worlds!Content!EntityEditor, Worlds!Content!RelationEditor,
           Worlds!Content!Exists, Worlds!Content!Edit, Worlds!Content!Done,
           Worlds!Content!Audience
<1>3. Content!PromotionIsWanted <=> Worlds!Content!PromotionIsWanted
  BY DEF Content!Exists, Content!Public, Content!PromotionIsWanted, Worlds!Content!Exists,
    Worlds!Content!Public, Worlds!Content!PromotionIsWanted
<1>4. Content!GraphIsWhole <=> Worlds!Content!GraphIsWhole
  BY DEF Content!Live, Content!Exists, Content!Active, Content!MeaningOf, Content!Turn,
    Content!Same, Content!Duplicates, Content!GraphIsWhole, Worlds!Content!Live,
    Worlds!Content!Exists, Worlds!Content!Active, Worlds!Content!MeaningOf,
    Worlds!Content!Turn, Worlds!Content!Same, Worlds!Content!Duplicates,
    Worlds!Content!GraphIsWhole
<1>5. Content!PublicIsProven <=> Worlds!Content!PublicIsProven
  BY DEF Content!Exists, Content!Active, Content!Public, Content!MeaningOf, Content!Turn,
    Content!PublicIsProven, Worlds!Content!Exists, Worlds!Content!Active,
    Worlds!Content!Public, Worlds!Content!MeaningOf, Worlds!Content!Turn,
    Worlds!Content!PublicIsProven
<1> QED BY <1>1, <1>2, <1>3, <1>4, <1>5

(* What an editor was told is published stays published, nobody sees the   *)
(* unpublished work of another, and one checkpoint is the one to recover.  *)
THEOREM WorldEditsHold == Spec => []WorldEditsAreKept
<1>1. World!Spec => [](World!ToldIsPublished /\ World!DraftsArePrivate /\ World!OneActive)
  <2>1. Worlds!WorldInstance
    BY ValuesAssumption DEF Worlds!WorldInstance
  <2>2. Worlds!World!Spec => [](/\ Worlds!World!ToldIsPublished
                                /\ Worlds!World!DraftsArePrivate
                                /\ Worlds!World!OneActive)
    BY <2>1, Worlds!ToldIsPublished, Worlds!DraftsArePrivate, Worlds!OneActive, PTL
  <2> QED BY <2>2, SameWorld, PTL DEF World!Spec, Worlds!World!Spec
<1>2. ASSUME At("World") => World!ToldIsPublished /\ World!DraftsArePrivate /\ World!OneActive
      PROVE  WorldEditsAreKept
  BY <1>2 DEF WorldEditsAreKept, At
<1> QED BY FocusWorld, <1>1, <1>2, PTL DEF Spec, World!Spec

(* A draft names only portraits its editors can see, what is bound is what *)
(* was wanted, and what readers are sent to was verified and is there.      *)
THEOREM PortraitsHold == Spec => []PortraitIsProven
<1>1. Media!Spec => [](/\ Media!PortraitsAreThere
                       /\ Media!BoundAsDrafted
                       /\ Media!PublicIsVerified)
  <2>1. Worlds!MediaInstance
    <3>1. Nil \notin {f1, f2} /\ "unset" \notin {f1, f2}
      BY ValuesAssumption
    <3>2. Nil \notin {"staged", "verified_public"}
      BY WordsAssumption
    <3>3. 2 \in Nat \ {0}
      OBVIOUS
    <3> QED BY ONLY <3>1, <3>2, <3>3 DEF Worlds!MediaInstance, Worlds!Media!Unset
  <2>2. Worlds!Media!Spec => [](/\ Worlds!Media!PortraitsAreThere
                                /\ Worlds!Media!BoundAsDrafted
                                /\ Worlds!Media!PublicIsVerified)
    BY <2>1, Worlds!PortraitsAreThere, Worlds!PortraitsAreWanted, PTL
  <2> QED BY <2>2, SameMedia, PTL DEF Media!Spec, Worlds!Media!Spec
<1>2. ASSUME At("Media") => /\ Media!PortraitsAreThere
                            /\ Media!BoundAsDrafted
                            /\ Media!PublicIsVerified
      PROVE  PortraitIsProven
  BY <1>2 DEF PortraitIsProven, At
<1> QED BY FocusMedia, <1>1, <1>2, PTL DEF Spec, Media!Spec

(* What is composed on the canvas belongs to the tool in hand and its      *)
(* session, and what a visitor moves is never saved.                       *)
THEOREM AuthoringHolds == Spec => []AuthoringIsScoped
<1>1. Authoring!Spec => [](Authoring!ToolOwnsItsDraft /\ Authoring!VisitorMovesStayLocal)
  <2>1. Worlds!AuthoringInstance
    BY WordsAssumption DEF Worlds!AuthoringInstance
  <2>2. Worlds!Authoring!Spec => [](/\ Worlds!Authoring!ToolOwnsItsDraft
                                    /\ Worlds!Authoring!VisitorMovesStayLocal)
    BY <2>1, Worlds!AuthoringIsOwned, PTL
  <2> QED BY <2>2, SameAuthoring, PTL DEF Authoring!Spec, Worlds!Authoring!Spec
<1>2. ASSUME At("Authoring") => Authoring!ToolOwnsItsDraft /\ Authoring!VisitorMovesStayLocal
      PROVE  AuthoringIsScoped
  BY <1>2 DEF AuthoringIsScoped, At
<1> QED BY FocusAuthoring, <1>1, <1>2, PTL DEF Spec, Authoring!Spec

\* The World that is checked is one the content's proofs speak of.
LEMMA ContentIsInstance == Worlds!ContentInstance
<1>1. Nil \notin Worlds!Content!Edge
  BY RecordsAssumption DEF Worlds!Content!Edge, Worlds!Content!Audience
<1>2. PICK e : e = [source |-> n1, target |-> n2, type |-> y1]
  OBVIOUS
<1>3. e \in [source : {n1, n2}, target : {n1, n2}, type : {y1, y2}] /\ e.source # e.target
  BY <1>2, ValuesAssumption
<1>4. \A p \in {<<n1, n2>>, <<n2, n1>>} : {p[1], p[2]} \subseteq {n1, n2, n3} /\ p[1] # p[2]
  BY ValuesAssumption
<1>5. {n1, n2} \subseteq {n1, n2, n3} /\ {n1} \subseteq {n1, n2, n3}
  OBVIOUS
<1> QED BY ONLY <1>1, <1>2, <1>3, <1>4, <1>5 DEF Worlds!ContentInstance

(* No relation of a draft hangs or is said twice, and what is published    *)
(* for everybody has canon attached to what it says.                       *)
THEOREM ContentHolds == Spec => []WorldIsProven
<1>1. Content!Spec => [](Content!GraphIsWhole /\ Content!PublicIsProven)
  <2>1. Worlds!ContentInstance
    BY ContentIsInstance
  <2>2. Worlds!Content!Spec => [](Worlds!Content!GraphIsWhole /\ Worlds!Content!PublicIsProven)
    BY <2>1, Worlds!WorldIsProven, PTL
  <2> QED BY <2>2, SameContent, PTL DEF Content!Spec, Worlds!Content!Spec
<1>2. ASSUME At("Content") => Content!GraphIsWhole /\ Content!PublicIsProven
      PROVE  WorldIsProven
  BY <1>2 DEF WorldIsProven, At
<1> QED BY FocusContent, <1>1, <1>2, PTL DEF Spec, Content!Spec

(* A late answer publishes a relation only if that was last asked for. *)
THEOREM PromotionHolds == Spec => PromotionIsWanted
<1>1. Content!Spec => [][Content!PromotionIsWanted]_(Content!vars)
  <2>1. Worlds!ContentInstance
    BY ContentIsInstance
  <2>2. Worlds!Content!Spec => [][Worlds!Content!PromotionIsWanted]_(Worlds!Content!vars)
    BY <2>1, Worlds!PromotionIsWanted
  <2>3. [Worlds!Content!PromotionIsWanted]_(Worlds!Content!vars)
          => [Content!PromotionIsWanted]_(Content!vars)
    BY SameContent DEF Content!vars, Worlds!Content!vars
  <2> QED BY <2>2, <2>3, SameContent, PTL DEF Content!Spec, Worlds!Content!Spec
<1>2. [Content!PromotionIsWanted]_(Content!vars) => (At("Content") => Content!PromotionIsWanted)
  BY DEF Content!PromotionIsWanted, Content!vars
<1> QED BY FocusContent, <1>1, <1>2, PTL DEF Spec, Content!Spec, PromotionIsWanted, At

-----------------------------------------------------------------------------
(* The page's session with the Agent, sources and installations. *)
Hosts == INSTANCE HostProofs WITH
  agent <- s1, bridge <- s2, callers <- s3, mail <- s4, breaks <- s5, Caller <- {q1, q2},
  MaxToken <- 3, MaxSessions <- 1, MaxBreak <- 4, current <- s1, repl <- s2, backup <- s3,
  displaced <- s4, up <- s5, gate <- s6, worker <- s7, host <- s8, sealed <- s9,
  reviewed <- s10, count <- s11, Upload <- 1 .. 3, Run <- {r1, r2}, MaxDamage <- 2,
  MaxCrash <- 0, MaxFault <- 1, tree <- s1, marker <- s2, product <- s3, guard <- s4,
  mutex <- s5, proc <- s6, msi <- s7, helper <- s8, journal <- s9, stale <- s10, begun <- s11,
  proven <- s12, tally <- s13, Process <- {q1, q2}, Version <- 1 .. 2, First <- 1,
  Stray <- {"absent", "partial", "whole"}, Wish <- {"update", "setup", "remove"},
  Trouble <- {"stop", "clean", "copy", "candidate", "timeout"}, MaxWish <- 2, MaxOpen <- 1,
  MaxTrouble <- 1, prep <- s1, thread <- s2, machine <- s3, dispatch <- s4, runner <- s5,
  jobs <- s6, form <- s7, other <- s8, asked <- s9, mishaps <- s10, Profile <- {w1, w2},
  Qwen <- w2, MaxPreparation <- 2, MaxJob <- 1, MaxMishap <- 0

(* The steps proved about there are those that are checked here. *)
LEMMA SameBridge ==
  /\ Bridge!Init <=> Hosts!Bridge!Init
  /\ [Bridge!Next]_(Bridge!vars) <=> [Hosts!Bridge!Next]_(Hosts!Bridge!vars)
  /\ Bridge!AppliedOnce <=> Hosts!Bridge!AppliedOnce
  /\ Bridge!StaysDisconnected <=> Hosts!Bridge!StaysDisconnected
<1>1. Bridge!Init <=> Hosts!Bridge!Init
  BY DEF Bridge!Unused, Bridge!Init, Hosts!Bridge!Unused, Hosts!Bridge!Init
<1>2. [Bridge!Next]_(Bridge!vars) <=> [Hosts!Bridge!Next]_(Hosts!Bridge!vars)
  BY DEF Bridge!vars, Bridge!Token, Bridge!Legacy, Bridge!Owner, Bridge!Endpoint, Bridge!Size,
    Bridge!Limit, Bridge!Unused, Bridge!Breaks, Bridge!With, Bridge!End, Bridge!Restart,
    Bridge!Expire, Bridge!Abort, Bridge!disconnect, Bridge!pair, Bridge!connect,
    Bridge!Request, Bridge!Try, Bridge!Call, Bridge!Authorized, Bridge!Handle, Bridge!Lose,
    Bridge!Retries, Bridge!requestOnce, Bridge!Health, Bridge!Oldest, Bridge!Issued,
    Bridge!Pairs, Bridge!Session, Bridge!Unanswered, Bridge!Again, Bridge!Next,
    Bridge!Cardinality, Hosts!Bridge!vars, Hosts!Bridge!Token, Hosts!Bridge!Legacy,
    Hosts!Bridge!Owner, Hosts!Bridge!Endpoint, Hosts!Bridge!Size, Hosts!Bridge!Limit,
    Hosts!Bridge!Unused, Hosts!Bridge!Breaks, Hosts!Bridge!With, Hosts!Bridge!End,
    Hosts!Bridge!Restart, Hosts!Bridge!Expire, Hosts!Bridge!Abort, Hosts!Bridge!disconnect,
    Hosts!Bridge!pair, Hosts!Bridge!connect, Hosts!Bridge!Request, Hosts!Bridge!Try,
    Hosts!Bridge!Call, Hosts!Bridge!Authorized, Hosts!Bridge!Handle, Hosts!Bridge!Lose,
    Hosts!Bridge!Retries, Hosts!Bridge!requestOnce, Hosts!Bridge!Health, Hosts!Bridge!Oldest,
    Hosts!Bridge!Issued, Hosts!Bridge!Pairs, Hosts!Bridge!Session, Hosts!Bridge!Unanswered,
    Hosts!Bridge!Again, Hosts!Bridge!Next, Hosts!Bridge!Cardinality
<1>3. Bridge!AppliedOnce <=> Hosts!Bridge!AppliedOnce
  BY DEF Bridge!AppliedOnce, Hosts!Bridge!AppliedOnce
<1>4. Bridge!StaysDisconnected <=> Hosts!Bridge!StaysDisconnected
  BY DEF Bridge!StaysDisconnected, Hosts!Bridge!StaysDisconnected
<1> QED BY <1>1, <1>2, <1>3, <1>4

LEMMA SameStaging ==
  /\ Staging!Init <=> Hosts!Staging!Init
  /\ [Staging!Next]_(Staging!vars) <=> [Hosts!Staging!Next]_(Hosts!Staging!vars)
  /\ Staging!SourceIsStill <=> Hosts!Staging!SourceIsStill
  /\ Staging!AcceptedIsThere <=> Hosts!Staging!AcceptedIsThere
  /\ Staging!RunsAreKept <=> Hosts!Staging!RunsAreKept
<1>1. Staging!Init <=> Hosts!Staging!Init
  BY DEF Staging!NotSent, Staging!Nowhere, Staging!Init, Hosts!Staging!NotSent,
    Hosts!Staging!Nowhere, Hosts!Staging!Init
<1>2. [Staging!Next]_(Staging!vars) <=> [Hosts!Staging!Next]_(Hosts!Staging!vars)
  BY DEF Staging!vars, Staging!work, Staging!places, Staging!Package, Staging!Nowhere,
    Staging!Reusable, Staging!Invalid, Staging!InUse, Staging!At, Staging!Goes, Staging!Fault,
    Staging!Drop, Staging!Look, Staging!Ingest, Staging!Relook, Staging!RepairLooks,
    Staging!RepairBegins, Staging!Refuse, Staging!CopyRunHistory, Staging!MoveAway,
    Staging!CopyFails, Staging!MoveIn, Staging!MoveInFails, Staging!Clean, Staging!Serving,
    Staging!Claim, Staging!Seal, Staging!JobFails, Staging!SaveReview, Staging!Damage,
    Staging!Crash, Staging!Start, Staging!Replacements, Staging!Backups, Staging!Left,
    Staging!RecoverKeeps, Staging!RecoverDisplaces, Staging!RecoverPromotes,
    Staging!RecoverFails, Staging!RecoverSweeps, Staging!Next, Hosts!Staging!vars,
    Hosts!Staging!work, Hosts!Staging!places, Hosts!Staging!Package, Hosts!Staging!Nowhere,
    Hosts!Staging!Reusable, Hosts!Staging!Invalid, Hosts!Staging!InUse, Hosts!Staging!At,
    Hosts!Staging!Goes, Hosts!Staging!Fault, Hosts!Staging!Drop, Hosts!Staging!Look,
    Hosts!Staging!Ingest, Hosts!Staging!Relook, Hosts!Staging!RepairLooks,
    Hosts!Staging!RepairBegins, Hosts!Staging!Refuse, Hosts!Staging!CopyRunHistory,
    Hosts!Staging!MoveAway, Hosts!Staging!CopyFails, Hosts!Staging!MoveIn,
    Hosts!Staging!MoveInFails, Hosts!Staging!Clean, Hosts!Staging!Serving, Hosts!Staging!Claim,
    Hosts!Staging!Seal, Hosts!Staging!JobFails, Hosts!Staging!SaveReview, Hosts!Staging!Damage,
    Hosts!Staging!Crash, Hosts!Staging!Start, Hosts!Staging!Replacements,
    Hosts!Staging!Backups, Hosts!Staging!Left, Hosts!Staging!RecoverKeeps,
    Hosts!Staging!RecoverDisplaces, Hosts!Staging!RecoverPromotes, Hosts!Staging!RecoverFails,
    Hosts!Staging!RecoverSweeps, Hosts!Staging!Next
<1>3. Staging!SourceIsStill <=> Hosts!Staging!SourceIsStill
  BY DEF Staging!SourceIsStill, Hosts!Staging!SourceIsStill
<1>4. Staging!AcceptedIsThere <=> Hosts!Staging!AcceptedIsThere
  BY DEF Staging!Serving, Staging!Backups, Staging!AcceptedIsThere, Hosts!Staging!Serving,
    Hosts!Staging!Backups, Hosts!Staging!AcceptedIsThere
<1>5. Staging!RunsAreKept <=> Hosts!Staging!RunsAreKept
  BY DEF Staging!Replacements, Staging!Backups, Staging!OnDisk, Staging!RunsAreKept,
    Hosts!Staging!Replacements, Hosts!Staging!Backups, Hosts!Staging!OnDisk,
    Hosts!Staging!RunsAreKept
<1> QED BY <1>1, <1>2, <1>3, <1>4, <1>5

LEMMA SameInstallation ==
  /\ Installation!Init <=> Hosts!Installation!Init
  /\ [Installation!Next]_(Installation!vars) <=> [Hosts!Installation!Next]_(Hosts!Installation!vars)
  /\ Installation!InstallerIsAlone <=> Hosts!Installation!InstallerIsAlone
  /\ Installation!ProductIsWhole <=> Hosts!Installation!ProductIsWhole
  /\ Installation!OneVersionRuns <=> Hosts!Installation!OneVersionRuns
  /\ Installation!ReceiptIsTrue <=> Hosts!Installation!ReceiptIsTrue
<1>1. Installation!Init <=> Hosts!Installation!Init
  BY DEF Installation!Off, Installation!NoMsi, Installation!NoRecord, Installation!NoHelper,
    Installation!Init, Hosts!Installation!Off, Hosts!Installation!NoMsi,
    Hosts!Installation!NoRecord, Hosts!Installation!NoHelper, Hosts!Installation!Init
<1>2. [Installation!Next]_(Installation!vars) <=> [Hosts!Installation!Next]_(Hosts!Installation!vars)
  <2>1. \A p \in {q1, q2} : /\ Installation!Open(p) <=> Hosts!Installation!Open(p)
                            /\ Installation!Enter(p) <=> Hosts!Installation!Enter(p)
                            /\ Installation!Decide(p) <=> Hosts!Installation!Decide(p)
                            /\ Installation!TerminateNonTarget(p) <=> Hosts!Installation!TerminateNonTarget(p)
                            /\ Installation!CleanupNonTarget(p) <=> Hosts!Installation!CleanupNonTarget(p)
                            /\ Installation!Mark(p) <=> Hosts!Installation!Mark(p)
    BY DEF Installation!disk, Installation!history, Installation!books, Installation!Off,
      Installation!Whole, Installation!Hurt, Installation!Started, Installation!Goes,
      Installation!Ends, Installation!Open, Installation!Standing, Installation!Enter,
      Installation!AuthoritativeVersion, Installation!Decide, Installation!TerminateNonTarget,
      Installation!CleanupNonTarget, Installation!Mark, Hosts!Installation!disk,
      Hosts!Installation!history, Hosts!Installation!books, Hosts!Installation!Off,
      Hosts!Installation!Whole, Hosts!Installation!Hurt, Hosts!Installation!Started,
      Hosts!Installation!Goes, Hosts!Installation!Ends, Hosts!Installation!Open,
      Hosts!Installation!Standing, Hosts!Installation!Enter,
      Hosts!Installation!AuthoritativeVersion, Hosts!Installation!Decide,
      Hosts!Installation!TerminateNonTarget, Hosts!Installation!CleanupNonTarget,
      Hosts!Installation!Mark
  <2>2. \A p \in {q1, q2} : /\ Installation!RecoverReads(p) <=> Hosts!Installation!RecoverReads(p)
                            /\ Installation!RecoverWrites(p) <=> Hosts!Installation!RecoverWrites(p)
                            /\ Installation!Exit(p) <=> Hosts!Installation!Exit(p)
                            /\ Installation!Die(p) <=> Hosts!Installation!Die(p)
                            /\ Installation!InstallUpdate(p) <=> Hosts!Installation!InstallUpdate(p)
                            /\ Installation!Uninstall(p) <=> Hosts!Installation!Uninstall(p)
    BY DEF Installation!disk, Installation!history, Installation!books, Installation!Off,
      Installation!Record, Installation!Whole, Installation!Hurt, Installation!Goes,
      Installation!Ends, Installation!RecoverReads, Installation!Survived, Installation!Provable,
      Installation!Closed, Installation!RecoverWrites, Installation!Exit, Installation!Die,
      Installation!Ask, Installation!HelperAt, Installation!Writes, Installation!Begin,
      Installation!InstallUpdate, Installation!Uninstall, Hosts!Installation!disk,
      Hosts!Installation!history, Hosts!Installation!books, Hosts!Installation!Off,
      Hosts!Installation!Record, Hosts!Installation!Whole, Hosts!Installation!Hurt,
      Hosts!Installation!Goes, Hosts!Installation!Ends, Hosts!Installation!RecoverReads,
      Hosts!Installation!Survived, Hosts!Installation!Provable, Hosts!Installation!Closed,
      Hosts!Installation!RecoverWrites, Hosts!Installation!Exit, Hosts!Installation!Die,
      Hosts!Installation!Ask, Hosts!Installation!HelperAt, Hosts!Installation!Writes,
      Hosts!Installation!Begin, Hosts!Installation!InstallUpdate, Hosts!Installation!Uninstall
  <2>3. /\ Installation!Setup <=> Hosts!Installation!Setup
        /\ Installation!Removal <=> Hosts!Installation!Removal
        /\ Installation!MsiGuards <=> Hosts!Installation!MsiGuards
        /\ Installation!MsiStops <=> Hosts!Installation!MsiStops
        /\ Installation!MsiRemoves <=> Hosts!Installation!MsiRemoves
        /\ Installation!MsiCopies <=> Hosts!Installation!MsiCopies
        /\ Installation!MsiCopied <=> Hosts!Installation!MsiCopied
        /\ Installation!MsiVerifies <=> Hosts!Installation!MsiVerifies
    BY DEF Installation!disk, Installation!history, Installation!books, Installation!Off,
      Installation!NoMsi, Installation!Guard, Installation!Whole, Installation!Up,
      Installation!Idle, Installation!Hurt, Installation!Started, Installation!NobodyRuns,
      Installation!MsiAt, Installation!MsiGoes, Installation!MsiReturns, Installation!NewMsi,
      Installation!Ask, Installation!Setup, Installation!Removal, Installation!MsiGuards,
      Installation!MsiStops, Installation!MsiRemoves, Installation!MsiCopies,
      Installation!MsiCopied, Installation!MsiVerifies, Hosts!Installation!disk,
      Hosts!Installation!history, Hosts!Installation!books, Hosts!Installation!Off,
      Hosts!Installation!NoMsi, Hosts!Installation!Guard, Hosts!Installation!Whole,
      Hosts!Installation!Up, Hosts!Installation!Idle, Hosts!Installation!Hurt,
      Hosts!Installation!Started, Hosts!Installation!NobodyRuns, Hosts!Installation!MsiAt,
      Hosts!Installation!MsiGoes, Hosts!Installation!MsiReturns, Hosts!Installation!NewMsi,
      Hosts!Installation!Ask, Hosts!Installation!Setup, Hosts!Installation!Removal,
      Hosts!Installation!MsiGuards, Hosts!Installation!MsiStops, Hosts!Installation!MsiRemoves,
      Hosts!Installation!MsiCopies, Hosts!Installation!MsiCopied, Hosts!Installation!MsiVerifies
  <2>4. /\ Installation!MsiAwaits <=> Hosts!Installation!MsiAwaits
        /\ Installation!MsiRegisters <=> Hosts!Installation!MsiRegisters
        /\ Installation!MsiPreparesRemoval <=> Hosts!Installation!MsiPreparesRemoval
        /\ Installation!MsiErases <=> Hosts!Installation!MsiErases
        /\ Installation!MsiCommits <=> Hosts!Installation!MsiCommits
        /\ Installation!MsiRestores <=> Hosts!Installation!MsiRestores
        /\ Installation!MsiRevives <=> Hosts!Installation!MsiRevives
        /\ Installation!MsiRestarts <=> Hosts!Installation!MsiRestarts
    BY DEF Installation!disk, Installation!history, Installation!books, Installation!Off,
      Installation!NoMsi, Installation!Whole, Installation!Up, Installation!Idle,
      Installation!Hurt, Installation!Started, Installation!NobodyRuns, Installation!Launch,
      Installation!MsiAt, Installation!MsiGoes, Installation!MsiReturns, Installation!MsiAwaits,
      Installation!MsiRegisters, Installation!MsiPreparesRemoval, Installation!MsiErases,
      Installation!MsiCommits, Installation!MsiRestores, Installation!MsiRevives,
      Installation!RestartSurviving, Installation!MsiRestarts, Hosts!Installation!disk,
      Hosts!Installation!history, Hosts!Installation!books, Hosts!Installation!Off,
      Hosts!Installation!NoMsi, Hosts!Installation!Whole, Hosts!Installation!Up,
      Hosts!Installation!Idle, Hosts!Installation!Hurt, Hosts!Installation!Started,
      Hosts!Installation!NobodyRuns, Hosts!Installation!Launch, Hosts!Installation!MsiAt,
      Hosts!Installation!MsiGoes, Hosts!Installation!MsiReturns, Hosts!Installation!MsiAwaits,
      Hosts!Installation!MsiRegisters, Hosts!Installation!MsiPreparesRemoval,
      Hosts!Installation!MsiErases, Hosts!Installation!MsiCommits,
      Hosts!Installation!MsiRestores, Hosts!Installation!MsiRevives,
      Hosts!Installation!RestartSurviving, Hosts!Installation!MsiRestarts
  <2>5. /\ Installation!HelperGuards <=> Hosts!Installation!HelperGuards
        /\ Installation!HelperStops <=> Hosts!Installation!HelperStops
        /\ Installation!HelperRuns <=> Hosts!Installation!HelperRuns
        /\ Installation!HelperTimesOut <=> Hosts!Installation!HelperTimesOut
        /\ Installation!HelperLearns <=> Hosts!Installation!HelperLearns
        /\ Installation!HelperChecks <=> Hosts!Installation!HelperChecks
    BY DEF Installation!disk, Installation!history, Installation!books, Installation!Off,
      Installation!NoMsi, Installation!Guard, Installation!Whole, Installation!Hurt,
      Installation!NobodyRuns, Installation!MsiAt, Installation!NewMsi, Installation!HelperAt,
      Installation!HelperGoes, Installation!Writes, Installation!Begin, Installation!Stage,
      Installation!HelperGuards, Installation!Updates, Installation!Target,
      Installation!HelperStops, Installation!HelperRuns, Installation!HelperTimesOut,
      Installation!HelperLearns, Installation!HelperChecks, Hosts!Installation!disk,
      Hosts!Installation!history, Hosts!Installation!books, Hosts!Installation!Off,
      Hosts!Installation!NoMsi, Hosts!Installation!Guard, Hosts!Installation!Whole,
      Hosts!Installation!Hurt, Hosts!Installation!NobodyRuns, Hosts!Installation!MsiAt,
      Hosts!Installation!NewMsi, Hosts!Installation!HelperAt, Hosts!Installation!HelperGoes,
      Hosts!Installation!Writes, Hosts!Installation!Begin, Hosts!Installation!Stage,
      Hosts!Installation!HelperGuards, Hosts!Installation!Updates, Hosts!Installation!Target,
      Hosts!Installation!HelperStops, Hosts!Installation!HelperRuns,
      Hosts!Installation!HelperTimesOut, Hosts!Installation!HelperLearns,
      Hosts!Installation!HelperChecks
  <2>6. /\ Installation!HelperMeets <=> Hosts!Installation!HelperMeets
        /\ Installation!HelperAwaits <=> Hosts!Installation!HelperAwaits
        /\ Installation!HelperCompletes <=> Hosts!Installation!HelperCompletes
        /\ Installation!HelperFails <=> Hosts!Installation!HelperFails
        /\ Installation!HelperDies <=> Hosts!Installation!HelperDies
        /\ Installation!GuardAges <=> Hosts!Installation!GuardAges
        /\ Installation!JournalAges <=> Hosts!Installation!JournalAges
    BY DEF Installation!disk, Installation!history, Installation!books, Installation!NoRecord,
      Installation!NoHelper, Installation!Whole, Installation!Up, Installation!Idle,
      Installation!Hurt, Installation!Started, Installation!Launch,
      Installation!RestartSurviving, Installation!HelperAt, Installation!HelperGoes,
      Installation!Writes, Installation!Stage, Installation!Settle, Installation!Updates,
      Installation!Target, Installation!HelperMeets, Installation!HelperAwaits,
      Installation!HelperCompletes, Installation!HelperFails, Installation!HelperDies,
      Installation!GuardAges, Installation!JournalAges, Hosts!Installation!disk,
      Hosts!Installation!history, Hosts!Installation!books, Hosts!Installation!NoRecord,
      Hosts!Installation!NoHelper, Hosts!Installation!Whole, Hosts!Installation!Up,
      Hosts!Installation!Idle, Hosts!Installation!Hurt, Hosts!Installation!Started,
      Hosts!Installation!Launch, Hosts!Installation!RestartSurviving,
      Hosts!Installation!HelperAt, Hosts!Installation!HelperGoes, Hosts!Installation!Writes,
      Hosts!Installation!Stage, Hosts!Installation!Settle, Hosts!Installation!Updates,
      Hosts!Installation!Target, Hosts!Installation!HelperMeets, Hosts!Installation!HelperAwaits,
      Hosts!Installation!HelperCompletes, Hosts!Installation!HelperFails,
      Hosts!Installation!HelperDies, Hosts!Installation!GuardAges, Hosts!Installation!JournalAges
  <2> QED BY ONLY <2>1, <2>2, <2>3, <2>4, <2>5, <2>6
         DEF Installation!Next, Installation!vars, Hosts!Installation!Next,
           Hosts!Installation!vars
<1>3. Installation!InstallerIsAlone <=> Hosts!Installation!InstallerIsAlone
  BY DEF Installation!Transaction, Installation!Repairing, Installation!InstallerIsAlone,
    Hosts!Installation!Transaction, Hosts!Installation!Repairing,
    Hosts!Installation!InstallerIsAlone
<1>4. Installation!ProductIsWhole <=> Hosts!Installation!ProductIsWhole
  BY DEF Installation!Whole, Installation!Transaction, Installation!ProductIsWhole,
    Hosts!Installation!Whole, Hosts!Installation!Transaction, Hosts!Installation!ProductIsWhole
<1>5. Installation!OneVersionRuns <=> Hosts!Installation!OneVersionRuns
  BY DEF Installation!OneVersionRuns, Hosts!Installation!OneVersionRuns
<1>6. Installation!ReceiptIsTrue <=> Hosts!Installation!ReceiptIsTrue
  BY DEF Installation!ReceiptIsTrue, Hosts!Installation!ReceiptIsTrue
<1> QED BY <1>1, <1>2, <1>3, <1>4, <1>5, <1>6

LEMMA SamePreparation ==
  /\ Preparation!Init <=> Hosts!Preparation!Init
  /\ [Preparation!Next]_(Preparation!vars) <=> [Hosts!Preparation!Next]_(Hosts!Preparation!vars)
  /\ Preparation!NoContention <=> Hosts!Preparation!NoContention
  /\ Preparation!CancelIsFenced <=> Hosts!Preparation!CancelIsFenced
<1>1. Preparation!Init <=> Hosts!Preparation!Init
  BY DEF Preparation!Idle, Preparation!NoThread, Preparation!Fresh, Preparation!Init,
    Hosts!Preparation!Idle, Hosts!Preparation!NoThread, Hosts!Preparation!Fresh,
    Hosts!Preparation!Init
<1>2. [Preparation!Next]_(Preparation!vars) <=> [Hosts!Preparation!Next]_(Hosts!Preparation!vars)
  <2>1. /\ Preparation!RunChecks <=> Hosts!Preparation!RunChecks
        /\ Preparation!RunInstalls <=> Hosts!Preparation!RunInstalls
        /\ Preparation!RunFails <=> Hosts!Preparation!RunFails
        /\ Preparation!RunUnwinds <=> Hosts!Preparation!RunUnwinds
        /\ Preparation!Restart <=> Hosts!Preparation!Restart
        /\ Preparation!WorkerLooks <=> Hosts!Preparation!WorkerLooks
        /\ Preparation!WorkerClaims <=> Hosts!Preparation!WorkerClaims
        /\ Preparation!WorkerEnds <=> Hosts!Preparation!WorkerEnds
    BY DEF Preparation!NoThread, Preparation!Fault, Preparation!Ends, Preparation!RunChecks,
      Preparation!RunInstalls, Preparation!RunFails, Preparation!RunUnwinds, Preparation!Restart,
      Preparation!Takes, Preparation!Leaves, Preparation!WorkerLooks, Preparation!WorkerClaims,
      Preparation!WorkerEnds, Preparation!Starts, Preparation!start, Hosts!Preparation!NoThread,
      Hosts!Preparation!Fault, Hosts!Preparation!Ends, Hosts!Preparation!RunChecks,
      Hosts!Preparation!RunInstalls, Hosts!Preparation!RunFails, Hosts!Preparation!RunUnwinds,
      Hosts!Preparation!Restart, Hosts!Preparation!Takes, Hosts!Preparation!Leaves,
      Hosts!Preparation!WorkerLooks, Hosts!Preparation!WorkerClaims,
      Hosts!Preparation!WorkerEnds, Hosts!Preparation!Starts, Hosts!Preparation!start
  <2>2. /\ Preparation!OtherPrepares <=> Hosts!Preparation!OtherPrepares
        /\ Preparation!OtherStarts <=> Hosts!Preparation!OtherStarts
        /\ Preparation!OtherCancels <=> Hosts!Preparation!OtherCancels
        /\ Preparation!ChangeProfile <=> Hosts!Preparation!ChangeProfile
        /\ Preparation!refreshPreparation <=> Hosts!Preparation!refreshPreparation
        /\ Preparation!submit <=> Hosts!Preparation!submit
        /\ Preparation!craigSource <=> Hosts!Preparation!craigSource
        /\ Preparation!capabilities <=> Hosts!Preparation!capabilities
    BY DEF Preparation!Idle, Preparation!Agent, Preparation!request_cancel, Preparation!Takes,
      Preparation!Leaves, Preparation!ActiveJobs, Preparation!Starts, Preparation!start,
      Preparation!OtherPrepares, Preparation!OtherStarts, Preparation!OtherCancels,
      Preparation!parseCapabilities, Preparation!busy, Preparation!Page, Preparation!Stays,
      Preparation!ChangeProfile, Preparation!refreshPreparation, Preparation!submit,
      Preparation!craigSource, Preparation!capabilities, Preparation!wait,
      Hosts!Preparation!Idle, Hosts!Preparation!Agent, Hosts!Preparation!request_cancel,
      Hosts!Preparation!Takes, Hosts!Preparation!Leaves, Hosts!Preparation!ActiveJobs,
      Hosts!Preparation!Starts, Hosts!Preparation!start, Hosts!Preparation!OtherPrepares,
      Hosts!Preparation!OtherStarts, Hosts!Preparation!OtherCancels,
      Hosts!Preparation!parseCapabilities, Hosts!Preparation!busy, Hosts!Preparation!Page,
      Hosts!Preparation!Stays, Hosts!Preparation!ChangeProfile,
      Hosts!Preparation!refreshPreparation, Hosts!Preparation!submit,
      Hosts!Preparation!craigSource, Hosts!Preparation!capabilities, Hosts!Preparation!wait
  <2>3. /\ Preparation!prepareProfile <=> Hosts!Preparation!prepareProfile
        /\ Preparation!prepareStarts <=> Hosts!Preparation!prepareStarts
        /\ Preparation!wait <=> Hosts!Preparation!wait
        /\ Preparation!transcription <=> Hosts!Preparation!transcription
        /\ Preparation!Fails <=> Hosts!Preparation!Fails
        /\ Preparation!cancelActivePreparation <=> Hosts!Preparation!cancelActivePreparation
        /\ Preparation!cancelPreparation <=> Hosts!Preparation!cancelPreparation
        /\ Preparation!resumePreparation <=> Hosts!Preparation!resumePreparation
    BY DEF Preparation!Idle, Preparation!Agent, Preparation!Fault, Preparation!request_cancel,
      Preparation!Takes, Preparation!Leaves, Preparation!ActiveJobs, Preparation!Starts,
      Preparation!Joins, Preparation!start, Preparation!Started, Preparation!parseCapabilities,
      Preparation!busy, Preparation!Page, Preparation!Stays, Preparation!capabilities,
      Preparation!prepareProfile, Preparation!Wanted, Preparation!prepareStarts,
      Preparation!wait, Preparation!Keyed, Preparation!transcription, Preparation!Fails,
      Preparation!cancelActivePreparation, Preparation!cancelPreparation,
      Preparation!resumePreparation, Hosts!Preparation!Idle, Hosts!Preparation!Agent,
      Hosts!Preparation!Fault, Hosts!Preparation!request_cancel, Hosts!Preparation!Takes,
      Hosts!Preparation!Leaves, Hosts!Preparation!ActiveJobs, Hosts!Preparation!Starts,
      Hosts!Preparation!Joins, Hosts!Preparation!start, Hosts!Preparation!Started,
      Hosts!Preparation!parseCapabilities, Hosts!Preparation!busy, Hosts!Preparation!Page,
      Hosts!Preparation!Stays, Hosts!Preparation!capabilities, Hosts!Preparation!prepareProfile,
      Hosts!Preparation!Wanted, Hosts!Preparation!prepareStarts, Hosts!Preparation!wait,
      Hosts!Preparation!Keyed, Hosts!Preparation!transcription, Hosts!Preparation!Fails,
      Hosts!Preparation!cancelActivePreparation, Hosts!Preparation!cancelPreparation,
      Hosts!Preparation!resumePreparation
  <2> QED BY ONLY <2>1, <2>2, <2>3
         DEF Preparation!Next, Preparation!vars, Hosts!Preparation!Next, Hosts!Preparation!vars
<1>3. Preparation!NoContention <=> Hosts!Preparation!NoContention
  BY DEF Preparation!NoContention, Hosts!Preparation!NoContention
<1>4. Preparation!CancelIsFenced <=> Hosts!Preparation!CancelIsFenced
  BY DEF Preparation!CancelIsFenced, Hosts!Preparation!CancelIsFenced
<1> QED BY <1>1, <1>2, <1>3, <1>4

(* A request repeated after a lost answer is applied once, and after an    *)
(* explicit disconnect nothing pairs again but the user.                   *)
THEOREM BridgeHolds == Spec => []BridgeIsSound
<1>1. Bridge!Spec => [](Bridge!AppliedOnce /\ Bridge!StaysDisconnected)
  <2>1. Hosts!BridgeInstance
    BY ValuesAssumption, WordsAssumption DEF Hosts!BridgeInstance, Hosts!Bridge!Token,
       Hosts!Bridge!Legacy
  <2>2. Hosts!Bridge!Spec => [](Hosts!Bridge!AppliedOnce /\ Hosts!Bridge!StaysDisconnected)
    BY <2>1, Hosts!BridgeCallsOnce, Hosts!BridgeStaysDisconnected, PTL
  <2> QED BY <2>2, SameBridge, PTL DEF Bridge!Spec, Hosts!Bridge!Spec
<1>2. ASSUME At("Bridge") => Bridge!AppliedOnce /\ Bridge!StaysDisconnected
      PROVE  BridgeIsSound
  BY <1>2 DEF BridgeIsSound, At
<1> QED BY FocusBridge, <1>1, <1>2, PTL DEF Spec, Bridge!Spec

-----------------------------------------------------------------------------
(* An Agent or a participant of an installation may die, or the program go. *)
Mishaps == INSTANCE HostProofs WITH
  agent <- s1, bridge <- s2, callers <- s3, mail <- s4, breaks <- s5, Caller <- {q1, q2},
  MaxToken <- 3, MaxSessions <- 1, MaxBreak <- 4, current <- s1, repl <- s2, backup <- s3,
  displaced <- s4, up <- s5, gate <- s6, worker <- s7, host <- s8, sealed <- s9,
  reviewed <- s10, count <- s11, Upload <- 1 .. 2, Run <- {r1, r2}, MaxDamage <- 2,
  MaxCrash <- 2, MaxFault <- 1, tree <- s1, marker <- s2, product <- s3, guard <- s4,
  mutex <- s5, proc <- s6, msi <- s7, helper <- s8, journal <- s9, stale <- s10, begun <- s11,
  proven <- s12, tally <- s13, Process <- {q1, q2}, Version <- 1 .. 2, First <- 1,
  Stray <- {"absent", "partial", "whole"}, Wish <- {"update", "setup", "uninstall", "remove"},
  Trouble <- {"stop", "clean", "copy", "candidate", "timeout", "die"}, MaxWish <- 1,
  MaxOpen <- 2, MaxTrouble <- 1, prep <- s1, thread <- s2, machine <- s3, dispatch <- s4,
  runner <- s5, jobs <- s6, form <- s7, other <- s8, asked <- s9, mishaps <- s10,
  Profile <- {w2}, Qwen <- w2, MaxPreparation <- 2, MaxJob <- 1, MaxMishap <- 1

(* The steps proved about there are those that are checked here. *)
LEMMA SameStagingCrash ==
  /\ StagingCrash!Init <=> Mishaps!Staging!Init
  /\ [StagingCrash!Next]_(StagingCrash!vars) <=> [Mishaps!Staging!Next]_(Mishaps!Staging!vars)
  /\ StagingCrash!SourceIsStill <=> Mishaps!Staging!SourceIsStill
  /\ StagingCrash!AcceptedIsThere <=> Mishaps!Staging!AcceptedIsThere
<1>1. StagingCrash!Init <=> Mishaps!Staging!Init
  BY DEF StagingCrash!NotSent, StagingCrash!Nowhere, StagingCrash!Init,
    Mishaps!Staging!NotSent, Mishaps!Staging!Nowhere, Mishaps!Staging!Init
<1>2. [StagingCrash!Next]_(StagingCrash!vars) <=> [Mishaps!Staging!Next]_(Mishaps!Staging!vars)
  BY DEF StagingCrash!vars, StagingCrash!work, StagingCrash!places, StagingCrash!Package,
    StagingCrash!Nowhere, StagingCrash!Reusable, StagingCrash!Invalid, StagingCrash!InUse,
    StagingCrash!At, StagingCrash!Goes, StagingCrash!Fault, StagingCrash!Drop,
    StagingCrash!Look, StagingCrash!Ingest, StagingCrash!Relook, StagingCrash!RepairLooks,
    StagingCrash!RepairBegins, StagingCrash!Refuse, StagingCrash!CopyRunHistory,
    StagingCrash!MoveAway, StagingCrash!CopyFails, StagingCrash!MoveIn,
    StagingCrash!MoveInFails, StagingCrash!Clean, StagingCrash!Serving, StagingCrash!Claim,
    StagingCrash!Seal, StagingCrash!JobFails, StagingCrash!SaveReview, StagingCrash!Damage,
    StagingCrash!Crash, StagingCrash!Start, StagingCrash!Replacements, StagingCrash!Backups,
    StagingCrash!Left, StagingCrash!RecoverKeeps, StagingCrash!RecoverDisplaces,
    StagingCrash!RecoverPromotes, StagingCrash!RecoverFails, StagingCrash!RecoverSweeps,
    StagingCrash!Next, Mishaps!Staging!vars, Mishaps!Staging!work, Mishaps!Staging!places,
    Mishaps!Staging!Package, Mishaps!Staging!Nowhere, Mishaps!Staging!Reusable,
    Mishaps!Staging!Invalid, Mishaps!Staging!InUse, Mishaps!Staging!At, Mishaps!Staging!Goes,
    Mishaps!Staging!Fault, Mishaps!Staging!Drop, Mishaps!Staging!Look, Mishaps!Staging!Ingest,
    Mishaps!Staging!Relook, Mishaps!Staging!RepairLooks, Mishaps!Staging!RepairBegins,
    Mishaps!Staging!Refuse, Mishaps!Staging!CopyRunHistory, Mishaps!Staging!MoveAway,
    Mishaps!Staging!CopyFails, Mishaps!Staging!MoveIn, Mishaps!Staging!MoveInFails,
    Mishaps!Staging!Clean, Mishaps!Staging!Serving, Mishaps!Staging!Claim,
    Mishaps!Staging!Seal, Mishaps!Staging!JobFails, Mishaps!Staging!SaveReview,
    Mishaps!Staging!Damage, Mishaps!Staging!Crash, Mishaps!Staging!Start,
    Mishaps!Staging!Replacements, Mishaps!Staging!Backups, Mishaps!Staging!Left,
    Mishaps!Staging!RecoverKeeps, Mishaps!Staging!RecoverDisplaces,
    Mishaps!Staging!RecoverPromotes, Mishaps!Staging!RecoverFails,
    Mishaps!Staging!RecoverSweeps, Mishaps!Staging!Next
<1>3. StagingCrash!SourceIsStill <=> Mishaps!Staging!SourceIsStill
  BY DEF StagingCrash!SourceIsStill, Mishaps!Staging!SourceIsStill
<1>4. StagingCrash!AcceptedIsThere <=> Mishaps!Staging!AcceptedIsThere
  BY DEF StagingCrash!Serving, StagingCrash!Backups, StagingCrash!AcceptedIsThere,
    Mishaps!Staging!Serving, Mishaps!Staging!Backups, Mishaps!Staging!AcceptedIsThere
<1> QED BY <1>1, <1>2, <1>3, <1>4

LEMMA SameRemoval ==
  /\ Removal!Init <=> Mishaps!Installation!Init
  /\ [Removal!Next]_(Removal!vars) <=> [Mishaps!Installation!Next]_(Mishaps!Installation!vars)
  /\ Removal!ReceiptIsTrue <=> Mishaps!Installation!ReceiptIsTrue
<1>1. Removal!Init <=> Mishaps!Installation!Init
  BY DEF Removal!Off, Removal!NoMsi, Removal!NoRecord, Removal!NoHelper, Removal!Init,
    Mishaps!Installation!Off, Mishaps!Installation!NoMsi, Mishaps!Installation!NoRecord,
    Mishaps!Installation!NoHelper, Mishaps!Installation!Init
<1>2. [Removal!Next]_(Removal!vars) <=> [Mishaps!Installation!Next]_(Mishaps!Installation!vars)
  <2>1. \A p \in {q1, q2} : /\ Removal!Open(p) <=> Mishaps!Installation!Open(p)
                            /\ Removal!Enter(p) <=> Mishaps!Installation!Enter(p)
                            /\ Removal!Decide(p) <=> Mishaps!Installation!Decide(p)
                            /\ Removal!TerminateNonTarget(p) <=> Mishaps!Installation!TerminateNonTarget(p)
                            /\ Removal!CleanupNonTarget(p) <=> Mishaps!Installation!CleanupNonTarget(p)
                            /\ Removal!Mark(p) <=> Mishaps!Installation!Mark(p)
    BY DEF Removal!disk, Removal!history, Removal!books, Removal!Off, Removal!Whole,
      Removal!Hurt, Removal!Started, Removal!Goes, Removal!Ends, Removal!Open, Removal!Standing,
      Removal!Enter, Removal!AuthoritativeVersion, Removal!Decide, Removal!TerminateNonTarget,
      Removal!CleanupNonTarget, Removal!Mark, Mishaps!Installation!disk,
      Mishaps!Installation!history, Mishaps!Installation!books, Mishaps!Installation!Off,
      Mishaps!Installation!Whole, Mishaps!Installation!Hurt, Mishaps!Installation!Started,
      Mishaps!Installation!Goes, Mishaps!Installation!Ends, Mishaps!Installation!Open,
      Mishaps!Installation!Standing, Mishaps!Installation!Enter,
      Mishaps!Installation!AuthoritativeVersion, Mishaps!Installation!Decide,
      Mishaps!Installation!TerminateNonTarget, Mishaps!Installation!CleanupNonTarget,
      Mishaps!Installation!Mark
  <2>2. \A p \in {q1, q2} : /\ Removal!RecoverReads(p) <=> Mishaps!Installation!RecoverReads(p)
                            /\ Removal!RecoverWrites(p) <=> Mishaps!Installation!RecoverWrites(p)
                            /\ Removal!Exit(p) <=> Mishaps!Installation!Exit(p)
                            /\ Removal!Die(p) <=> Mishaps!Installation!Die(p)
                            /\ Removal!InstallUpdate(p) <=> Mishaps!Installation!InstallUpdate(p)
                            /\ Removal!Uninstall(p) <=> Mishaps!Installation!Uninstall(p)
    BY DEF Removal!disk, Removal!history, Removal!books, Removal!Off, Removal!Record,
      Removal!Whole, Removal!Hurt, Removal!Goes, Removal!Ends, Removal!RecoverReads,
      Removal!Survived, Removal!Provable, Removal!Closed, Removal!RecoverWrites, Removal!Exit,
      Removal!Die, Removal!Ask, Removal!HelperAt, Removal!Writes, Removal!Begin,
      Removal!InstallUpdate, Removal!Uninstall, Mishaps!Installation!disk,
      Mishaps!Installation!history, Mishaps!Installation!books, Mishaps!Installation!Off,
      Mishaps!Installation!Record, Mishaps!Installation!Whole, Mishaps!Installation!Hurt,
      Mishaps!Installation!Goes, Mishaps!Installation!Ends, Mishaps!Installation!RecoverReads,
      Mishaps!Installation!Survived, Mishaps!Installation!Provable, Mishaps!Installation!Closed,
      Mishaps!Installation!RecoverWrites, Mishaps!Installation!Exit, Mishaps!Installation!Die,
      Mishaps!Installation!Ask, Mishaps!Installation!HelperAt, Mishaps!Installation!Writes,
      Mishaps!Installation!Begin, Mishaps!Installation!InstallUpdate,
      Mishaps!Installation!Uninstall
  <2>3. /\ Removal!Setup <=> Mishaps!Installation!Setup
        /\ Removal!Removal <=> Mishaps!Installation!Removal
        /\ Removal!MsiGuards <=> Mishaps!Installation!MsiGuards
        /\ Removal!MsiStops <=> Mishaps!Installation!MsiStops
        /\ Removal!MsiRemoves <=> Mishaps!Installation!MsiRemoves
        /\ Removal!MsiCopies <=> Mishaps!Installation!MsiCopies
        /\ Removal!MsiCopied <=> Mishaps!Installation!MsiCopied
        /\ Removal!MsiVerifies <=> Mishaps!Installation!MsiVerifies
    BY DEF Removal!disk, Removal!history, Removal!books, Removal!Off, Removal!NoMsi,
      Removal!Guard, Removal!Whole, Removal!Up, Removal!Idle, Removal!Hurt, Removal!Started,
      Removal!NobodyRuns, Removal!MsiAt, Removal!MsiGoes, Removal!MsiReturns, Removal!NewMsi,
      Removal!Ask, Removal!Setup, Removal!Removal, Removal!MsiGuards, Removal!MsiStops,
      Removal!MsiRemoves, Removal!MsiCopies, Removal!MsiCopied, Removal!MsiVerifies,
      Mishaps!Installation!disk, Mishaps!Installation!history, Mishaps!Installation!books,
      Mishaps!Installation!Off, Mishaps!Installation!NoMsi, Mishaps!Installation!Guard,
      Mishaps!Installation!Whole, Mishaps!Installation!Up, Mishaps!Installation!Idle,
      Mishaps!Installation!Hurt, Mishaps!Installation!Started, Mishaps!Installation!NobodyRuns,
      Mishaps!Installation!MsiAt, Mishaps!Installation!MsiGoes, Mishaps!Installation!MsiReturns,
      Mishaps!Installation!NewMsi, Mishaps!Installation!Ask, Mishaps!Installation!Setup,
      Mishaps!Installation!Removal, Mishaps!Installation!MsiGuards,
      Mishaps!Installation!MsiStops, Mishaps!Installation!MsiRemoves,
      Mishaps!Installation!MsiCopies, Mishaps!Installation!MsiCopied,
      Mishaps!Installation!MsiVerifies
  <2>4. /\ Removal!MsiAwaits <=> Mishaps!Installation!MsiAwaits
        /\ Removal!MsiRegisters <=> Mishaps!Installation!MsiRegisters
        /\ Removal!MsiPreparesRemoval <=> Mishaps!Installation!MsiPreparesRemoval
        /\ Removal!MsiErases <=> Mishaps!Installation!MsiErases
        /\ Removal!MsiCommits <=> Mishaps!Installation!MsiCommits
        /\ Removal!MsiRestores <=> Mishaps!Installation!MsiRestores
        /\ Removal!MsiRevives <=> Mishaps!Installation!MsiRevives
        /\ Removal!MsiRestarts <=> Mishaps!Installation!MsiRestarts
    BY DEF Removal!disk, Removal!history, Removal!books, Removal!Off, Removal!NoMsi,
      Removal!Whole, Removal!Up, Removal!Idle, Removal!Hurt, Removal!Started, Removal!NobodyRuns,
      Removal!Launch, Removal!MsiAt, Removal!MsiGoes, Removal!MsiReturns, Removal!MsiAwaits,
      Removal!MsiRegisters, Removal!MsiPreparesRemoval, Removal!MsiErases, Removal!MsiCommits,
      Removal!MsiRestores, Removal!MsiRevives, Removal!RestartSurviving, Removal!MsiRestarts,
      Mishaps!Installation!disk, Mishaps!Installation!history, Mishaps!Installation!books,
      Mishaps!Installation!Off, Mishaps!Installation!NoMsi, Mishaps!Installation!Whole,
      Mishaps!Installation!Up, Mishaps!Installation!Idle, Mishaps!Installation!Hurt,
      Mishaps!Installation!Started, Mishaps!Installation!NobodyRuns, Mishaps!Installation!Launch,
      Mishaps!Installation!MsiAt, Mishaps!Installation!MsiGoes, Mishaps!Installation!MsiReturns,
      Mishaps!Installation!MsiAwaits, Mishaps!Installation!MsiRegisters,
      Mishaps!Installation!MsiPreparesRemoval, Mishaps!Installation!MsiErases,
      Mishaps!Installation!MsiCommits, Mishaps!Installation!MsiRestores,
      Mishaps!Installation!MsiRevives, Mishaps!Installation!RestartSurviving,
      Mishaps!Installation!MsiRestarts
  <2>5. /\ Removal!HelperGuards <=> Mishaps!Installation!HelperGuards
        /\ Removal!HelperStops <=> Mishaps!Installation!HelperStops
        /\ Removal!HelperRuns <=> Mishaps!Installation!HelperRuns
        /\ Removal!HelperTimesOut <=> Mishaps!Installation!HelperTimesOut
        /\ Removal!HelperLearns <=> Mishaps!Installation!HelperLearns
        /\ Removal!HelperChecks <=> Mishaps!Installation!HelperChecks
    BY DEF Removal!disk, Removal!history, Removal!books, Removal!Off, Removal!NoMsi,
      Removal!Guard, Removal!Whole, Removal!Hurt, Removal!NobodyRuns, Removal!MsiAt,
      Removal!NewMsi, Removal!HelperAt, Removal!HelperGoes, Removal!Writes, Removal!Begin,
      Removal!Stage, Removal!HelperGuards, Removal!Updates, Removal!Target, Removal!HelperStops,
      Removal!HelperRuns, Removal!HelperTimesOut, Removal!HelperLearns, Removal!HelperChecks,
      Mishaps!Installation!disk, Mishaps!Installation!history, Mishaps!Installation!books,
      Mishaps!Installation!Off, Mishaps!Installation!NoMsi, Mishaps!Installation!Guard,
      Mishaps!Installation!Whole, Mishaps!Installation!Hurt, Mishaps!Installation!NobodyRuns,
      Mishaps!Installation!MsiAt, Mishaps!Installation!NewMsi, Mishaps!Installation!HelperAt,
      Mishaps!Installation!HelperGoes, Mishaps!Installation!Writes, Mishaps!Installation!Begin,
      Mishaps!Installation!Stage, Mishaps!Installation!HelperGuards,
      Mishaps!Installation!Updates, Mishaps!Installation!Target,
      Mishaps!Installation!HelperStops, Mishaps!Installation!HelperRuns,
      Mishaps!Installation!HelperTimesOut, Mishaps!Installation!HelperLearns,
      Mishaps!Installation!HelperChecks
  <2>6. /\ Removal!HelperMeets <=> Mishaps!Installation!HelperMeets
        /\ Removal!HelperAwaits <=> Mishaps!Installation!HelperAwaits
        /\ Removal!HelperCompletes <=> Mishaps!Installation!HelperCompletes
        /\ Removal!HelperFails <=> Mishaps!Installation!HelperFails
        /\ Removal!HelperDies <=> Mishaps!Installation!HelperDies
        /\ Removal!GuardAges <=> Mishaps!Installation!GuardAges
        /\ Removal!JournalAges <=> Mishaps!Installation!JournalAges
    BY DEF Removal!disk, Removal!history, Removal!books, Removal!NoRecord, Removal!NoHelper,
      Removal!Whole, Removal!Up, Removal!Idle, Removal!Hurt, Removal!Started, Removal!Launch,
      Removal!RestartSurviving, Removal!HelperAt, Removal!HelperGoes, Removal!Writes,
      Removal!Stage, Removal!Settle, Removal!Updates, Removal!Target, Removal!HelperMeets,
      Removal!HelperAwaits, Removal!HelperCompletes, Removal!HelperFails, Removal!HelperDies,
      Removal!GuardAges, Removal!JournalAges, Mishaps!Installation!disk,
      Mishaps!Installation!history, Mishaps!Installation!books, Mishaps!Installation!NoRecord,
      Mishaps!Installation!NoHelper, Mishaps!Installation!Whole, Mishaps!Installation!Up,
      Mishaps!Installation!Idle, Mishaps!Installation!Hurt, Mishaps!Installation!Started,
      Mishaps!Installation!Launch, Mishaps!Installation!RestartSurviving,
      Mishaps!Installation!HelperAt, Mishaps!Installation!HelperGoes,
      Mishaps!Installation!Writes, Mishaps!Installation!Stage, Mishaps!Installation!Settle,
      Mishaps!Installation!Updates, Mishaps!Installation!Target,
      Mishaps!Installation!HelperMeets, Mishaps!Installation!HelperAwaits,
      Mishaps!Installation!HelperCompletes, Mishaps!Installation!HelperFails,
      Mishaps!Installation!HelperDies, Mishaps!Installation!GuardAges,
      Mishaps!Installation!JournalAges
  <2> QED BY ONLY <2>1, <2>2, <2>3, <2>4, <2>5, <2>6
         DEF Removal!Next, Removal!vars, Mishaps!Installation!Next, Mishaps!Installation!vars
<1>3. Removal!ReceiptIsTrue <=> Mishaps!Installation!ReceiptIsTrue
  BY DEF Removal!ReceiptIsTrue, Mishaps!Installation!ReceiptIsTrue
<1> QED BY <1>1, <1>2, <1>3

LEMMA SamePreparationFaults ==
  /\ PreparationFaults!Init <=> Mishaps!Preparation!Init
  /\ [PreparationFaults!Next]_(PreparationFaults!vars) <=> [Mishaps!Preparation!Next]_(Mishaps!Preparation!vars)
  /\ PreparationFaults!NoContention <=> Mishaps!Preparation!NoContention
  /\ PreparationFaults!CancelIsFenced <=> Mishaps!Preparation!CancelIsFenced
<1>1. PreparationFaults!Init <=> Mishaps!Preparation!Init
  BY DEF PreparationFaults!Idle, PreparationFaults!NoThread, PreparationFaults!Fresh,
    PreparationFaults!Init, Mishaps!Preparation!Idle, Mishaps!Preparation!NoThread,
    Mishaps!Preparation!Fresh, Mishaps!Preparation!Init
<1>2. [PreparationFaults!Next]_(PreparationFaults!vars) <=> [Mishaps!Preparation!Next]_(Mishaps!Preparation!vars)
  <2>1. /\ PreparationFaults!RunChecks <=> Mishaps!Preparation!RunChecks
        /\ PreparationFaults!RunInstalls <=> Mishaps!Preparation!RunInstalls
        /\ PreparationFaults!RunFails <=> Mishaps!Preparation!RunFails
        /\ PreparationFaults!RunUnwinds <=> Mishaps!Preparation!RunUnwinds
        /\ PreparationFaults!Restart <=> Mishaps!Preparation!Restart
        /\ PreparationFaults!WorkerLooks <=> Mishaps!Preparation!WorkerLooks
        /\ PreparationFaults!WorkerClaims <=> Mishaps!Preparation!WorkerClaims
        /\ PreparationFaults!WorkerEnds <=> Mishaps!Preparation!WorkerEnds
    BY DEF PreparationFaults!NoThread, PreparationFaults!Fault, PreparationFaults!Ends,
      PreparationFaults!RunChecks, PreparationFaults!RunInstalls, PreparationFaults!RunFails,
      PreparationFaults!RunUnwinds, PreparationFaults!Restart, PreparationFaults!Takes,
      PreparationFaults!Leaves, PreparationFaults!WorkerLooks, PreparationFaults!WorkerClaims,
      PreparationFaults!WorkerEnds, PreparationFaults!Starts, PreparationFaults!start,
      Mishaps!Preparation!NoThread, Mishaps!Preparation!Fault, Mishaps!Preparation!Ends,
      Mishaps!Preparation!RunChecks, Mishaps!Preparation!RunInstalls,
      Mishaps!Preparation!RunFails, Mishaps!Preparation!RunUnwinds, Mishaps!Preparation!Restart,
      Mishaps!Preparation!Takes, Mishaps!Preparation!Leaves, Mishaps!Preparation!WorkerLooks,
      Mishaps!Preparation!WorkerClaims, Mishaps!Preparation!WorkerEnds,
      Mishaps!Preparation!Starts, Mishaps!Preparation!start
  <2>2. /\ PreparationFaults!OtherPrepares <=> Mishaps!Preparation!OtherPrepares
        /\ PreparationFaults!OtherStarts <=> Mishaps!Preparation!OtherStarts
        /\ PreparationFaults!OtherCancels <=> Mishaps!Preparation!OtherCancels
        /\ PreparationFaults!ChangeProfile <=> Mishaps!Preparation!ChangeProfile
        /\ PreparationFaults!refreshPreparation <=> Mishaps!Preparation!refreshPreparation
        /\ PreparationFaults!submit <=> Mishaps!Preparation!submit
        /\ PreparationFaults!craigSource <=> Mishaps!Preparation!craigSource
        /\ PreparationFaults!capabilities <=> Mishaps!Preparation!capabilities
    BY DEF PreparationFaults!Idle, PreparationFaults!Agent, PreparationFaults!request_cancel,
      PreparationFaults!Takes, PreparationFaults!Leaves, PreparationFaults!ActiveJobs,
      PreparationFaults!Starts, PreparationFaults!start, PreparationFaults!OtherPrepares,
      PreparationFaults!OtherStarts, PreparationFaults!OtherCancels,
      PreparationFaults!parseCapabilities, PreparationFaults!busy, PreparationFaults!Page,
      PreparationFaults!Stays, PreparationFaults!ChangeProfile,
      PreparationFaults!refreshPreparation, PreparationFaults!submit,
      PreparationFaults!craigSource, PreparationFaults!capabilities, PreparationFaults!wait,
      Mishaps!Preparation!Idle, Mishaps!Preparation!Agent, Mishaps!Preparation!request_cancel,
      Mishaps!Preparation!Takes, Mishaps!Preparation!Leaves, Mishaps!Preparation!ActiveJobs,
      Mishaps!Preparation!Starts, Mishaps!Preparation!start, Mishaps!Preparation!OtherPrepares,
      Mishaps!Preparation!OtherStarts, Mishaps!Preparation!OtherCancels,
      Mishaps!Preparation!parseCapabilities, Mishaps!Preparation!busy, Mishaps!Preparation!Page,
      Mishaps!Preparation!Stays, Mishaps!Preparation!ChangeProfile,
      Mishaps!Preparation!refreshPreparation, Mishaps!Preparation!submit,
      Mishaps!Preparation!craigSource, Mishaps!Preparation!capabilities, Mishaps!Preparation!wait
  <2>3. /\ PreparationFaults!prepareProfile <=> Mishaps!Preparation!prepareProfile
        /\ PreparationFaults!prepareStarts <=> Mishaps!Preparation!prepareStarts
        /\ PreparationFaults!wait <=> Mishaps!Preparation!wait
        /\ PreparationFaults!transcription <=> Mishaps!Preparation!transcription
        /\ PreparationFaults!Fails <=> Mishaps!Preparation!Fails
        /\ PreparationFaults!cancelActivePreparation <=> Mishaps!Preparation!cancelActivePreparation
        /\ PreparationFaults!cancelPreparation <=> Mishaps!Preparation!cancelPreparation
        /\ PreparationFaults!resumePreparation <=> Mishaps!Preparation!resumePreparation
    BY DEF PreparationFaults!Idle, PreparationFaults!Agent, PreparationFaults!Fault,
      PreparationFaults!request_cancel, PreparationFaults!Takes, PreparationFaults!Leaves,
      PreparationFaults!ActiveJobs, PreparationFaults!Starts, PreparationFaults!Joins,
      PreparationFaults!start, PreparationFaults!Started, PreparationFaults!parseCapabilities,
      PreparationFaults!busy, PreparationFaults!Page, PreparationFaults!Stays,
      PreparationFaults!capabilities, PreparationFaults!prepareProfile, PreparationFaults!Wanted,
      PreparationFaults!prepareStarts, PreparationFaults!wait, PreparationFaults!Keyed,
      PreparationFaults!transcription, PreparationFaults!Fails,
      PreparationFaults!cancelActivePreparation, PreparationFaults!cancelPreparation,
      PreparationFaults!resumePreparation, Mishaps!Preparation!Idle, Mishaps!Preparation!Agent,
      Mishaps!Preparation!Fault, Mishaps!Preparation!request_cancel, Mishaps!Preparation!Takes,
      Mishaps!Preparation!Leaves, Mishaps!Preparation!ActiveJobs, Mishaps!Preparation!Starts,
      Mishaps!Preparation!Joins, Mishaps!Preparation!start, Mishaps!Preparation!Started,
      Mishaps!Preparation!parseCapabilities, Mishaps!Preparation!busy, Mishaps!Preparation!Page,
      Mishaps!Preparation!Stays, Mishaps!Preparation!capabilities,
      Mishaps!Preparation!prepareProfile, Mishaps!Preparation!Wanted,
      Mishaps!Preparation!prepareStarts, Mishaps!Preparation!wait, Mishaps!Preparation!Keyed,
      Mishaps!Preparation!transcription, Mishaps!Preparation!Fails,
      Mishaps!Preparation!cancelActivePreparation, Mishaps!Preparation!cancelPreparation,
      Mishaps!Preparation!resumePreparation
  <2> QED BY ONLY <2>1, <2>2, <2>3
         DEF PreparationFaults!Next, PreparationFaults!vars, Mishaps!Preparation!Next,
           Mishaps!Preparation!vars
<1>3. PreparationFaults!NoContention <=> Mishaps!Preparation!NoContention
  BY DEF PreparationFaults!NoContention, Mishaps!Preparation!NoContention
<1>4. PreparationFaults!CancelIsFenced <=> Mishaps!Preparation!CancelIsFenced
  BY DEF PreparationFaults!CancelIsFenced, Mishaps!Preparation!CancelIsFenced
<1> QED BY <1>1, <1>2, <1>3, <1>4

(* No repair takes a source from the job that reads it, and what was       *)
(* accepted stays, even if the Agent dies in it.                           *)
THEOREM StagingHolds == Spec => []SourceIsKept
<1>1. Staging!Spec => [](/\ Staging!SourceIsStill
                         /\ Staging!AcceptedIsThere
                         /\ Staging!RunsAreKept)
  <2>1. Hosts!StagingInstance
    BY ValuesAssumption, RecordsAssumption DEF Hosts!StagingInstance, Hosts!Staging!PackageType,
       Staging!PackageType
  <2>2. Hosts!Staging!Spec => [](Hosts!Staging!SourceIsStill /\ Hosts!Staging!AcceptedIsThere)
    BY <2>1, Hosts!StagingSourceKept
  <2>3. Hosts!Staging!Spec => []Hosts!Staging!RunsAreKept
    BY <2>1, Hosts!StagingRunsKept
  <2> QED BY <2>2, <2>3, SameStaging, PTL DEF Staging!Spec, Hosts!Staging!Spec
<1>2. StagingCrash!Spec => [](StagingCrash!SourceIsStill /\ StagingCrash!AcceptedIsThere)
  <2>1. Mishaps!StagingInstance
    BY ValuesAssumption, RecordsAssumption DEF Mishaps!StagingInstance,
       Mishaps!Staging!PackageType, StagingCrash!PackageType
  <2>2. Mishaps!Staging!Spec => [](Mishaps!Staging!SourceIsStill /\ Mishaps!Staging!AcceptedIsThere)
    BY <2>1, Mishaps!StagingSourceKept
  <2> QED BY <2>2, SameStagingCrash, PTL DEF StagingCrash!Spec, Mishaps!Staging!Spec
<1>3. ASSUME At("Staging") => /\ Staging!SourceIsStill
                              /\ Staging!AcceptedIsThere
                              /\ Staging!RunsAreKept,
             At("StagingCrash") => StagingCrash!SourceIsStill /\ StagingCrash!AcceptedIsThere
      PROVE  SourceIsKept
  BY <1>3 DEF SourceIsKept, At
<1> QED BY FocusStaging, FocusStagingCrash, <1>1, <1>2, <1>3, PTL DEF Spec, Staging!Spec,
           StagingCrash!Spec

(* No start works in a tree that Windows Installer changes, the registered *)
(* version is whole, one version runs, and what is told of an operation is *)
(* true, even if the program removes itself or a participant dies.         *)
THEOREM InstallationHolds == Spec => []InstallationIsWhole
<1>1. Installation!Spec => [](/\ Installation!InstallerIsAlone
                              /\ Installation!ProductIsWhole
                              /\ Installation!OneVersionRuns
                              /\ Installation!ReceiptIsTrue)
  <2>1. Hosts!InstallationInstance
    <3>1. Nil \notin {q1, q2} /\ "msi" \notin {q1, q2}
      BY ValuesAssumption
    <3>2. Nil \notin 1 .. 2 /\ 1 \in 1 .. 2
      BY ValuesAssumption
    <3>3. Nil \notin Hosts!GuardRecord
      BY RecordsAssumption DEF Hosts!GuardRecord
    <3>4. Nil \notin Hosts!Entry
      BY RecordsAssumption DEF Hosts!Entry
    <3>5. Nil \notin {"msi", "major_upgrade", "uninstall", "recovered", "completed",
                   "verifying_install", "verifying_agent", "restarting_ui"}
      BY WordsAssumption
    <3> QED BY ONLY <3>1, <3>2, <3>3, <3>4, <3>5 DEF Hosts!InstallationInstance
  <2>2. "uninstall" \notin {"update", "setup", "remove"}
    OBVIOUS
  <2>3. "die" \notin {"stop", "clean", "copy", "candidate", "timeout"}
    OBVIOUS
  <2>4. Hosts!Installation!Spec => []Hosts!Installation!ReceiptIsTrue
    BY <2>1, Hosts!InstallationReceiptIsTrue
  <2>5. Hosts!Installation!Spec
          => [](Hosts!Installation!InstallerIsAlone /\ Hosts!Installation!ProductIsWhole)
    BY <2>1, <2>2, Hosts!InstallationIsAlone
  <2>6. Hosts!Installation!Spec => []Hosts!Installation!OneVersionRuns
    BY <2>1, <2>2, <2>3, Hosts!InstallationOneVersion
  <2> QED BY <2>4, <2>5, <2>6, SameInstallation, PTL DEF Installation!Spec,
             Hosts!Installation!Spec
<1>2. Removal!Spec => []Removal!ReceiptIsTrue
  <2>1. Mishaps!InstallationInstance
    <3>1. Nil \notin {q1, q2} /\ "msi" \notin {q1, q2}
      BY ValuesAssumption
    <3>2. Nil \notin 1 .. 2 /\ 1 \in 1 .. 2
      BY ValuesAssumption
    <3>3. Nil \notin Mishaps!GuardRecord
      BY RecordsAssumption DEF Mishaps!GuardRecord
    <3>4. Nil \notin Mishaps!Entry
      BY RecordsAssumption DEF Mishaps!Entry
    <3>5. Nil \notin {"msi", "major_upgrade", "uninstall", "recovered", "completed",
                   "verifying_install", "verifying_agent", "restarting_ui"}
      BY WordsAssumption
    <3> QED BY ONLY <3>1, <3>2, <3>3, <3>4, <3>5 DEF Mishaps!InstallationInstance
  <2>2. Mishaps!Installation!Spec => []Mishaps!Installation!ReceiptIsTrue
    BY <2>1, Mishaps!InstallationReceiptIsTrue
  <2> QED BY <2>2, SameRemoval, PTL DEF Removal!Spec, Mishaps!Installation!Spec
<1>3. ASSUME At("Installation") => /\ Installation!InstallerIsAlone
                                   /\ Installation!ProductIsWhole
                                   /\ Installation!OneVersionRuns
                                   /\ Installation!ReceiptIsTrue,
             At("Removal") => Removal!ReceiptIsTrue
      PROVE  InstallationIsWhole
  BY <1>3 DEF InstallationIsWhole, At
<1> QED BY FocusInstallation, FocusRemoval, <1>1, <1>2, <1>3, PTL DEF Spec, Installation!Spec,
           Removal!Spec

(* No job runs while a profile is prepared, and nobody's preparation is    *)
(* cancelled but the one that was asked, with every restart and fault.      *)
THEOREM PreparationHolds == Spec => []PreparationIsFenced
<1>1. Preparation!Spec => [](Preparation!NoContention /\ Preparation!CancelIsFenced)
  <2>1. Hosts!PreparationInstance
    BY WordsAssumption DEF Hosts!PreparationInstance
  <2>2. Hosts!Preparation!Spec => [](/\ Hosts!Preparation!NoContention
                                     /\ Hosts!Preparation!CancelIsFenced)
    BY <2>1, Hosts!NoContention, Hosts!CancelIsFenced, PTL
  <2> QED BY <2>2, SamePreparation, PTL DEF Preparation!Spec, Hosts!Preparation!Spec
<1>2. PreparationFaults!Spec => [](/\ PreparationFaults!NoContention
                                   /\ PreparationFaults!CancelIsFenced)
  <2>1. Mishaps!PreparationInstance
    BY WordsAssumption DEF Mishaps!PreparationInstance
  <2>2. Mishaps!Preparation!Spec => [](/\ Mishaps!Preparation!NoContention
                                       /\ Mishaps!Preparation!CancelIsFenced)
    BY <2>1, Mishaps!NoContention, Mishaps!CancelIsFenced, PTL
  <2> QED BY <2>2, SamePreparationFaults, PTL DEF PreparationFaults!Spec, Mishaps!Preparation!Spec
<1>3. ASSUME At("Preparation") => Preparation!NoContention /\ Preparation!CancelIsFenced,
             At("PreparationFaults") => /\ PreparationFaults!NoContention
                                        /\ PreparationFaults!CancelIsFenced
      PROVE  PreparationIsFenced
  BY <1>3 DEF PreparationIsFenced, At
<1> QED BY FocusPreparation, FocusPreparationFaults, <1>1, <1>2, <1>3, PTL DEF Spec,
           Preparation!Spec, PreparationFaults!Spec
=============================================================================

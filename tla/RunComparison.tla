--------------------------- MODULE RunComparison ---------------------------
(***************************************************************************)
(* The comparison of two transcription runs of one source: one pass over   *)
(* the segments of a track, both runs ordered by time, that pairs what is  *)
(* close in time and cuts the two runs into regions.  Times are integers,  *)
(* so no epsilon is needed; a text is a sequence of words, which is what   *)
(* is left of it when blanks are normalised.                               *)
(***************************************************************************)
EXTENDS Integers, Sequences, FiniteSets

CONSTANTS
  Inputs,     \* the runs to compare: sequences of [start, end, text, speaker]
  Tolerance   \* the largest gap between two segments of one region

VARIABLES
  left, right,             \* the segments of the track in each run, in order
  leftIndex, rightIndex,   \* the next segment of each
  leftFrom, rightFrom,     \* where the region being built began
  regions                  \* the regions so far: the positions they take

vars == <<left, right, leftIndex, rightIndex, leftFrom, rightFrom, regions>>

(* ordered: by start, then by end. *)
Ordered(run) ==
  \A i, k \in 1 .. Len(run) :
    i < k => \/ run[i].start < run[k].start
             \/ run[i].start = run[k].start /\ run[i].end <= run[k].end

Init ==
  /\ left \in Inputs /\ Ordered(left)
  /\ right \in Inputs /\ Ordered(right)
  /\ leftIndex = 1 /\ rightIndex = 1
  /\ leftFrom = 1 /\ rightFrom = 1
  /\ regions = {}

-----------------------------------------------------------------------------
Smaller(a, b) == IF a < b THEN a ELSE b
Larger(a, b) == IF a > b THEN a ELSE b

(* They overlap, or a gap that is not longer than the tolerance parts them. *)
(* Segments that only touch are not compared.                              *)
comparableInTime(a, b) ==
  LET gap == Larger(a.start, b.start) - Smaller(a.end, b.end)
  IN gap < 0 \/ (gap > 0 /\ gap <= Tolerance)

Open == leftFrom < leftIndex /\ rightFrom < rightIndex
LeftLeft == leftIndex <= Len(left)
RightLeft == rightIndex <= Len(right)

(* buildRegion: the positions from where it began to the next ones. *)
Region(toLeft, toRight) ==
  [left |-> leftFrom .. toLeft - 1, right |-> rightFrom .. toRight - 1]

Cut(toLeft, toRight) ==
  /\ regions' = regions \cup {Region(toLeft, toRight)}
  /\ leftIndex' = toLeft /\ rightIndex' = toRight
  /\ leftFrom' = toLeft /\ rightFrom' = toRight
  /\ UNCHANGED <<left, right>>

OnlyLeft == Cut(leftIndex + 1, rightIndex)
OnlyRight == Cut(leftIndex, rightIndex + 1)

Take(moreLeft, moreRight) ==
  /\ leftIndex' = leftIndex + moreLeft
  /\ rightIndex' = rightIndex + moreRight
  /\ UNCHANGED <<left, right, leftFrom, rightFrom, regions>>

(* The segment that ends first, or that only touches the other, goes alone. *)
GoesFirst(a, b) == a.end < b.start \/ (a.end = b.start /\ a.start <= b.start)

RestOfRight == ~Open /\ ~LeftLeft /\ RightLeft /\ OnlyRight
RestOfLeft == ~Open /\ LeftLeft /\ ~RightLeft /\ OnlyLeft

Apart ==
  /\ ~Open /\ LeftLeft /\ RightLeft
  /\ ~comparableInTime(left[leftIndex], right[rightIndex])
  /\ IF GoesFirst(left[leftIndex], right[rightIndex]) THEN OnlyLeft ELSE OnlyRight

Match ==
  /\ ~Open /\ LeftLeft /\ RightLeft
  /\ comparableInTime(left[leftIndex], right[rightIndex])
  /\ Take(1, 1)

(* The longer of the two that matched takes the segments that begin before *)
(* it ends.                                                                *)
(* Mutant: the shorter of the two takes segments as well.                  *)
TakesMoreOfEither ==
  Open /\ RightLeft /\ comparableInTime(left[leftFrom], right[rightIndex])

TakesMoreRight ==
  /\ Open /\ RightLeft
  /\ left[leftFrom].end > right[rightFrom].end
  /\ right[rightIndex].start < left[leftFrom].end
  /\ comparableInTime(left[leftFrom], right[rightIndex])

TakesMoreLeft ==
  /\ Open /\ LeftLeft
  /\ right[rightFrom].end > left[leftFrom].end
  /\ left[leftIndex].start < right[rightFrom].end
  /\ comparableInTime(left[leftIndex], right[rightFrom])

MoreRight == TakesMoreRight /\ Take(0, 1)
MoreLeft == TakesMoreLeft /\ Take(1, 0)

Close ==
  /\ Open /\ ~TakesMoreRight /\ ~TakesMoreLeft
  /\ Cut(leftIndex, rightIndex)

compareTrack == RestOfRight \/ RestOfLeft \/ Apart \/ Match \/ MoreRight \/ MoreLeft \/ Close

Finished == ~Open /\ ~LeftLeft /\ ~RightLeft
Next == compareTrack \/ (Finished /\ UNCHANGED vars)

Spec == Init /\ [][Next]_vars

-----------------------------------------------------------------------------
(* What a region says: the texts joined, and who speaks, without repeats.  *)
Joined(run, S) ==
  LET words[n \in 0 .. Len(run)] ==
        IF n = 0 THEN <<>> ELSE words[n - 1] \o (IF n \in S THEN run[n].text ELSE <<>>)
  IN words[Len(run)]

speakerSequence(run, S) ==
  LET said[n \in 0 .. Len(run)] ==
        IF n = 0 THEN <<>>
        ELSE LET before == said[n - 1]
             IN IF n \notin S \/ (before # <<>> /\ before[Len(before)] = run[n].speaker)
                  THEN before ELSE Append(before, run[n].speaker)
  IN said[Len(run)]

kind(R) ==
  CASE R.left = {} -> "right_only"
    [] R.left # {} /\ R.right = {} -> "left_only"
    [] OTHER -> IF Joined(left, R.left) = Joined(right, R.right) THEN "equal" ELSE "changed"

speakerChanged(R) ==
  /\ R.left # {} /\ R.right # {}
  /\ speakerSequence(left, R.left) # speakerSequence(right, R.right)

(* summarizeRunComparison: the regions that differ. *)
differentRegions == {R \in regions : kind(R) # "equal" \/ speakerChanged(R)}

-----------------------------------------------------------------------------
TypeOK ==
  /\ left \in Inputs /\ right \in Inputs
  /\ leftFrom \in 1 .. leftIndex /\ leftIndex \in 1 .. Len(left) + 1
  /\ rightFrom \in 1 .. rightIndex /\ rightIndex \in 1 .. Len(right) + 1

(* No segment of either run is left out of the comparison or told twice:   *)
(* what was passed is in exactly one region, or in the one being built.    *)
EverySegmentOnce ==
  /\ \A i \in 1 .. Len(left) :
       (\E R \in regions : i \in R.left) <=> i < leftFrom
  /\ \A k \in 1 .. Len(right) :
       (\E R \in regions : k \in R.right) <=> k < rightFrom
  /\ \A R, S \in regions :
       R # S => R.left \cap S.left = {} /\ R.right \cap S.right = {}

(* A region groups segments only around one of them, and each of the       *)
(* others is close in time to that one: consecutive pairs do not collapse  *)
(* into one region (run-comparison.test.ts).                               *)
AroundOneAnchor ==
  \A R \in regions : R.left # {} /\ R.right # {} =>
    /\ \A i \in R.left, k \in R.right : comparableInTime(left[i], right[k])
    /\ (\E i \in R.left : R.left = {i}) \/ (\E k \in R.right : R.right = {k})

(* A run compared with itself differs nowhere, if every segment lasts.     *)
SameRunIsEqual ==
  left = right /\ (\A i \in 1 .. Len(left) : left[i].start < left[i].end) =>
    differentRegions = {}
=============================================================================

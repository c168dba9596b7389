--------------------------- MODULE JobStoreProofs ---------------------------
(***************************************************************************)
(* Proofs about JobStore, for every set of jobs, keys and bodies.          *)
(***************************************************************************)
EXTENDS JobStore, TLAPS

StoreInv == TypeOK /\ OneActivePerWork /\ AliasResolves /\ ResultIsCurrent

\* The empty tables satisfy the invariant.
LEMMA InitStoreInv == Init => StoreInv
BY DEF Init, StoreInv, TypeOK, OneActivePerWork, AliasResolves, ResultIsCurrent, Active

\* The part of BodyAssumption the arithmetic needs.
LEMMA UnitsInteger == \A b \in Body : b.units \in Int
BY BodyAssumption

\* An update of one row by a well-formed row keeps the tables well formed.
LEMMA RowUpdate ==
  ASSUME TypeOK, NEW j \in DOMAIN jobs, NEW row \in Row, row.completed =< row.body.units,
         SetRow(j, row), UNCHANGED <<aliases, receipts, paused>>
  PROVE  TypeOK'
BY DEF TypeOK, SetRow

\* Every step keeps the types of the tables.
LEMMA TypeStep == TypeOK /\ ResultIsCurrent /\ [Next]_storeVars => TypeOK'
<1> SUFFICES ASSUME TypeOK, ResultIsCurrent, [Next]_storeVars PROVE TypeOK'
  OBVIOUS
<1> USE UnitsInteger, BoundAssumption
<1>1. ASSUME NEW k \in Key, NEW b \in Body, NEW j \in Job, NEW t \in 0 .. MaxClock,
             Submit(k, b, j, t)
      PROVE  TypeOK'
  BY <1>1 DEF TypeOK, Submit, With, NewRow, Row, Status
<1>2. ASSUME NEW k \in Key, NEW b \in Body, NEW j \in Job, SubmitReuse(k, b, j)
      PROVE  TypeOK'
  BY <1>2 DEF TypeOK, SubmitReuse, With
<1>3. ASSUME NEW j \in Job, Cancel(j) PROVE TypeOK'
  <2> DEFINE row == [jobs[j] EXCEPT !.status = "cancelled", !.recoverable = TRUE]
  <2>1. j \in DOMAIN jobs /\ jobs[j] \in Row
    BY <1>3 DEF Cancel, Active, TypeOK
  <2>2. row \in Row /\ row.completed =< row.body.units
    BY <2>1 DEF TypeOK, Row, Status
  <2> QED BY <1>3, <2>1, <2>2, RowUpdate DEF Cancel
<1>4. ASSUME NEW j \in Job, Claim(j) PROVE TypeOK'
  <2> DEFINE row == [jobs[j] EXCEPT !.status = "running", !.attempt = @ + 1]
  <2>1. j \in DOMAIN jobs /\ jobs[j] \in Row
    BY <1>4 DEF Claim, Queued, TypeOK
  <2>2. jobs[j].attempt + 1 \in 0 .. MaxAttempt
    BY <1>4, <2>1 DEF Row, Claim
  <2>3. row \in Row
    BY <2>1, <2>2 DEF Row, Status
  <2>4. row.completed =< row.body.units
    BY <2>1 DEF TypeOK, Row
  <2> QED BY <1>4, <2>1, <2>3, <2>4, RowUpdate DEF Claim
<1>5. ASSUME NEW j \in Job, Remove(j) PROVE TypeOK'
  BY <1>5 DEF TypeOK, Remove, With, Without, Restrict, Row, Receipt
<1>6. ASSUME NEW j \in Job, NEW t \in 0 .. MaxClock, Retry(j, t) PROVE TypeOK'
  <2> DEFINE row == [jobs[j] EXCEPT
                       !.status = "queued",
                       !.completed = IF jobs[j].body.kind = "craig" THEN 0 ELSE @,
                       !.updated = t]
  <2>1. j \in DOMAIN jobs /\ jobs[j] \in Row
    BY <1>6 DEF Retry, Retriable, TypeOK
  <2>2. row \in Row
    BY <2>1 DEF Row, Status
  <2>3. /\ jobs[j].completed \in Nat /\ jobs[j].body.units \in Int
        /\ jobs[j].completed =< jobs[j].body.units
    BY <2>1 DEF TypeOK, Row
  <2>4. row.body = jobs[j].body /\ row.completed \in {0, jobs[j].completed}
    BY <2>1 DEF Row
  <2>5. row.completed =< row.body.units
    BY <2>3, <2>4
  <2> QED BY <1>6, <2>1, <2>2, <2>5, RowUpdate DEF Retry, Retriable
<1>7. ASSUME NEW j \in Job, NEW a \in Attempt, Report(j, a) PROVE TypeOK'
  <2>1. ASSUME NEW total \in {b.units : b \in Body}, NEW completed \in 1 .. total,
               Progress(j, a, completed, total)
        PROVE  TypeOK'
    <3> DEFINE row == [jobs[j] EXCEPT !.completed = completed]
    <3>1. j \in DOMAIN jobs /\ jobs[j] \in Row
      BY <2>1 DEF Progress, Running, TypeOK
    <3>2. row \in Row /\ row.completed =< row.body.units
      BY <2>1, <3>1 DEF TypeOK, Row, Progress
    <3> QED BY <2>1, <3>1, <3>2, RowUpdate DEF Progress
  <2>2. CASE Complete(j, a)
    <3> DEFINE row == [jobs[j] EXCEPT !.status = "succeeded", !.result = a]
    <3>1. j \in DOMAIN jobs /\ jobs[j] \in Row
      BY <2>2 DEF Complete, Running, TypeOK
    <3>2. row \in Row /\ row.completed =< row.body.units
      BY <3>1 DEF TypeOK, Row, Status
    <3> QED BY <2>2, <3>1, <3>2, RowUpdate DEF Complete
  <2>3. CASE CompleteRecovered(j, a)
    <3> DEFINE row == [jobs[j] EXCEPT !.status = "succeeded", !.result = a,
                                      !.recoverable = TRUE,
                                      !.completed = jobs[j].body.units]
    <3>1. j \in DOMAIN jobs /\ jobs[j] \in Row /\ jobs[j].completed =< jobs[j].body.units
      BY <2>3 DEF CompleteRecovered, Unsettled, TypeOK
    <3>2. jobs[j].body \in Body /\ jobs[j].completed \in Nat /\ jobs[j].body.units \in Nat
      BY <3>1 DEF Row
    <3>3. row \in Row
      BY <3>1, <3>2 DEF Row, Status
    <3>4. row.completed = row.body.units
      BY <3>1 DEF Row
    <3>5. row.completed =< row.body.units
      BY <3>2, <3>4
    <3> QED BY <2>3, <3>1, <3>3, <3>5, RowUpdate DEF CompleteRecovered, Unsettled
  <2>4. CASE Step(j, a)
    <3> DEFINE done == jobs[j].completed + 1 = jobs[j].body.units
               row == [jobs[j] EXCEPT !.completed = @ + 1,
                                      !.status = IF done THEN "succeeded" ELSE @,
                                      !.result = IF done THEN a ELSE Nil]
    <3>1. j \in DOMAIN jobs /\ jobs[j] \in Row
      BY <2>4 DEF Step, Running, TypeOK
    <3>2. /\ jobs[j].completed \in Nat /\ jobs[j].body.units \in Int
          /\ jobs[j].completed < jobs[j].body.units
      <4>0. jobs[j].body.kind = "fixture" /\ jobs[j].status # "succeeded"
        BY <2>4 DEF Step, Running
      <4>1. jobs[j].completed < jobs[j].body.units
        BY <3>1, <4>0 DEF ResultIsCurrent
      <4>2. jobs[j].completed \in Nat /\ jobs[j].body \in Body
        BY <3>1 DEF Row
      <4> QED BY <4>1, <4>2
    <3>3. jobs[j].completed + 1 \in Nat /\ jobs[j].completed + 1 =< jobs[j].body.units
      BY <3>2
    <3>4. row \in Row
      BY <3>1, <3>3 DEF Row, Status
    <3>5. row.completed = jobs[j].completed + 1 /\ row.body = jobs[j].body
      BY <3>1 DEF Row
    <3>6. row.completed =< row.body.units
      BY <3>3, <3>5
    <3> QED BY <2>4, <3>1, <3>4, <3>6, RowUpdate DEF Step
  <2>5. ASSUME NEW r \in BOOLEAN, Fail(j, a, r) PROVE TypeOK'
    <3> DEFINE row == [jobs[j] EXCEPT !.status = "failed", !.recoverable = r]
    <3>1. j \in DOMAIN jobs /\ jobs[j] \in Row
      BY <2>5 DEF Fail, Running, TypeOK
    <3>2. row \in Row /\ row.completed =< row.body.units
      BY <3>1 DEF TypeOK, Row, Status
    <3> QED BY <2>5, <3>1, <3>2, RowUpdate DEF Fail
  <2> QED BY <1>7, <2>1, <2>2, <2>3, <2>4, <2>5 DEF Report
<1>8. CASE Recover
  <2>1. ASSUME NEW j \in DOMAIN jobs
        PROVE  jobs'[j] \in Row /\ jobs'[j].completed =< jobs'[j].body.units
    <3> DEFINE row == [jobs[j] EXCEPT !.status = "interrupted", !.recoverable = TRUE]
    <3>1. jobs[j] \in Row /\ jobs[j].completed =< jobs[j].body.units
      BY DEF TypeOK
    <3>2. row \in Row /\ row.completed =< row.body.units
      BY <3>1 DEF Row, Status
    <3>3. jobs'[j] = row \/ jobs'[j] = jobs[j]
      BY <1>8 DEF Recover
    <3> QED BY <3>1, <3>2, <3>3
  <2> QED BY <1>8, <2>1 DEF TypeOK, Recover
<1>9. ASSUME NEW p \in BOOLEAN, SetPaused(p) PROVE TypeOK'
  BY <1>9 DEF TypeOK, SetPaused
<1>10. CASE UNCHANGED storeVars
  BY <1>10 DEF TypeOK, storeVars
<1> QED BY <1>1, <1>2, <1>3, <1>4, <1>5, <1>6, <1>7, <1>8, <1>9, <1>10 DEF Next

-----------------------------------------------------------------------------
\* Every operation on one row, as far as the set of live work is concerned: a
\* row becomes active only through Submit and Retry.
LEMMA ActiveWorkStep ==
  TypeOK /\ OneActivePerWork /\ [Next]_storeVars => OneActivePerWork'
<1> SUFFICES ASSUME TypeOK, OneActivePerWork, [Next]_storeVars PROVE OneActivePerWork'
  OBVIOUS
<1> USE DEF OneActivePerWork, Active, SameWork, ActiveStatus
<1>0. ASSUME DOMAIN jobs' \subseteq DOMAIN jobs,
             \A i \in DOMAIN jobs' :
               /\ jobs'[i].body = jobs[i].body
               /\ jobs'[i].status \in ActiveStatus => jobs[i].status \in ActiveStatus
      PROVE  OneActivePerWork'
  BY <1>0
<1>1. ASSUME NEW k \in Key, NEW b \in Body, NEW j \in Job, NEW t \in 0 .. MaxClock,
             Submit(k, b, j, t)
      PROVE  OneActivePerWork'
  <2>1. jobs' = With(jobs, j, NewRow(b, t)) /\ j \notin DOMAIN jobs
    BY <1>1 DEF Submit
  <2>2. \A i \in Active' : i = j \/ (i \in Active /\ jobs'[i].body = jobs[i].body)
    BY <2>1 DEF With
  <2>3. j \in DOMAIN jobs' /\ jobs'[j].body = b
    BY <2>1 DEF With, NewRow
  <2>4. \A i \in Active : ~ SameWork(jobs[i].body, b) /\ ~ SameWork(b, jobs[i].body)
    BY <1>1 DEF Submit
  <2> QED BY <2>2, <2>3, <2>4
<1>2. ASSUME NEW k \in Key, NEW b \in Body, NEW j \in Job, SubmitReuse(k, b, j)
      PROVE  OneActivePerWork'
  BY <1>2, <1>0 DEF SubmitReuse
<1>3. ASSUME NEW j \in Job, Cancel(j) PROVE OneActivePerWork'
  BY <1>3, <1>0 DEF Cancel, SetRow, TypeOK, Row
<1>4. ASSUME NEW j \in Job, Claim(j) PROVE OneActivePerWork'
  BY <1>4, <1>0 DEF Claim, Queued, SetRow, TypeOK, Row
<1>5. ASSUME NEW j \in Job, Remove(j) PROVE OneActivePerWork'
  BY <1>5, <1>0 DEF Remove, Without, Restrict
<1>6. ASSUME NEW j \in Job, NEW t \in 0 .. MaxClock, Retry(j, t) PROVE OneActivePerWork'
  <2>1. DOMAIN jobs' = DOMAIN jobs /\ j \in DOMAIN jobs
    BY <1>6 DEF Retry, Retriable, SetRow
  <2>2. \A i \in DOMAIN jobs : jobs'[i].body = jobs[i].body
    BY <1>6 DEF Retry, Retriable, SetRow, TypeOK, Row
  <2>3. \A i \in Active' : i = j \/ i \in Active
    BY <1>6 DEF Retry, Retriable, SetRow
  <2>4. \A i \in Active \ {j} : ~ SameWork(jobs[i].body, jobs[j].body)
                                /\ ~ SameWork(jobs[j].body, jobs[i].body)
    BY <1>6 DEF Retry, Retriable, NoOtherActiveWork
  <2> QED BY <2>1, <2>2, <2>3, <2>4
<1>7. ASSUME NEW j \in Job, NEW a \in Attempt, Report(j, a) PROVE OneActivePerWork'
  <2> USE DEF SetRow, TypeOK, Row, Running
  <2>1. ASSUME NEW total, NEW completed, Progress(j, a, completed, total)
        PROVE  OneActivePerWork'
    BY <2>1, <1>0 DEF Progress
  <2>2. CASE Complete(j, a)
    BY <2>2, <1>0 DEF Complete
  <2>3. CASE CompleteRecovered(j, a)
    BY <2>3, <1>0 DEF CompleteRecovered, Unsettled
  <2>4. CASE Step(j, a)
    BY <2>4, <1>0 DEF Step
  <2>5. ASSUME NEW r \in BOOLEAN, Fail(j, a, r) PROVE OneActivePerWork'
    BY <2>5, <1>0 DEF Fail
  <2> QED BY <1>7, <2>1, <2>2, <2>3, <2>4, <2>5 DEF Report
<1>8. CASE Recover
  <2>1. ASSUME NEW i \in DOMAIN jobs
        PROVE  /\ jobs'[i].body = jobs[i].body
               /\ jobs'[i].status \in ActiveStatus => jobs[i].status \in ActiveStatus
    <3>1. CASE jobs[i].status = "running"
      BY <1>8, <3>1 DEF Recover, TypeOK, Row
    <3>2. CASE jobs[i].status # "running"
      BY <1>8, <3>2 DEF Recover
    <3> QED BY <3>1, <3>2
  <2>2. DOMAIN jobs' = DOMAIN jobs
    BY <1>8 DEF Recover
  <2> QED BY <1>0, <2>1, <2>2
<1>9. ASSUME NEW p \in BOOLEAN, SetPaused(p) PROVE OneActivePerWork'
  BY <1>9 DEF SetPaused
<1>10. CASE UNCHANGED storeVars
  BY <1>10 DEF storeVars
<1> QED BY <1>1, <1>2, <1>3, <1>4, <1>5, <1>6, <1>7, <1>8, <1>9, <1>10 DEF Next

\* Only Remove takes a row away, and it leaves a receipt; a body never changes.
LEMMA AliasStep ==
  TypeOK /\ AliasResolves /\ [Next]_storeVars => AliasResolves'
<1> SUFFICES ASSUME TypeOK, AliasResolves, [Next]_storeVars PROVE AliasResolves'
  OBVIOUS
<1> USE DEF AliasResolves
<1>0. ASSUME DOMAIN jobs' = DOMAIN jobs,
             \A i \in DOMAIN jobs : jobs'[i].body = jobs[i].body,
             UNCHANGED <<aliases, receipts>>
      PROVE  AliasResolves'
  BY <1>0
<1>1. ASSUME NEW k \in Key, NEW b \in Body, NEW j \in Job, NEW t \in 0 .. MaxClock,
             Submit(k, b, j, t)
      PROVE  AliasResolves'
  <2>1. /\ jobs' = With(jobs, j, NewRow(b, t))
        /\ aliases' = With(aliases, k, [job |-> j, body |-> b])
        /\ receipts' = receipts
        /\ j \notin DOMAIN jobs \cup DOMAIN receipts
        /\ \A l \in DOMAIN aliases : aliases[l].job # j
    BY <1>1 DEF Submit
  <2>2. DOMAIN jobs' = DOMAIN jobs \cup {j} /\ jobs'[j].body = b
    BY <2>1 DEF With, NewRow
  <2>3. \A i \in DOMAIN jobs : jobs'[i] = jobs[i]
    BY <2>1 DEF With
  <2>4. /\ DOMAIN aliases' = DOMAIN aliases \cup {k}
        /\ aliases'[k] = [job |-> j, body |-> b]
        /\ \A l \in DOMAIN aliases \ {k} : aliases'[l] = aliases[l]
    BY <2>1 DEF With
  <2> QED BY <2>1, <2>2, <2>3, <2>4
<1>2. ASSUME NEW k \in Key, NEW b \in Body, NEW j \in Job, SubmitReuse(k, b, j)
      PROVE  AliasResolves'
  <2>1. /\ DOMAIN aliases' = DOMAIN aliases \cup {k}
        /\ aliases'[k] = [job |-> j, body |-> b]
        /\ \A l \in DOMAIN aliases \ {k} : aliases'[l] = aliases[l]
    BY <1>2 DEF SubmitReuse, With
  <2>2. j \in DOMAIN jobs /\ jobs[j].body = b /\ UNCHANGED <<jobs, receipts>>
    BY <1>2 DEF SubmitReuse, Active
  <2> QED BY <2>1, <2>2
<1>3. ASSUME NEW j \in Job, Cancel(j) PROVE AliasResolves'
  BY <1>3, <1>0 DEF Cancel, Active, SetRow, TypeOK, Row
<1>4. ASSUME NEW j \in Job, Claim(j) PROVE AliasResolves'
  BY <1>4, <1>0 DEF Claim, Queued, SetRow, TypeOK, Row
<1>5. ASSUME NEW j \in Job, Remove(j) PROVE AliasResolves'
  <2>1. /\ DOMAIN jobs' = DOMAIN jobs \ {j} /\ j \in DOMAIN jobs
        /\ \A i \in DOMAIN jobs' : jobs'[i] = jobs[i]
    BY <1>5 DEF Remove, Without, Restrict
  <2>2. DOMAIN receipts' = DOMAIN receipts \cup {j} /\ aliases' = aliases
    BY <1>5 DEF Remove, With
  <2> QED BY <2>1, <2>2
<1>6. ASSUME NEW j \in Job, NEW t \in 0 .. MaxClock, Retry(j, t) PROVE AliasResolves'
  BY <1>6, <1>0 DEF Retry, Retriable, SetRow, TypeOK, Row
<1>7. ASSUME NEW j \in Job, NEW a \in Attempt, Report(j, a) PROVE AliasResolves'
  <2> USE DEF SetRow, TypeOK, Row, Running
  <2>1. ASSUME NEW total, NEW completed, Progress(j, a, completed, total)
        PROVE  AliasResolves'
    BY <2>1, <1>0 DEF Progress
  <2>2. CASE Complete(j, a)
    BY <2>2, <1>0 DEF Complete
  <2>3. CASE CompleteRecovered(j, a)
    BY <2>3, <1>0 DEF CompleteRecovered, Unsettled
  <2>4. CASE Step(j, a)
    BY <2>4, <1>0 DEF Step
  <2>5. ASSUME NEW r \in BOOLEAN, Fail(j, a, r) PROVE AliasResolves'
    BY <2>5, <1>0 DEF Fail
  <2> QED BY <1>7, <2>1, <2>2, <2>3, <2>4, <2>5 DEF Report
<1>8. CASE Recover
  <2>1. ASSUME NEW i \in DOMAIN jobs PROVE jobs'[i].body = jobs[i].body
    <3>1. CASE jobs[i].status = "running"
      BY <1>8, <3>1 DEF Recover, TypeOK, Row
    <3>2. CASE jobs[i].status # "running"
      BY <1>8, <3>2 DEF Recover
    <3> QED BY <3>1, <3>2
  <2> QED BY <1>0, <1>8, <2>1 DEF Recover
<1>9. ASSUME NEW p \in BOOLEAN, SetPaused(p) PROVE AliasResolves'
  BY <1>9 DEF SetPaused
<1>10. CASE UNCHANGED storeVars
  BY <1>10 DEF storeVars
<1> QED BY <1>1, <1>2, <1>3, <1>4, <1>5, <1>6, <1>7, <1>8, <1>9, <1>10 DEF Next

\* What ResultIsCurrent says of one row.
ResultRow(row) ==
  /\ row.result # Nil <=> row.status = "succeeded"
  /\ row.result # Nil => row.result = row.attempt /\ row.completed = row.body.units
  /\ row.body.kind = "fixture" /\ row.status # "succeeded" => row.completed < row.body.units

\* No step leaves a result with another attempt than its own.
LEMMA ResultStep ==
  TypeOK /\ ResultIsCurrent /\ [Next]_storeVars => ResultIsCurrent'
<1> SUFFICES ASSUME TypeOK, ResultIsCurrent, [Next]_storeVars PROVE ResultIsCurrent'
  OBVIOUS
<1>a. ResultIsCurrent <=> \A j \in DOMAIN jobs : ResultRow(jobs[j])
  BY DEF ResultIsCurrent, ResultRow
<1>b. ResultIsCurrent' <=> \A j \in DOMAIN jobs' : ResultRow(jobs'[j])
  BY DEF ResultIsCurrent, ResultRow
<1>0. ASSUME NEW j \in DOMAIN jobs, NEW row, SetRow(j, row), ResultRow(row)
      PROVE  ResultIsCurrent'
  BY <1>0, <1>a, <1>b DEF SetRow
<1>c. \A j \in DOMAIN jobs : jobs[j] \in Row /\ ResultRow(jobs[j])
  BY <1>a DEF TypeOK
<1>d. Attempt \subseteq Nat /\ Nil \notin Nat
  BY BoundAssumption, NilAssumption DEF Attempt
<1>1. ASSUME NEW k \in Key, NEW b \in Body, NEW j \in Job, NEW t \in 0 .. MaxClock,
             Submit(k, b, j, t)
      PROVE  ResultIsCurrent'
  <2>1. jobs' = With(jobs, j, NewRow(b, t)) /\ j \notin DOMAIN jobs /\ b.units >= 1
    BY <1>1 DEF Submit
  <2>2. ResultRow(NewRow(b, t))
    BY <2>1, UnitsInteger DEF ResultRow, NewRow
  <2>3. \A i \in DOMAIN jobs' : jobs'[i] = NewRow(b, t) \/ (i \in DOMAIN jobs /\ jobs'[i] = jobs[i])
    BY <2>1 DEF With
  <2> QED BY <2>2, <2>3, <1>a, <1>b
<1>2. ASSUME NEW k \in Key, NEW b \in Body, NEW j \in Job, SubmitReuse(k, b, j)
      PROVE  ResultIsCurrent'
  BY <1>2, <1>a, <1>b DEF SubmitReuse
<1>3. ASSUME NEW j \in Job, Cancel(j) PROVE ResultIsCurrent'
  <2> DEFINE row == [jobs[j] EXCEPT !.status = "cancelled", !.recoverable = TRUE]
  <2>1. j \in DOMAIN jobs /\ jobs[j].status # "succeeded"
    BY <1>3 DEF Cancel, Active, ActiveStatus
  <2>2. ResultRow(row)
    BY <2>1, <1>c DEF ResultRow, Row
  <2> QED BY <1>3, <2>1, <2>2, <1>0 DEF Cancel
<1>4. ASSUME NEW j \in Job, Claim(j) PROVE ResultIsCurrent'
  <2> DEFINE row == [jobs[j] EXCEPT !.status = "running", !.attempt = @ + 1]
  <2>1. j \in DOMAIN jobs /\ jobs[j].status = "queued"
    BY <1>4 DEF Claim, Queued
  <2>2. ResultRow(row)
    BY <2>1, <1>c DEF ResultRow, Row
  <2> QED BY <1>4, <2>1, <2>2, <1>0 DEF Claim
<1>5. ASSUME NEW j \in Job, Remove(j) PROVE ResultIsCurrent'
  BY <1>5, <1>a, <1>b DEF Remove, Without, Restrict
<1>6. ASSUME NEW j \in Job, NEW t \in 0 .. MaxClock, Retry(j, t) PROVE ResultIsCurrent'
  <2> DEFINE row == [jobs[j] EXCEPT
                       !.status = "queued",
                       !.completed = IF jobs[j].body.kind = "craig" THEN 0 ELSE @,
                       !.updated = t]
  <2>1. j \in DOMAIN jobs /\ jobs[j].status \in {"failed", "interrupted"}
    BY <1>6 DEF Retry, Retriable
  <2>2. /\ row.result = jobs[j].result /\ row.status = "queued" /\ row.body = jobs[j].body
        /\ jobs[j].body.kind = "fixture" => row.completed = jobs[j].completed
    BY <2>1, <1>c DEF Row
  <2>3. ResultRow(row)
    BY <2>1, <2>2, <1>c DEF ResultRow
  <2> QED BY <1>6, <2>1, <2>3, <1>0 DEF Retry, Retriable
<1>7. ASSUME NEW j \in Job, NEW a \in Attempt, Report(j, a) PROVE ResultIsCurrent'
  <2>1. ASSUME NEW total \in {b.units : b \in Body}, NEW completed \in 1 .. total,
               jobs[j].body.kind = "craig", Progress(j, a, completed, total)
        PROVE  ResultIsCurrent'
    <3> DEFINE row == [jobs[j] EXCEPT !.completed = completed]
    <3>1. j \in DOMAIN jobs /\ jobs[j].status = "running"
      BY <2>1 DEF Progress, Running
    <3>2. /\ row.result = jobs[j].result /\ row.status = "running"
          /\ row.body.kind = "craig"
      BY <2>1, <3>1, <1>c DEF Row
    <3>3. ResultRow(row)
      BY <3>1, <3>2, <1>c DEF ResultRow
    <3> QED BY <2>1, <3>1, <3>3, <1>0 DEF Progress
  <2>2. CASE Complete(j, a)
    <3> DEFINE row == [jobs[j] EXCEPT !.status = "succeeded", !.result = a]
    <3>1. j \in DOMAIN jobs /\ jobs[j].attempt = a /\ jobs[j].completed = jobs[j].body.units
      BY <2>2 DEF Complete, Running
    <3>2. /\ row.result = a /\ row.status = "succeeded" /\ row.attempt = a
          /\ row.completed = row.body.units
      BY <3>1, <1>c DEF Row
    <3>3. ResultRow(row)
      BY <3>2, <1>d DEF ResultRow
    <3> QED BY <2>2, <3>1, <3>3, <1>0 DEF Complete
  <2>3. CASE CompleteRecovered(j, a)
    <3> DEFINE row == [jobs[j] EXCEPT !.status = "succeeded", !.result = a,
                                      !.recoverable = TRUE,
                                      !.completed = jobs[j].body.units]
    <3>1. j \in DOMAIN jobs /\ jobs[j].attempt = a
      BY <2>3 DEF CompleteRecovered, Unsettled
    <3>2. /\ row.result = a /\ row.status = "succeeded" /\ row.attempt = a
          /\ row.completed = row.body.units
      BY <3>1, <1>c DEF Row
    <3>3. ResultRow(row)
      BY <3>2, <1>d DEF ResultRow
    <3> QED BY <2>3, <3>1, <3>3, <1>0 DEF CompleteRecovered, Unsettled
  <2>4. CASE Step(j, a)
    <3> DEFINE done == jobs[j].completed + 1 = jobs[j].body.units
               row == [jobs[j] EXCEPT !.completed = @ + 1,
                                      !.status = IF done THEN "succeeded" ELSE @,
                                      !.result = IF done THEN a ELSE Nil]
    <3>1. /\ j \in DOMAIN jobs /\ jobs[j].attempt = a /\ jobs[j].status = "running"
          /\ jobs[j].body.kind = "fixture"
      BY <2>4 DEF Step, Running
    <3>2. jobs[j].completed < jobs[j].body.units
      BY <3>1, <1>c DEF ResultRow
    <3>3. jobs[j].completed \in Nat /\ jobs[j].body.units \in Int
      BY <3>1, <1>c, UnitsInteger DEF Row
    <3>4. /\ row.completed = jobs[j].completed + 1 /\ row.body = jobs[j].body
          /\ row.attempt = a
          /\ done => row.status = "succeeded" /\ row.result = a
          /\ ~ done => row.status = "running" /\ row.result = Nil
      BY <3>1, <1>c DEF Row
    <3>5. ResultRow(row)
      <4>1. CASE done
        BY <3>4, <4>1, <1>d DEF ResultRow
      <4>2. CASE ~ done
        <5>1. row.completed < row.body.units
          BY <3>2, <3>3, <3>4, <4>2
        <5> QED BY <3>4, <4>2, <5>1 DEF ResultRow
      <4> QED BY <4>1, <4>2
    <3> QED BY <2>4, <3>1, <3>5, <1>0 DEF Step
  <2>5. ASSUME NEW r \in BOOLEAN, Fail(j, a, r) PROVE ResultIsCurrent'
    <3> DEFINE row == [jobs[j] EXCEPT !.status = "failed", !.recoverable = r]
    <3>1. j \in DOMAIN jobs /\ jobs[j].status = "running"
      BY <2>5 DEF Fail, Running
    <3>2. ResultRow(row)
      BY <3>1, <1>c DEF ResultRow, Row
    <3> QED BY <2>5, <3>1, <3>2, <1>0 DEF Fail
  <2> QED BY <1>7, <2>1, <2>2, <2>3, <2>4, <2>5 DEF Report
<1>8. CASE Recover
  <2>1. ASSUME NEW i \in DOMAIN jobs PROVE ResultRow(jobs'[i])
    <3> DEFINE row == [jobs[i] EXCEPT !.status = "interrupted", !.recoverable = TRUE]
    <3>1. CASE jobs[i].status = "running"
      <4>1. jobs'[i] = row
        BY <1>8, <3>1 DEF Recover
      <4>2. ResultRow(row)
        BY <3>1, <1>c DEF ResultRow, Row
      <4> QED BY <4>1, <4>2
    <3>2. CASE jobs[i].status # "running"
      BY <1>8, <3>2, <1>c DEF Recover
    <3> QED BY <3>1, <3>2
  <2> QED BY <1>8, <2>1, <1>b DEF Recover
<1>9. ASSUME NEW p \in BOOLEAN, SetPaused(p) PROVE ResultIsCurrent'
  BY <1>9, <1>a, <1>b DEF SetPaused
<1>10. CASE UNCHANGED storeVars
  BY <1>10, <1>a, <1>b DEF storeVars
<1> QED BY <1>1, <1>2, <1>3, <1>4, <1>5, <1>6, <1>7, <1>8, <1>9, <1>10 DEF Next
-----------------------------------------------------------------------------
\* The inductive invariant: the four statements support one another (a count
\* stays within its units because a fixture that runs has units left).
THEOREM StoreInvariant == Spec => []StoreInv
<1>1. StoreInv /\ [Next]_storeVars => StoreInv'
  BY TypeStep, ActiveWorkStep, AliasStep, ResultStep DEF StoreInv
<1> QED BY InitStoreInv, <1>1, PTL DEF Spec

\* The tables hold rows of their types and no row counts past its units.
THEOREM StoreTypes == Spec => []TypeOK
  BY StoreInvariant, PTL DEF StoreInv

\* No interleaving of submissions, retries, claims and removals makes two live
\* transcriptions of the same work.
THEOREM StoreOneActivePerWork == Spec => []OneActivePerWork
  BY StoreInvariant, PTL DEF StoreInv

\* An accepted key always leads to its job or to the receipt of its removal.
THEOREM StoreAliasResolves == Spec => []AliasResolves
  BY StoreInvariant, PTL DEF StoreInv

\* A result is of the attempt its row is at, and only a success has one.
THEOREM StoreResultIsCurrent == Spec => []ResultIsCurrent
  BY StoreInvariant, PTL DEF StoreInv

-----------------------------------------------------------------------------
(***************************************************************************)
(* JobStore implements JobLedger: every transaction of the job table is a  *)
(* step of the ledger that its clients see, or changes nothing they see.   *)
(***************************************************************************)
\* What a row shows of its operation, when the operation has a row.
LEMMA RowIsShown ==
  ASSUME TypeOK, NEW j \in DOMAIN jobs
  PROVE  /\ j \in Job
         /\ LedgerFate[j] = Fate(jobs[j].status)
         /\ LedgerTries[j] = jobs[j].attempt
  BY DEF TypeOK, LedgerFate, LedgerTries

\* A transaction that rewrites one row moves that operation only.
LEMMA RowStep ==
  ASSUME TypeOK, NEW j \in DOMAIN jobs, NEW row,
         jobs' = [jobs EXCEPT ![j] = row],
         UNCHANGED <<aliases, receipts>>
  PROVE  /\ LedgerFate' = [LedgerFate EXCEPT ![j] = Fate(row.status)]
         /\ LedgerTries' = [LedgerTries EXCEPT ![j] = row.attempt]
         /\ LedgerOwner' = LedgerOwner
<1>1. DOMAIN jobs' = DOMAIN jobs /\ \A i \in DOMAIN jobs : jobs'[i] = IF i = j THEN row ELSE jobs[i]
  OBVIOUS
<1>2. LedgerFate' = [LedgerFate EXCEPT ![j] = Fate(row.status)]
  BY <1>1 DEF LedgerFate, TypeOK
<1>3. LedgerTries' = [LedgerTries EXCEPT ![j] = row.attempt]
  BY <1>1 DEF LedgerTries, TypeOK
<1> QED BY <1>2, <1>3 DEF LedgerOwner

\* The empty tables are the empty ledger.
LEMMA LedgerInit == Init => Ledger!Init
  BY DEF Init, Ledger!Init, LedgerOwner, LedgerFate, LedgerTries

\* A transaction that only changes counts or stamps shows nothing.
LEMMA Hidden ==
  ASSUME TypeOK, NEW j \in DOMAIN jobs, NEW row,
         jobs' = [jobs EXCEPT ![j] = row],
         UNCHANGED <<aliases, receipts>>,
         row.status = jobs[j].status, row.attempt = jobs[j].attempt
  PROVE  UNCHANGED Ledger!ledgerVars
<1>1. Fate(row.status) = LedgerFate[j] /\ row.attempt = LedgerTries[j]
  <2>1. LedgerFate[j] = Fate(jobs[j].status) /\ LedgerTries[j] = jobs[j].attempt
    BY RowIsShown
  <2> QED BY <2>1
<1>2. /\ LedgerFate' = [LedgerFate EXCEPT ![j] = Fate(row.status)]
      /\ LedgerTries' = [LedgerTries EXCEPT ![j] = row.attempt]
      /\ LedgerOwner' = LedgerOwner
  BY RowStep
<1>3. LedgerFate' = LedgerFate
  BY <1>1, <1>2 DEF LedgerFate
<1>4. LedgerTries' = LedgerTries
  BY <1>1, <1>2 DEF LedgerTries
<1> QED BY <1>2, <1>3, <1>4 DEF Ledger!ledgerVars

\* A transaction that moves one row to another status, of the same attempt.
LEMMA Moved ==
  ASSUME TypeOK, NEW j \in DOMAIN jobs, NEW row, NEW from, NEW to,
         jobs' = [jobs EXCEPT ![j] = row],
         UNCHANGED <<aliases, receipts>>,
         Fate(jobs[j].status) \in from, Fate(row.status) = to,
         row.attempt = jobs[j].attempt
  PROVE  Ledger!Move(j, from, to)
<1>1. LedgerFate[j] = Fate(jobs[j].status) /\ LedgerTries[j] = jobs[j].attempt
  BY RowIsShown
<1>2. /\ LedgerFate' = [LedgerFate EXCEPT ![j] = Fate(row.status)]
      /\ LedgerTries' = [LedgerTries EXCEPT ![j] = row.attempt]
      /\ LedgerOwner' = LedgerOwner
  BY RowStep
<1>3. LedgerTries' = LedgerTries
  BY <1>1, <1>2 DEF LedgerTries
<1> QED BY <1>1, <1>2, <1>3 DEF Ledger!Move

\* What each status of the table shows.
LEMMA Shown ==
  /\ Fate("queued") = "waiting"
  /\ Fate("running") = "running"
  /\ Fate("succeeded") = "succeeded"
  /\ Fate("cancelled") = "cancelled"
  /\ Fate("failed") = "stopped"
  /\ Fate("interrupted") = "stopped"
  BY DEF Fate

\* Every transaction is a step of the ledger or a stutter.
LEMMA LedgerStep ==
  ASSUME StoreInv, [Next]_storeVars
  PROVE  [Ledger!Next]_(Ledger!ledgerVars)
<1> USE DEF StoreInv
<1>1. ASSUME NEW k \in Key, NEW b \in Body, NEW j \in Job, NEW t \in 0 .. MaxClock,
             Submit(k, b, j, t)
      PROVE  Ledger!Accept(k, j)
  <2>1. LedgerOwner' = [l \in DOMAIN LedgerOwner \cup {k} |-> IF l = k THEN j ELSE LedgerOwner[l]]
    BY <1>1 DEF Submit, LedgerOwner, With
  <2>2. k \notin DOMAIN LedgerOwner
    BY <1>1 DEF Submit, LedgerOwner
  <2>3. LedgerFate[j] = "none" /\ LedgerFate' = [LedgerFate EXCEPT ![j] = "waiting"]
    BY <1>1, Shown DEF Submit, LedgerFate, With, NewRow
  <2>4. LedgerTries' = LedgerTries
    BY <1>1 DEF Submit, LedgerTries, With, NewRow
  <2> QED BY <2>1, <2>2, <2>3, <2>4 DEF Ledger!Accept, Ledger!Name
<1>2. ASSUME NEW k \in Key, NEW b \in Body, NEW j \in Job, SubmitReuse(k, b, j)
      PROVE  Ledger!Attach(k, j)
  <2>1. LedgerOwner' = [l \in DOMAIN LedgerOwner \cup {k} |-> IF l = k THEN j ELSE LedgerOwner[l]]
    BY <1>2 DEF SubmitReuse, LedgerOwner, With
  <2>2. k \notin DOMAIN LedgerOwner
    BY <1>2 DEF SubmitReuse, LedgerOwner
  <2>3. LedgerFate[j] \in {"waiting", "running"}
    BY <1>2, Shown, RowIsShown DEF SubmitReuse, Active, ActiveStatus
  <2>4. LedgerFate' = LedgerFate /\ LedgerTries' = LedgerTries
    BY <1>2 DEF SubmitReuse, LedgerFate, LedgerTries
  <2> QED BY <2>1, <2>2, <2>3, <2>4 DEF Ledger!Attach, Ledger!Name
<1>3. ASSUME NEW j \in Job, Cancel(j) PROVE Ledger!Cancel(j)
  <2> DEFINE row == [jobs[j] EXCEPT !.status = "cancelled", !.recoverable = TRUE]
  <2>1. j \in DOMAIN jobs /\ jobs[j] \in Row /\ jobs[j].status \in {"queued", "running"}
    BY <1>3 DEF Cancel, Active, ActiveStatus, TypeOK
  <2>2. row.status = "cancelled" /\ row.attempt = jobs[j].attempt
    BY <2>1 DEF Row
  <2>3. Fate(jobs[j].status) \in {"waiting", "running"} /\ Fate(row.status) = "cancelled"
    BY <2>1, <2>2, Shown
  <2>4. jobs' = [jobs EXCEPT ![j] = row] /\ UNCHANGED <<aliases, receipts>>
    BY <1>3 DEF Cancel, SetRow
  <2> QED BY <2>1, <2>2, <2>3, <2>4, Moved DEF Ledger!Cancel
<1>4. ASSUME NEW j \in Job, Claim(j) PROVE Ledger!Start(j)
  <2> DEFINE row == [jobs[j] EXCEPT !.status = "running", !.attempt = @ + 1]
  <2>1. j \in DOMAIN jobs /\ jobs[j] \in Row /\ jobs[j].status = "queued"
    BY <1>4 DEF Claim, Queued, TypeOK
  <2>2. row.status = "running" /\ row.attempt = jobs[j].attempt + 1
    BY <2>1 DEF Row
  <2>3. jobs' = [jobs EXCEPT ![j] = row] /\ UNCHANGED <<aliases, receipts>>
    BY <1>4 DEF Claim, SetRow
  <2>4. LedgerFate[j] = "waiting" /\ LedgerTries[j] = jobs[j].attempt
    <3>1. LedgerFate[j] = Fate(jobs[j].status) /\ LedgerTries[j] = jobs[j].attempt
      BY <2>1, RowIsShown
    <3> QED BY <3>1, <2>1, Shown
  <2>5. /\ LedgerFate' = [LedgerFate EXCEPT ![j] = Fate(row.status)]
        /\ LedgerTries' = [LedgerTries EXCEPT ![j] = row.attempt]
        /\ LedgerOwner' = LedgerOwner
    BY <2>1, <2>3, RowStep
  <2>6. Fate(row.status) = "running"
    BY <2>2, Shown
  <2>7. LedgerTries' = [LedgerTries EXCEPT ![j] = @ + 1]
    BY <2>2, <2>4, <2>5
  <2> QED BY <2>4, <2>5, <2>6, <2>7 DEF Ledger!Start
<1>5. ASSUME NEW j \in Job, Remove(j) PROVE UNCHANGED Ledger!ledgerVars
  <2>1. j \in DOMAIN jobs /\ DOMAIN jobs' = DOMAIN jobs \ {j}
        /\ \A i \in DOMAIN jobs' : jobs'[i] = jobs[i]
    BY <1>5 DEF Remove, Without, Restrict
  <2>2. DOMAIN receipts' = DOMAIN receipts \cup {j}
        /\ receipts'[j].status = jobs[j].status /\ receipts'[j].attempt = jobs[j].attempt
        /\ \A i \in DOMAIN receipts \ {j} : receipts'[i] = receipts[i]
    BY <1>5 DEF Remove, With
  <2>3. LedgerFate' = LedgerFate
    BY <2>1, <2>2 DEF LedgerFate
  <2>4. LedgerTries' = LedgerTries
    BY <2>1, <2>2 DEF LedgerTries
  <2>5. LedgerOwner' = LedgerOwner
    BY <1>5 DEF Remove, LedgerOwner
  <2> QED BY <2>3, <2>4, <2>5 DEF Ledger!ledgerVars
<1>6. ASSUME NEW j \in Job, NEW t \in 0 .. MaxClock, Retry(j, t) PROVE Ledger!Requeue(j)
  <2> DEFINE row == [jobs[j] EXCEPT
                       !.status = "queued",
                       !.completed = IF jobs[j].body.kind = "craig" THEN 0 ELSE @,
                       !.updated = t]
  <2>1. j \in DOMAIN jobs /\ jobs[j] \in Row /\ jobs[j].status \in {"failed", "interrupted"}
    BY <1>6 DEF Retry, Retriable, TypeOK
  <2>2. row.status = "queued" /\ row.attempt = jobs[j].attempt
    BY <2>1 DEF Row
  <2>3. Fate(jobs[j].status) \in {"stopped"} /\ Fate(row.status) = "waiting"
    BY <2>1, <2>2, Shown
  <2>4. jobs' = [jobs EXCEPT ![j] = row] /\ UNCHANGED <<aliases, receipts>>
    BY <1>6 DEF Retry, SetRow
  <2> QED BY <2>1, <2>2, <2>3, <2>4, Moved DEF Ledger!Requeue
<1>7. ASSUME NEW j \in Job, NEW a \in Attempt, Report(j, a)
      PROVE  UNCHANGED Ledger!ledgerVars \/ Ledger!Succeed(j) \/ Ledger!Stop(j)
  <2>1. ASSUME NEW total \in {b.units : b \in Body}, NEW completed \in 1 .. total,
               Progress(j, a, completed, total)
        PROVE  UNCHANGED Ledger!ledgerVars
    <3> DEFINE row == [jobs[j] EXCEPT !.completed = completed]
    <3>1. j \in DOMAIN jobs /\ jobs[j] \in Row
      BY <2>1 DEF Progress, Running, TypeOK
    <3>2. row.status = jobs[j].status /\ row.attempt = jobs[j].attempt
      BY <3>1 DEF Row
    <3>3. jobs' = [jobs EXCEPT ![j] = row] /\ UNCHANGED <<aliases, receipts>>
      BY <2>1 DEF Progress, SetRow
    <3> QED BY <3>1, <3>2, <3>3, Hidden
  <2>2. CASE Complete(j, a)
    <3> DEFINE row == [jobs[j] EXCEPT !.status = "succeeded", !.result = a]
    <3>1. j \in DOMAIN jobs /\ jobs[j] \in Row /\ jobs[j].status = "running"
      BY <2>2 DEF Complete, Running, TypeOK
    <3>2. row.status = "succeeded" /\ row.attempt = jobs[j].attempt
      BY <3>1 DEF Row
    <3>3. Fate(jobs[j].status) \in {"running", "stopped"} /\ Fate(row.status) = "succeeded"
      BY <3>1, <3>2, Shown
    <3>4. jobs' = [jobs EXCEPT ![j] = row] /\ UNCHANGED <<aliases, receipts>>
      BY <2>2 DEF Complete, SetRow
    <3> QED BY <3>1, <3>2, <3>3, <3>4, Moved DEF Ledger!Succeed
  <2>3. CASE CompleteRecovered(j, a)
    <3> DEFINE row == [jobs[j] EXCEPT !.status = "succeeded", !.result = a,
                                      !.recoverable = TRUE,
                                      !.completed = jobs[j].body.units]
    <3>1. /\ j \in DOMAIN jobs /\ jobs[j] \in Row
          /\ jobs[j].status \in {"running", "interrupted", "failed"}
      BY <2>3 DEF CompleteRecovered, Unsettled, TypeOK
    <3>2. row.status = "succeeded" /\ row.attempt = jobs[j].attempt
      BY <3>1 DEF Row
    <3>3. Fate(jobs[j].status) \in {"running", "stopped"} /\ Fate(row.status) = "succeeded"
      BY <3>1, <3>2, Shown
    <3>4. jobs' = [jobs EXCEPT ![j] = row] /\ UNCHANGED <<aliases, receipts>>
      BY <2>3 DEF CompleteRecovered, SetRow
    <3> QED BY <3>1, <3>2, <3>3, <3>4, Moved DEF Ledger!Succeed
  <2>4. CASE Step(j, a)
    <3> DEFINE done == jobs[j].completed + 1 = jobs[j].body.units
               row == [jobs[j] EXCEPT !.completed = @ + 1,
                                      !.status = IF done THEN "succeeded" ELSE @,
                                      !.result = IF done THEN a ELSE Nil]
    <3>1. j \in DOMAIN jobs /\ jobs[j] \in Row /\ jobs[j].status = "running"
      BY <2>4 DEF Step, Running, TypeOK
    <3>2. row.attempt = jobs[j].attempt /\ row.status = IF done THEN "succeeded" ELSE jobs[j].status
      BY <3>1 DEF Row
    <3>3. jobs' = [jobs EXCEPT ![j] = row] /\ UNCHANGED <<aliases, receipts>>
      BY <2>4 DEF Step, SetRow
    <3>4. CASE done
      <4>1. Fate(jobs[j].status) \in {"running", "stopped"} /\ Fate(row.status) = "succeeded"
        BY <3>1, <3>2, <3>4, Shown
      <4> QED BY <3>1, <3>2, <3>3, <4>1, Moved DEF Ledger!Succeed
    <3>5. CASE ~ done
      <4>1. row.status = jobs[j].status
        BY <3>2, <3>5
      <4> QED BY <3>1, <3>2, <3>3, <4>1, Hidden
    <3> QED BY <3>4, <3>5
  <2>5. ASSUME NEW r \in BOOLEAN, Fail(j, a, r) PROVE Ledger!Stop(j)
    <3> DEFINE row == [jobs[j] EXCEPT !.status = "failed", !.recoverable = r]
    <3>1. j \in DOMAIN jobs /\ jobs[j] \in Row /\ jobs[j].status = "running"
      BY <2>5 DEF Fail, Running, TypeOK
    <3>2. row.status = "failed" /\ row.attempt = jobs[j].attempt
      BY <3>1 DEF Row
    <3>3. Fate(jobs[j].status) \in {"running"} /\ Fate(row.status) = "stopped"
      BY <3>1, <3>2, Shown
    <3>4. jobs' = [jobs EXCEPT ![j] = row] /\ UNCHANGED <<aliases, receipts>>
      BY <2>5 DEF Fail, SetRow
    <3> QED BY <3>1, <3>2, <3>3, <3>4, Moved DEF Ledger!Stop
  <2> QED BY <1>7, <2>1, <2>2, <2>3, <2>4, <2>5 DEF Report
<1>8. ASSUME Recover PROVE Ledger!StopAll
  <2>1. DOMAIN jobs' = DOMAIN jobs /\ UNCHANGED <<aliases, receipts>>
    BY <1>8 DEF Recover
  <2>2. \A i \in DOMAIN jobs :
          /\ jobs'[i].attempt = jobs[i].attempt
          /\ Fate(jobs'[i].status) = IF Fate(jobs[i].status) = "running" THEN "stopped"
                                                                       ELSE Fate(jobs[i].status)
    <3>1. ASSUME NEW i \in DOMAIN jobs, jobs[i].status = "running"
          PROVE  jobs'[i].attempt = jobs[i].attempt /\ jobs'[i].status = "interrupted"
      BY <1>8, <3>1 DEF Recover, TypeOK, Row
    <3>2. ASSUME NEW i \in DOMAIN jobs, jobs[i].status # "running"
          PROVE  jobs'[i] = jobs[i] /\ Fate(jobs[i].status) # "running"
      <4>1. jobs[i].status \in Status
        BY DEF TypeOK, Row
      <4> QED BY <1>8, <3>2, <4>1, Shown DEF Recover, Status
    <3> QED BY <3>1, <3>2, Shown
  <2>3. LedgerFate' = [j \in Job |-> IF LedgerFate[j] = "running" THEN "stopped" ELSE LedgerFate[j]]
    <3>1. ASSUME NEW j \in Job PROVE LedgerFate'[j] = IF LedgerFate[j] = "running" THEN "stopped" ELSE LedgerFate[j]
      <4>1. CASE j \in DOMAIN jobs
        BY <2>1, <2>2, <4>1 DEF LedgerFate
      <4>2. CASE j \in DOMAIN receipts /\ j \notin DOMAIN jobs
        <5>1. receipts[j].status \in RemovableStatus
          BY <4>2 DEF TypeOK, Receipt
        <5>2. Fate(receipts[j].status) # "running"
          BY <5>1, Shown DEF RemovableStatus
        <5> QED BY <2>1, <4>2, <5>2 DEF LedgerFate
      <4>3. CASE j \notin DOMAIN jobs /\ j \notin DOMAIN receipts
        BY <2>1, <4>3 DEF LedgerFate
      <4> QED BY <4>1, <4>2, <4>3
    <3> QED BY <3>1 DEF LedgerFate
  <2>4. LedgerTries' = LedgerTries
    BY <2>1, <2>2 DEF LedgerTries
  <2> QED BY <2>1, <2>3, <2>4 DEF Ledger!StopAll, LedgerOwner
<1>9. ASSUME NEW p \in BOOLEAN, SetPaused(p) PROVE UNCHANGED Ledger!ledgerVars
  BY <1>9 DEF SetPaused, Ledger!ledgerVars, LedgerOwner, LedgerFate, LedgerTries
<1>10. CASE UNCHANGED storeVars
  BY <1>10 DEF storeVars, Ledger!ledgerVars, LedgerOwner, LedgerFate, LedgerTries
<1> QED
  BY <1>1, <1>2, <1>3, <1>4, <1>5, <1>6, <1>7, <1>8, <1>9, <1>10 DEF Next, Ledger!Next

\* The job table implements the ledger, for every set of jobs, keys and bodies:
\* what has succeeded or was cancelled stays so, whatever happens to its row.
THEOREM StoreImplementsLedger == Spec => ImplementsLedger
<1>1. StoreInv /\ [Next]_storeVars => [Ledger!Next]_(Ledger!ledgerVars)
  BY LedgerStep
<1> QED BY LedgerInit, StoreInvariant, <1>1, PTL DEF Spec, ImplementsLedger, Ledger!Spec
=============================================================================

--------------------------- MODULE JobStore_proofs ---------------------------
(* Theorems of JobStore and of its refinement of AsyncContract. *)
EXTENDS JobStoreRefinement, TLAPS

USE DEF Pending, Terminal, NoJob, NoAnswer, Phases, SameRoute

(***************************************************************************)
(* Type correctness.                                                       *)
(***************************************************************************)

\* What each operation of the store leaves in the Map is a well-typed Map.
LEMMA StoreTypes ==
    ASSUME TypeOK, NEW s \in Subs
    PROVE  /\ Enqueue(s) \in [Thids -> Job \cup {NoJob}]
           /\ MarkRunning(s) \in [Thids -> Job \cup {NoJob}]
           /\ MarkSucceeded(s) \in [Thids -> Job \cup {NoJob}]
           /\ MarkFailed(s) \in [Thids -> Job \cup {NoJob}]
           /\ Cleaned \in [Thids -> Job \cup {NoJob}]
<1>1. ThidOf[s] \in Thids /\ RouteOf[s] \in Routes
  BY InputsAssumption
<1>2. jobs[ThidOf[s]] \in Job \cup {NoJob}
  BY <1>1 DEF TypeOK
<1>3. Enqueue(s) \in [Thids -> Job \cup {NoJob}]
  BY <1>1 DEF TypeOK, Enqueue, Job
<1>4. MarkRunning(s) \in [Thids -> Job \cup {NoJob}]
  BY <1>1, <1>2 DEF TypeOK, MarkRunning, Job
<1>5. MarkSucceeded(s) \in [Thids -> Job \cup {NoJob}]
  BY <1>1, <1>2 DEF TypeOK, MarkSucceeded, Job
<1>6. MarkFailed(s) \in [Thids -> Job \cup {NoJob}]
  BY <1>1, <1>2 DEF TypeOK, MarkFailed, Job
<1>7. Cleaned \in [Thids -> Job \cup {NoJob}]
  BY DEF TypeOK, Cleaned
<1> QED BY <1>3, <1>4, <1>5, <1>6, <1>7

\* A poll of a well-typed job gives a well-typed answer.
LEMMA AnswerTypes ==
    ASSUME NEW t \in Thids, NEW r \in Routes, NEW job \in Job \cup {NoJob}
    PROVE  AnswerFrom(job, t, r) \in Answer
BY DEF AnswerFrom, Answer, Job

LEMMA TypeInductive == TypeOK /\ [Next]_vars => TypeOK'
<1> SUFFICES ASSUME TypeOK, [Next]_vars PROVE TypeOK'
  OBVIOUS
<1>1. ASSUME NEW s \in Subs, Submit(s) PROVE TypeOK'
  BY <1>1, StoreTypes DEF TypeOK, Submit
<1>2. ASSUME NEW s \in Subs, WorkerStart(s) PROVE TypeOK'
  BY <1>2, StoreTypes DEF TypeOK, WorkerStart
<1>3. ASSUME NEW s \in Subs, WorkerReturn(s) PROVE TypeOK'
  BY <1>3, StoreTypes DEF TypeOK, WorkerReturn
<1>4. ASSUME NEW s \in Subs, WorkerThrow(s) PROVE TypeOK'
  BY <1>4, StoreTypes DEF TypeOK, WorkerThrow
<1>5. ASSUME NEW t \in Thids, NEW r \in Routes, Poll(t, r) PROVE TypeOK'
  <2>1. Cleaned \in [Thids -> Job \cup {NoJob}]
    BY DEF TypeOK, Cleaned
  <2>2. AnswerFrom(Cleaned[t], t, r) \in Answer
    BY <2>1, AnswerTypes
  <2> QED BY <1>5, <2>1, <2>2 DEF TypeOK, Poll
<1>6. CASE Tick
  BY <1>6, ClockAssumption DEF TypeOK, Tick
<1>7. CASE Restart
  BY <1>7 DEF TypeOK, Restart
<1>8. CASE UNCHANGED vars
  BY <1>8 DEF TypeOK, vars
<1> QED BY <1>1, <1>2, <1>3, <1>4, <1>5, <1>6, <1>7, <1>8 DEF Next, Worker

\* The variables keep their types.
THEOREM TypeCorrect == Spec => []TypeOK
<1>1. Init => TypeOK
  BY ClockAssumption DEF Init, TypeOK
<1> QED BY <1>1, TypeInductive, PTL DEF Spec

(***************************************************************************)
(* No job is left pending with nobody to end it, whatever thread ids the   *)
(* clients choose.                                                         *)
(***************************************************************************)

LEMMA NoOrphanInductive ==
    TypeOK /\ NoOrphanPending /\ [Next]_vars => NoOrphanPending'
<1> SUFFICES ASSUME TypeOK, NoOrphanPending, [Next]_vars PROVE NoOrphanPending'
  OBVIOUS
<1>a. \A s \in Subs : ThidOf[s] \in Thids
  BY InputsAssumption
<1>1. ASSUME NEW s \in Subs, Submit(s) PROVE NoOrphanPending'
  BY <1>1, <1>a DEF TypeOK, NoOrphanPending, Submit, Enqueue
<1>2. ASSUME NEW s \in Subs, WorkerStart(s) PROVE NoOrphanPending'
  BY <1>2, <1>a DEF TypeOK, NoOrphanPending, WorkerStart, MarkRunning
<1>3. ASSUME NEW s \in Subs, WorkerReturn(s) PROVE NoOrphanPending'
  BY <1>3, <1>a DEF TypeOK, NoOrphanPending, WorkerReturn, MarkSucceeded
<1>4. ASSUME NEW s \in Subs, WorkerThrow(s) PROVE NoOrphanPending'
  BY <1>4, <1>a DEF TypeOK, NoOrphanPending, WorkerThrow, MarkFailed
<1>5. ASSUME NEW u \in Thids, NEW r \in Routes, Poll(u, r) PROVE NoOrphanPending'
  BY <1>5 DEF TypeOK, NoOrphanPending, Poll, Cleaned
<1>6. CASE Tick
  BY <1>6 DEF NoOrphanPending, Tick
<1>7. CASE Restart
  BY <1>7 DEF NoOrphanPending, Restart
<1>8. CASE UNCHANGED vars
  BY <1>8 DEF NoOrphanPending, vars
<1> QED BY <1>1, <1>2, <1>3, <1>4, <1>5, <1>6, <1>7, <1>8 DEF Next, Worker

\* Every job that polls as 202 has a worker on its way that will end it.
THEOREM NoOrphan == Spec => []NoOrphanPending
<1>1. Init => NoOrphanPending
  BY DEF Init, NoOrphanPending
<1> QED BY <1>1, TypeCorrect, NoOrphanInductive, PTL DEF Spec

(***************************************************************************)
(* With unique thread ids a job is where its own worker left it.           *)
(***************************************************************************)

LEMMA FollowsInductive ==
    ASSUME UniqueThids, TypeOK, JobFollowsWorker, [Next]_vars
    PROVE  JobFollowsWorker'
<1>a. \A s \in Subs : ThidOf[s] \in Thids
  BY InputsAssumption
<1>b. \A s1, s2 \in Subs : ThidOf[s1] = ThidOf[s2] => s1 = s2
  BY DEF UniqueThids
<1>1. ASSUME NEW s \in Subs, Submit(s) PROVE JobFollowsWorker'
  BY <1>1, <1>a, <1>b DEF TypeOK, JobFollowsWorker, Submit, Enqueue
<1>2. ASSUME NEW s \in Subs, WorkerStart(s) PROVE JobFollowsWorker'
  BY <1>2, <1>a, <1>b DEF TypeOK, JobFollowsWorker, WorkerStart, MarkRunning
<1>3. ASSUME NEW s \in Subs, WorkerReturn(s) PROVE JobFollowsWorker'
  BY <1>3, <1>a, <1>b DEF TypeOK, JobFollowsWorker, WorkerReturn, MarkSucceeded
<1>4. ASSUME NEW s \in Subs, WorkerThrow(s) PROVE JobFollowsWorker'
  BY <1>4, <1>a, <1>b DEF TypeOK, JobFollowsWorker, WorkerThrow, MarkFailed
<1>5. ASSUME NEW u \in Thids, NEW r \in Routes, Poll(u, r) PROVE JobFollowsWorker'
  BY <1>5, <1>a DEF TypeOK, JobFollowsWorker, Poll, Cleaned, Expired
<1>6. CASE Tick
  BY <1>6 DEF JobFollowsWorker, Tick
<1>7. CASE Restart
  BY <1>7, <1>a DEF TypeOK, JobFollowsWorker, Restart
<1>8. CASE UNCHANGED vars
  BY <1>8 DEF JobFollowsWorker, vars
<1> QED BY <1>1, <1>2, <1>3, <1>4, <1>5, <1>6, <1>7, <1>8 DEF Next, Worker

\* With unique thread ids a job is where its own worker left it: queued, running
\* or ended with that worker's own result or error, or dropped.
THEOREM FollowsCorrect == UniqueThids => (Spec => []JobFollowsWorker)
<1> SUFFICES ASSUME UniqueThids PROVE Spec => []JobFollowsWorker
  OBVIOUS
<1>1. Init => JobFollowsWorker
  BY InputsAssumption DEF Init, JobFollowsWorker
<1>2. TypeOK /\ JobFollowsWorker /\ [Next]_vars => JobFollowsWorker'
  BY FollowsInductive
<1> QED BY <1>1, <1>2, TypeCorrect, PTL DEF Spec

LEMMA OwnInductive ==
    ASSUME UniqueThids, TypeOK, JobFollowsWorker, AnswerIsOwn, [Next]_vars
    PROVE  AnswerIsOwn'
<1>1. ASSUME NEW s \in Subs, Submit(s) PROVE AnswerIsOwn'
  BY <1>1 DEF TypeOK, AnswerIsOwn, Submit
<1>2. ASSUME NEW s \in Subs, Worker(s) PROVE AnswerIsOwn'
  BY <1>2 DEF TypeOK, AnswerIsOwn, Worker, WorkerStart, WorkerReturn, WorkerThrow
<1>3. ASSUME NEW t \in Thids, NEW r \in Routes, Poll(t, r) PROVE AnswerIsOwn'
  <2> DEFINE a == AnswerFrom(Cleaned[t], t, r)
  <2>1. answer' = a /\ phase' = phase
    BY <1>3 DEF Poll
  <2>2. CASE a.kind \notin {"succeeded", "failed"}
    BY <2>1, <2>2 DEF AnswerIsOwn
  <2>3. CASE a.kind \in {"succeeded", "failed"}
    <3>1. /\ a.thid = t /\ a.route = r
          /\ Cleaned[t] # NoJob /\ Cleaned[t].route = r
          /\ \/ Cleaned[t].status = "failed" /\ a.by = Cleaned[t].error
             \/ /\ Cleaned[t].status \notin {"queued", "running", "failed"}
                /\ a.by = Cleaned[t].result
      BY <2>3 DEF AnswerFrom
    <3>2. Cleaned[t] = jobs[t]
      BY <3>1 DEF Cleaned
    <3>3. PICK s \in Subs : ThidOf[s] = t
      BY <3>1, <3>2 DEF JobFollowsWorker
    <3>4. phase[s] = "ended" /\ a.by = s /\ RouteOf[s] = r
      BY <3>1, <3>2, <3>3 DEF JobFollowsWorker, TypeOK
    <3> QED BY <2>1, <3>1, <3>3, <3>4 DEF AnswerIsOwn
  <2> QED BY <2>2, <2>3
<1>4. CASE Tick
  BY <1>4 DEF AnswerIsOwn, Tick
<1>5. CASE Restart
  BY <1>5 DEF TypeOK, AnswerIsOwn, Restart
<1>6. CASE UNCHANGED vars
  BY <1>6 DEF AnswerIsOwn, vars
<1> QED BY <1>1, <1>2, <1>3, <1>4, <1>5, <1>6 DEF Next

\* With unique thread ids no client is ever answered from another's work.
THEOREM AnswerOwnership == UniqueThids => (Spec => []AnswerIsOwn)
<1> SUFFICES ASSUME UniqueThids PROVE Spec => []AnswerIsOwn
  OBVIOUS
<1>1. Init => AnswerIsOwn
  BY DEF Init, AnswerIsOwn
<1>2. TypeOK /\ JobFollowsWorker /\ AnswerIsOwn /\ [Next]_vars => AnswerIsOwn'
  BY OwnInductive
<1>3. Spec => []JobFollowsWorker
  BY FollowsCorrect
<1> QED BY <1>1, <1>2, <1>3, TypeCorrect, PTL DEF Spec

\* With unique thread ids an accepted submission stays known until it ends.
THEOREM OutstandingKnown == UniqueThids => (Spec => []OutstandingIsPending)
<1> SUFFICES ASSUME UniqueThids PROVE Spec => []OutstandingIsPending
  OBVIOUS
<1>1. TypeOK /\ JobFollowsWorker => OutstandingIsPending
  BY InputsAssumption
     DEF JobFollowsWorker, OutstandingIsPending, Outstanding, Cleaned, Expired, AnswerFrom
<1>2. Spec => []JobFollowsWorker
  BY FollowsCorrect
<1> QED BY <1>1, <1>2, TypeCorrect, PTL

(***************************************************************************)
(* What a step may never do to an outcome.                                 *)
(***************************************************************************)

\* With unique thread ids an outcome is final until it is forgotten.
THEOREM OutcomeIsFinal == UniqueThids => (Spec => TerminalIsFinal)
<1> SUFFICES ASSUME UniqueThids PROVE Spec => TerminalIsFinal
  OBVIOUS
<1>1. ASSUME TypeOK, JobFollowsWorker, [Next]_vars PROVE TerminalIsFinalStep \/ UNCHANGED vars
  <2>a. \A s \in Subs : ThidOf[s] \in Thids
    BY InputsAssumption
  <2>1. ASSUME NEW s \in Subs, Submit(s) PROVE TerminalIsFinalStep
    BY <1>1, <2>1, <2>a DEF TypeOK, JobFollowsWorker, TerminalIsFinalStep, Submit, Enqueue
  <2>2. ASSUME NEW s \in Subs, WorkerStart(s) PROVE TerminalIsFinalStep
    BY <1>1, <2>2, <2>a DEF TypeOK, JobFollowsWorker, TerminalIsFinalStep, WorkerStart, MarkRunning
  <2>3. ASSUME NEW s \in Subs, WorkerReturn(s) PROVE TerminalIsFinalStep
    BY <1>1, <2>3, <2>a DEF TypeOK, JobFollowsWorker, TerminalIsFinalStep, WorkerReturn, MarkSucceeded
  <2>4. ASSUME NEW s \in Subs, WorkerThrow(s) PROVE TerminalIsFinalStep
    BY <1>1, <2>4, <2>a DEF TypeOK, JobFollowsWorker, TerminalIsFinalStep, WorkerThrow, MarkFailed
  <2>5. ASSUME NEW u \in Thids, NEW r \in Routes, Poll(u, r) PROVE TerminalIsFinalStep
    BY <2>5 DEF TerminalIsFinalStep, Poll, Cleaned
  <2>6. CASE Tick
    BY <2>6 DEF TerminalIsFinalStep, Tick
  <2>7. CASE Restart
    BY <2>7 DEF TerminalIsFinalStep, Restart
  <2> QED BY <1>1, <2>1, <2>2, <2>3, <2>4, <2>5, <2>6, <2>7 DEF Next, Worker
<1>2. TypeOK /\ JobFollowsWorker /\ [Next]_vars => [TerminalIsFinalStep]_vars
  BY <1>1
<1>3. Spec => []JobFollowsWorker
  BY FollowsCorrect
<1> QED BY <1>2, <1>3, TypeCorrect, PTL DEF Spec, TerminalIsFinal

\* No mark removes a job.
LEMMA MarksKeep ==
    ASSUME TypeOK, NEW s \in Subs, NEW t \in Thids, jobs[t] # NoJob
    PROVE  /\ MarkRunning(s)[t] # NoJob
           /\ MarkSucceeded(s)[t] # NoJob
           /\ MarkFailed(s)[t] # NoJob
<1> DEFINE u == ThidOf[s]
<1>1. u \in Thids /\ jobs[u] \in Job \cup {NoJob} /\ jobs \in [Thids -> Job \cup {NoJob}]
  BY InputsAssumption DEF TypeOK
<1>2. CASE t # u \/ jobs[u] = NoJob
  BY <1>1, <1>2 DEF MarkRunning, MarkSucceeded, MarkFailed
<1>3. CASE t = u /\ jobs[u] # NoJob
  <2>1. /\ MarkRunning(s)[t].status = "running"
        /\ MarkSucceeded(s)[t].status = "succeeded"
        /\ MarkFailed(s)[t].status = "failed"
    BY <1>1, <1>3 DEF MarkRunning, MarkSucceeded, MarkFailed, Job
  <2>2. NoJob.status = "absent"
    OBVIOUS
  <2> QED BY <2>1, <2>2
<1> QED BY <1>2, <1>3

\* Whatever thread ids clients choose, an outcome outlives its TTL unless the
\* process restarts: no resubmission, worker or poll makes the thread unknown.
THEOREM OutcomeIsKept == Spec => KeptForTtl
<1>1. ASSUME TypeOK, [Next]_vars PROVE KeptForTtlStep \/ UNCHANGED vars
  <2>a. \A s \in Subs : ThidOf[s] \in Thids
    BY InputsAssumption
  <2>1. ASSUME NEW s \in Subs, Submit(s) PROVE KeptForTtlStep
    BY <1>1, <2>1, <2>a DEF TypeOK, KeptForTtlStep, Submit, Enqueue
  <2>2. ASSUME NEW s \in Subs, WorkerStart(s) PROVE KeptForTtlStep
    BY <1>1, <2>2, MarksKeep DEF KeptForTtlStep, WorkerStart
  <2>3. ASSUME NEW s \in Subs, WorkerReturn(s) PROVE KeptForTtlStep
    BY <1>1, <2>3, MarksKeep DEF KeptForTtlStep, WorkerReturn
  <2>4. ASSUME NEW s \in Subs, WorkerThrow(s) PROVE KeptForTtlStep
    BY <1>1, <2>4, MarksKeep DEF KeptForTtlStep, WorkerThrow
  <2>5. ASSUME NEW u \in Thids, NEW r \in Routes, Poll(u, r) PROVE KeptForTtlStep
    <3>1. SUFFICES ASSUME NEW t \in Thids, jobs[t].status \in Terminal,
                          now - jobs[t].updatedAt <= Ttl
                   PROVE  jobs'[t] # NoJob
      BY DEF KeptForTtlStep
    <3>2. now \in Nat /\ jobs[t].updatedAt \in Nat /\ Ttl \in Nat
      BY <1>1, ClockAssumption DEF TypeOK, Job
    <3>3. ~Expired(jobs[t])
      BY <3>1, <3>2 DEF Expired
    <3>4. jobs'[t] = jobs[t]
      BY <2>5, <3>3 DEF Poll, Cleaned
    <3> QED BY <3>1, <3>4
  <2>6. CASE Tick
    BY <2>6 DEF KeptForTtlStep, Tick
  <2>7. CASE Restart
    BY <2>7 DEF KeptForTtlStep
  <2> QED BY <1>1, <2>1, <2>2, <2>3, <2>4, <2>5, <2>6, <2>7 DEF Next, Worker
<1>2. TypeOK /\ [Next]_vars => [KeptForTtlStep]_vars
  BY <1>1
<1> QED BY <1>2, TypeCorrect, PTL DEF Spec, KeptForTtl

(***************************************************************************)
(* Refinement of AsyncContract.                                            *)
(***************************************************************************)

LEMMA OwnerIsUnique ==
    ASSUME UniqueThids, NEW s \in Subs
    PROVE  OwnerOf(ThidOf[s]) = s
BY DEF OwnerOf, UniqueThids

\* The outcome a submission has is that of its own job.
LEMMA OutcomeByPhase ==
    ASSUME TypeOK, JobFollowsWorker, NEW s \in Subs
    PROVE  /\ phase[s] = "new" <=> OutcomeOf(s) = "new"
           /\ Outstanding(s) <=> OutcomeOf(s) = "pending"
           /\ OutcomeOf(s) \in Terminal <=>
                 phase[s] = "ended" /\ jobs[ThidOf[s]] # NoJob
           /\ OutcomeOf(s) \in Terminal => OutcomeOf(s) = jobs[ThidOf[s]].status
BY DEF TypeOK, JobFollowsWorker, OutcomeOf, Outstanding

LEMMA SubmitRefines ==
    ASSUME UniqueThids, TypeOK, JobFollowsWorker, NEW s \in Subs, Submit(s)
    PROVE  Contract!Accept(s)
<1>1. ASSUME NEW u \in Subs, u # s PROVE OutcomeOf(u)' = OutcomeOf(u)
  BY <1>1, InputsAssumption DEF UniqueThids, TypeOK, Submit, Enqueue, OutcomeOf, Outstanding
<1>2. OutcomeOf(s) = "new" /\ OutcomeOf(s)' = "pending"
  BY DEF TypeOK, Submit, OutcomeOf, Outstanding
<1>3. ReplyOf(answer)' = ReplyOf(answer)
  BY DEF Submit, ReplyOf, OwnerOf
<1> QED BY <1>1, <1>2, <1>3 DEF Contract!Accept

LEMMA StartRefines ==
    ASSUME UniqueThids, TypeOK, JobFollowsWorker, NEW s \in Subs, WorkerStart(s)
    PROVE  UNCHANGED Contract!vars
<1>1. ASSUME NEW u \in Subs PROVE OutcomeOf(u)' = OutcomeOf(u)
  BY <1>1, InputsAssumption
     DEF UniqueThids, TypeOK, JobFollowsWorker, WorkerStart, MarkRunning, OutcomeOf, Outstanding
<1>2. ReplyOf(answer)' = ReplyOf(answer)
  BY DEF WorkerStart, ReplyOf, OwnerOf
<1> QED BY <1>1, <1>2 DEF Contract!vars

LEMMA ReturnRefines ==
    ASSUME UniqueThids, TypeOK, JobFollowsWorker, NEW s \in Subs, WorkerReturn(s)
    PROVE  Contract!Settle(s, "succeeded")
<1> DEFINE t == ThidOf[s]
<1>1. ASSUME NEW u \in Subs, u # s PROVE OutcomeOf(u)' = OutcomeOf(u)
  BY <1>1, InputsAssumption
     DEF UniqueThids, TypeOK, WorkerReturn, MarkSucceeded, OutcomeOf, Outstanding
<1>2. OutcomeOf(s) = "pending"
  BY DEF WorkerReturn, OutcomeOf, Outstanding
<1>3. t \in Thids /\ jobs[t] \in Job /\ jobs[t] # NoJob
  <2>1. t \in Thids /\ jobs[t] \in Job \cup {NoJob}
    BY InputsAssumption DEF TypeOK
  <2>2. jobs[t].status = "running"
    BY DEF JobFollowsWorker, WorkerReturn
  <2>3. NoJob.status = "absent"
    OBVIOUS
  <2> QED BY <2>1, <2>2, <2>3
<1>4. jobs'[t].status = "succeeded"
  BY <1>3 DEF TypeOK, WorkerReturn, MarkSucceeded, Job
<1>5. jobs'[t] # NoJob /\ phase'[s] = "ended"
  BY <1>4 DEF TypeOK, WorkerReturn
<1>6. OutcomeOf(s)' = "succeeded"
  BY <1>4, <1>5 DEF OutcomeOf, Outstanding
<1>7. ReplyOf(answer)' = ReplyOf(answer)
  BY DEF WorkerReturn, ReplyOf, OwnerOf
<1> QED BY <1>1, <1>2, <1>6, <1>7 DEF Contract!Settle

LEMMA ThrowRefines ==
    ASSUME UniqueThids, TypeOK, JobFollowsWorker, NEW s \in Subs, WorkerThrow(s)
    PROVE  Contract!Settle(s, "failed")
<1> DEFINE t == ThidOf[s]
<1>1. ASSUME NEW u \in Subs, u # s PROVE OutcomeOf(u)' = OutcomeOf(u)
  BY <1>1, InputsAssumption
     DEF UniqueThids, TypeOK, WorkerThrow, MarkFailed, OutcomeOf, Outstanding
<1>2. OutcomeOf(s) = "pending"
  BY DEF WorkerThrow, OutcomeOf, Outstanding
<1>3. t \in Thids /\ jobs[t] \in Job /\ jobs[t] # NoJob
  <2>1. t \in Thids /\ jobs[t] \in Job \cup {NoJob}
    BY InputsAssumption DEF TypeOK
  <2>2. jobs[t].status = "running"
    BY DEF JobFollowsWorker, WorkerThrow
  <2>3. NoJob.status = "absent"
    OBVIOUS
  <2> QED BY <2>1, <2>2, <2>3
<1>4. jobs'[t].status = "failed"
  BY <1>3 DEF TypeOK, WorkerThrow, MarkFailed, Job
<1>5. jobs'[t] # NoJob /\ phase'[s] = "ended"
  BY <1>4 DEF TypeOK, WorkerThrow
<1>6. OutcomeOf(s)' = "failed"
  BY <1>4, <1>5 DEF OutcomeOf, Outstanding
<1>7. ReplyOf(answer)' = ReplyOf(answer)
  BY DEF WorkerThrow, ReplyOf, OwnerOf
<1> QED BY <1>1, <1>2, <1>6, <1>7 DEF Contract!Settle

LEMMA PollRefines ==
    ASSUME UniqueThids, TypeOK, JobFollowsWorker,
           NEW t \in Thids, NEW r \in Routes, Poll(t, r)
    PROVE  Contract!Next
<1> DEFINE F == {u \in Subs : phase[u] = "ended" /\ Expired(jobs[ThidOf[u]])}
           a == AnswerFrom(Cleaned[t], t, r)
<1>0. \A u \in Subs : ThidOf[u] \in Thids
  BY InputsAssumption
<1>1. F \subseteq Contract!Settled
  BY OutcomeByPhase DEF Contract!Settled, Expired
<1>2. \A u \in Subs : OutcomeOf(u)' = IF u \in F THEN "forgotten" ELSE OutcomeOf(u)
  <2> TAKE u \in Subs
  <2>1. phase'[u] = phase[u] /\ jobs'[ThidOf[u]] = Cleaned[ThidOf[u]]
    BY DEF Poll
  <2>2. CASE u \in F
    <3>1. jobs'[ThidOf[u]] = NoJob
      BY <1>0, <2>1, <2>2 DEF Cleaned
    <3> QED BY <2>1, <2>2, <3>1 DEF OutcomeOf, Outstanding
  <2>3. CASE u \notin F /\ phase[u] = "ended"
    <3>1. jobs'[ThidOf[u]] = jobs[ThidOf[u]]
      BY <1>0, <2>1, <2>3 DEF Cleaned
    <3> QED BY <2>1, <2>3, <3>1 DEF OutcomeOf, Outstanding
  <2>4. CASE u \notin F /\ phase[u] # "ended"
    BY <2>1, <2>4 DEF TypeOK, OutcomeOf, Outstanding
  <2> QED BY <2>2, <2>3, <2>4
<1>3. [u \in Subs |-> OutcomeOf(u)]' = Contract!Expire(F)
  BY <1>2 DEF Contract!Expire
<1>4. answer' = a
  BY DEF Poll
<1>5. CASE a.kind = "notFound"
  <2>1. ReplyOf(answer)' = [to |-> None, kind |-> "notFound"]
    BY <1>4, <1>5 DEF AnswerFrom, ReplyOf
  <2> QED BY <1>1, <1>3, <2>1 DEF Contract!AskInVain, Contract!Next
<1>6. CASE a.kind # "notFound"
  <2>1. Cleaned[t] # NoJob
    BY <1>6 DEF AnswerFrom
  <2>2. Cleaned[t] = jobs[t] /\ ~Expired(jobs[t])
    BY <2>1 DEF Cleaned
  <2>3. PICK s \in Subs : ThidOf[s] = t
    BY <2>1, <2>2 DEF JobFollowsWorker
  <2>4. s \notin F /\ OutcomeOf(s)' = OutcomeOf(s)
    BY <1>2, <2>2, <2>3
  <2>5. /\ OutcomeOf(s) \in {"pending", "succeeded", "failed"}
        /\ ReplyOf(answer)' = [to |-> s, kind |-> OutcomeOf(s)]
    <3>1. CASE jobs[t].status \in Pending
      <4>1. OutcomeOf(s) = "pending"
        BY <2>1, <2>2, <2>3, <3>1 DEF JobFollowsWorker, TypeOK, OutcomeOf, Outstanding
      <4>2. a.kind = "pending" /\ a.thid = t
        BY <1>6, <2>2, <3>1 DEF AnswerFrom
      <4>3. OwnerOf(t) = s
        BY <2>3, OwnerIsUnique
      <4>4. ReplyOf(answer)' = [to |-> s, kind |-> "pending"]
        BY <1>4, <4>2, <4>3 DEF ReplyOf, OwnerOf
      <4> QED BY <4>1, <4>4
    <3>2. CASE jobs[t].status \notin Pending
      <4>1. /\ phase[s] = "ended"
            /\ \/ jobs[t].status = "succeeded" /\ jobs[t].result = s
               \/ jobs[t].status = "failed" /\ jobs[t].error = s
        <5>1. phase[s] \in Phases /\ jobs[ThidOf[s]] = jobs[t] /\ jobs[t] # NoJob
          BY <2>1, <2>2, <2>3 DEF TypeOK
        <5>2. phase[s] \notin {"new", "lost"}
          BY <5>1 DEF JobFollowsWorker
        <5>3. phase[s] \notin {"scheduled", "working"}
          BY <3>2, <5>1 DEF JobFollowsWorker
        <5>4. phase[s] = "ended"
          BY <5>1, <5>2, <5>3
        <5> QED BY <5>1, <5>4 DEF JobFollowsWorker
      <4>2. OutcomeOf(s) = jobs[t].status
        BY <2>1, <2>2, <2>3, <4>1 DEF OutcomeOf, Outstanding
      <4>3. s # None
        BY NoneAssumption
      <4>4. a.kind = jobs[t].status /\ a.by = s
        <5>1. a.kind # "notFound" /\ Cleaned[t] = jobs[t]
          BY <1>6, <2>2
        <5>2. CASE jobs[t].status = "failed"
          BY <4>1, <5>1, <5>2 DEF AnswerFrom
        <5>3. CASE jobs[t].status = "succeeded"
          BY <4>1, <4>3, <5>1, <5>3 DEF AnswerFrom
        <5> QED BY <4>1, <5>2, <5>3
      <4>5. ReplyOf(answer)' = [to |-> s, kind |-> jobs[t].status]
        BY <1>4, <4>1, <4>4 DEF ReplyOf
      <4> QED BY <4>1, <4>2, <4>5
    <3> QED BY <3>1, <3>2
  <2>6. Contract!Ask(s, F)
    BY <1>1, <1>3, <2>4, <2>5 DEF Contract!Ask
  <2>7. F \in SUBSET Contract!Settled
    BY <1>1
  <2> QED BY <2>6, <2>7 DEF Contract!Next
<1> QED BY <1>5, <1>6

LEMMA RestartRefines ==
    ASSUME TypeOK, Restart
    PROVE  Contract!ForgetAll
<1>1. ASSUME NEW u \in Subs
      PROVE  OutcomeOf(u)' = IF OutcomeOf(u) = "new" THEN "new" ELSE "forgotten"
  BY <1>1, InputsAssumption DEF TypeOK, Restart, OutcomeOf, Outstanding, Job
<1>2. ReplyOf(answer)' = ReplyOf(answer)
  BY DEF Restart, ReplyOf, OwnerOf
<1> QED BY <1>1, <1>2 DEF Contract!ForgetAll

\* With unique thread ids the shared Map keyed by thread id is, to every
\* client, a private asynchronous exchange.
THEOREM Implements == UniqueThids => (Spec => ImplementsContract)
<1> SUFFICES ASSUME UniqueThids PROVE Spec => Contract!Spec
  BY DEF ImplementsContract
<1>1. Init => Contract!Init
  BY DEF Init, Contract!Init, OutcomeOf, ReplyOf
<1>2. ASSUME TypeOK, JobFollowsWorker, [Next]_vars
      PROVE  Contract!Next \/ UNCHANGED Contract!vars
  <2>1. ASSUME NEW s \in Subs, Submit(s) PROVE Contract!Next
    BY <1>2, <2>1, SubmitRefines DEF Contract!Next
  <2>2. ASSUME NEW s \in Subs, WorkerStart(s) PROVE UNCHANGED Contract!vars
    BY <1>2, <2>2, StartRefines
  <2>3. ASSUME NEW s \in Subs, WorkerReturn(s) PROVE Contract!Next
    BY <1>2, <2>3, ReturnRefines DEF Contract!Next
  <2>4. ASSUME NEW s \in Subs, WorkerThrow(s) PROVE Contract!Next
    BY <1>2, <2>4, ThrowRefines DEF Contract!Next
  <2>5. ASSUME NEW t \in Thids, NEW r \in Routes, Poll(t, r) PROVE Contract!Next
    BY <1>2, <2>5, PollRefines
  <2>6. CASE Tick
    BY <2>6 DEF Tick, Contract!vars, OutcomeOf, Outstanding, ReplyOf, OwnerOf
  <2>7. CASE Restart
    BY <1>2, <2>7, RestartRefines DEF Contract!Next
  <2>8. CASE UNCHANGED vars
    BY <2>8 DEF vars, Contract!vars, OutcomeOf, Outstanding, ReplyOf, OwnerOf
  <2> QED BY <1>2, <2>1, <2>2, <2>3, <2>4, <2>5, <2>6, <2>7, <2>8 DEF Next, Worker
<1>3. TypeOK /\ JobFollowsWorker /\ [Next]_vars => [Contract!Next]_(Contract!vars)
  BY <1>2
<1>4. Spec => []JobFollowsWorker
  BY FollowsCorrect
<1> QED BY <1>1, <1>3, <1>4, TypeCorrect, PTL DEF Spec, Contract!Spec
=============================================================================

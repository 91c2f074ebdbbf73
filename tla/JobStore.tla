------------------------------ MODULE JobStore ------------------------------
(***************************************************************************)
(* The asynchronous submit / poll machinery every ICA endpoint shares: a   *)
(* Map of jobs keyed by thread id (thid), a worker that a submit schedules *)
(* with setImmediate, and a "*-response" handler that polls the job.  The  *)
(* three job-store classes of the service differ only in the type of the   *)
(* result; one module stands for all of them.                              *)
(*                                                                         *)
(* Node runs one callback at a time, so an action is the code between two  *)
(* awaits: the submit handler after it parsed the request, the start of    *)
(* the scheduled callback, its end, and the poll.  What a worker does      *)
(* between its start and its end is the subject of other modules; here it  *)
(* either returns a result or throws.                                      *)
(***************************************************************************)
EXTENDS Naturals

CONSTANTS
    Subs,       \* accepted submissions, each made once by some client
    Thids,      \* thread ids
    Routes,     \* (tenant, jurisdiction, sector, ...) routes
    ThidOf,     \* the thread id the parsed body of a submission yields
    RouteOf,    \* the route a submission is posted to
    Ttl,        \* terminalTtlMs, in ticks of the model's clock
    MaxNow,     \* bound on the clock
    None        \* "no submission"

ASSUME InputsAssumption ==
    /\ ThidOf \in [Subs -> Thids]
    /\ RouteOf \in [Subs -> Routes]
ASSUME ClockAssumption == Ttl \in Nat /\ MaxNow \in Nat
ASSUME NoneAssumption == None \notin Subs

VARIABLES
    jobs,       \* the Map: thid -> job, or NoJob where the key is absent
    phase,      \* where the setImmediate callback of each submission is
    now,        \* Date.now()
    answer      \* the last answer a poll returned
vars == <<jobs, phase, now, answer>>

Pending == {"queued", "running"}
Terminal == {"succeeded", "failed"}

\* A result or an error is named by the submission whose worker wrote it.
NoJob == [status |-> "absent", route |-> None, updatedAt |-> 0,
          result |-> None, error |-> None]

NoAnswer == [thid |-> None, route |-> None, kind |-> "none", by |-> None]

-----------------------------------------------------------------------------
(* The operations of the store, as the Map they leave behind.              *)

\* Altered: the status is the word of the HTTP answer.
EnqueueAccepted(s) ==
    [jobs EXCEPT ![ThidOf[s]] =
        [status |-> "accepted", route |-> RouteOf[s], updatedAt |-> now,
         result |-> None, error |-> None]]

\* enqueue replaces whatever the Map holds under the thid.
Enqueue(s) ==
    [jobs EXCEPT ![ThidOf[s]] =
        [status |-> "queued", route |-> RouteOf[s], updatedAt |-> now,
         result |-> None, error |-> None]]

\* The mark operations address the job by thid alone: an absent job is left
\* absent, any other job is changed whatever its status and its submission.
MarkRunning(s) ==
    LET t == ThidOf[s]
    IN  IF jobs[t] = NoJob THEN jobs
        ELSE [jobs EXCEPT ![t] =
                [jobs[t] EXCEPT !.status = "running", !.updatedAt = now]]

MarkSucceeded(s) ==
    LET t == ThidOf[s]
    IN  IF jobs[t] = NoJob THEN jobs
        ELSE [jobs EXCEPT ![t] =
                [jobs[t] EXCEPT !.status = "succeeded", !.result = s,
                                !.error = None, !.updatedAt = now]]

\* Altered: the error is stored and the status forgotten.
MarkFailedErrorOnly(s) ==
    LET t == ThidOf[s]
    IN  IF jobs[t] = NoJob THEN jobs
        ELSE [jobs EXCEPT ![t] = [jobs[t] EXCEPT !.error = s, !.updatedAt = now]]

\* A result an earlier worker left in the job survives a failure.
MarkFailed(s) ==
    LET t == ThidOf[s]
    IN  IF jobs[t] = NoJob THEN jobs
        ELSE [jobs EXCEPT ![t] =
                [jobs[t] EXCEPT !.status = "failed", !.error = s,
                                !.updatedAt = now]]

\* Altered: pending jobs are not spared.
ExpiredAny(job) == job # NoJob /\ now - job.updatedAt > Ttl

\* Altered: a job goes in the tick its TTL ends.
ExpiredEarly(job) == job.status \in Terminal /\ now - job.updatedAt >= Ttl

Expired(job) == job.status \in Terminal /\ now - job.updatedAt > Ttl

\* Altered: a get refreshes the job it keeps.
CleanedTouching ==
    [t \in Thids |-> IF jobs[t] = NoJob \/ Expired(jobs[t]) THEN NoJob
                     ELSE [jobs[t] EXCEPT !.updatedAt = now]]

\* cleanup, which every get runs over the whole Map.
Cleaned == [t \in Thids |-> IF Expired(jobs[t]) THEN NoJob ELSE jobs[t]]

\* Altered: any route will do.
SameRouteAlways(a, b) == TRUE

SameRoute(a, b) == a = b

\* What a poll of thid t on route r answers from the job it finds.
AnswerFrom(job, t, r) ==
    LET reply(kind, by) == [thid |-> t, route |-> r, kind |-> kind, by |-> by]
    IN  IF job = NoJob \/ ~SameRoute(job.route, r)
            THEN reply("notFound", None)
        ELSE IF job.status \in Pending
            THEN reply("pending", None)
        ELSE IF job.status = "failed"
            THEN reply("failed", job.error)
        ELSE IF job.result = None
            THEN reply("noResult", None)
        ELSE reply("succeeded", job.result)

-----------------------------------------------------------------------------
Init ==
    /\ jobs = [t \in Thids |-> NoJob]
    /\ phase = [s \in Subs |-> "new"]
    /\ now = 0
    /\ answer = NoAnswer

\* The submit handler after parsing: enqueue, schedule the worker, 202.
Submit(s) ==
    /\ phase[s] = "new"
    /\ jobs' = Enqueue(s)
    /\ phase' = [phase EXCEPT ![s] = "scheduled"]
    /\ UNCHANGED <<now, answer>>

\* The setImmediate callback starts.
WorkerStart(s) ==
    /\ phase[s] = "scheduled"
    /\ jobs' = MarkRunning(s)
    /\ phase' = [phase EXCEPT ![s] = "working"]
    /\ UNCHANGED <<now, answer>>

\* The work returned: markSucceeded with its result.
WorkerReturn(s) ==
    /\ phase[s] = "working"
    /\ jobs' = MarkSucceeded(s)
    /\ phase' = [phase EXCEPT ![s] = "ended"]
    /\ UNCHANGED <<now, answer>>

\* Altered: nothing catches the error.
WorkerThrowUncaught(s) ==
    /\ phase[s] = "working"
    /\ phase' = [phase EXCEPT ![s] = "ended"]
    /\ UNCHANGED <<jobs, now, answer>>

\* The work threw: the catch block marks the job failed.
WorkerThrow(s) ==
    /\ phase[s] = "working"
    /\ jobs' = MarkFailed(s)
    /\ phase' = [phase EXCEPT ![s] = "ended"]
    /\ UNCHANGED <<now, answer>>

\* A "*-response" request for thid t on route r: get (with its cleanup) and
\* the answer, in one synchronous stretch.
Poll(t, r) ==
    /\ jobs' = Cleaned
    /\ answer' = AnswerFrom(Cleaned[t], t, r)
    /\ UNCHANGED <<phase, now>>

Tick ==
    /\ now < MaxNow
    /\ now' = now + 1
    /\ UNCHANGED <<jobs, phase, answer>>

\* The process restarts: the Map and the scheduled callbacks are gone.
Restart ==
    /\ \E s \in Subs : phase[s] # "new"
    /\ jobs' = [t \in Thids |-> NoJob]
    /\ phase' = [s \in Subs |->
                    IF phase[s] \in {"scheduled", "working"} THEN "lost" ELSE phase[s]]
    /\ UNCHANGED <<now, answer>>

Worker(s) == WorkerStart(s) \/ WorkerReturn(s) \/ WorkerThrow(s)

Next ==
    \/ \E s \in Subs : Submit(s) \/ Worker(s)
    \/ \E t \in Thids, r \in Routes : Poll(t, r)
    \/ Tick
    \/ Restart

Spec == Init /\ [][Next]_vars

\* The event loop runs every scheduled callback, and a worker whose awaits
\* settle ends in a return or in the catch block.
Fairness == \A s \in Subs : WF_vars(Worker(s))
FairSpec == Spec /\ Fairness

-----------------------------------------------------------------------------
Phases == {"new", "scheduled", "working", "ended", "lost"}

Job == [status : Pending \cup Terminal, route : Routes, updatedAt : 0..MaxNow,
        result : Subs \cup {None}, error : Subs \cup {None}]

Answer == [thid : Thids, route : Routes,
           kind : {"notFound", "pending", "failed", "succeeded", "noResult"},
           by : Subs \cup {None}]

TypeOK ==
    /\ jobs \in [Thids -> Job \cup {NoJob}]
    /\ phase \in [Subs -> Phases]
    /\ now \in 0..MaxNow
    /\ answer \in Answer \cup {NoAnswer}

Outstanding(s) == phase[s] \in {"scheduled", "working"}

\* A job that polls as 202 always has a worker on its way that will end it:
\* no resubmission of a thid, cleanup or restart leaves a job nobody ends.
NoOrphanPending ==
    \A t \in Thids :
        /\ jobs[t].status = "queued" =>
               \E s \in Subs : ThidOf[s] = t /\ phase[s] = "scheduled"
        /\ jobs[t].status = "running" =>
               \E s \in Subs : ThidOf[s] = t /\ phase[s] = "working"

\* Thread ids are what clients make of them (request-parsing.ts takes thid, id
\* or jti from the body, and makes "thid-auto" a timestamp of one second's
\* resolution).  The properties below, KeptForTtl and EventuallyAnswered
\* excepted, hold when no two submissions use the same one.
UniqueThids == \A s1, s2 \in Subs : ThidOf[s1] = ThidOf[s2] => s1 = s2

\* A poll on the thread and route of a submission is answered from that
\* submission's own work: never another's result, never another's error.
AnswerIsOwn ==
    answer.kind \in {"succeeded", "failed"} =>
        /\ answer.by \in Subs
        /\ answer.thid = ThidOf[answer.by]
        /\ answer.route = RouteOf[answer.by]
        /\ phase[answer.by] = "ended"

\* While its worker is on its way a submission's thread stays known: a poll
\* on the submission's route answers 202, never 404.
OutstandingIsPending ==
    \A s \in Subs : Outstanding(s) =>
        AnswerFrom(Cleaned[ThidOf[s]], ThidOf[s], RouteOf[s]).kind = "pending"

\* (The _verify-response handler is the exception: OrganizationLifecycle has the
\* poll that marks a succeeded job failed.)
\* A terminal outcome is final: a step leaves it as it is or, through cleanup
\* or a restart, forgets it.
TerminalIsFinalStep ==
    \A t \in Thids : jobs[t].status \in Terminal => jobs'[t] \in {jobs[t], NoJob}
TerminalIsFinal == [][TerminalIsFinalStep]_vars

\* Short of a restart, an outcome is kept for the whole TTL after the worker
\* ended, whatever else is submitted and polled meanwhile.
KeptForTtlStep ==
    \A t \in Thids :
        (jobs[t].status \in Terminal /\ now - jobs[t].updatedAt <= Ttl /\ ~Restart)
            => jobs'[t] # NoJob
KeptForTtl == [][KeptForTtlStep]_vars

\* The inductive invariant behind the four: a job is where its own worker left
\* it, and a thread nobody submitted has none.
JobFollowsWorker ==
    /\ \A s \in Subs :
        LET job == jobs[ThidOf[s]]
        IN  /\ phase[s] \in {"new", "lost"} => job = NoJob
            /\ phase[s] = "scheduled" => job.status = "queued" /\ job.route = RouteOf[s]
            /\ phase[s] = "working" => job.status = "running" /\ job.route = RouteOf[s]
            /\ phase[s] = "ended" =>
                   \/ job = NoJob
                   \/ job.status = "succeeded" /\ job.result = s /\ job.route = RouteOf[s]
                   \/ job.status = "failed" /\ job.error = s /\ job.route = RouteOf[s]
    /\ \A t \in Thids : (\A s \in Subs : ThidOf[s] # t) => jobs[t] = NoJob

\* Every pending job is eventually answered with something other than 202.
EventuallyAnswered ==
    \A t \in Thids : jobs[t].status \in Pending ~> jobs[t].status \notin Pending

=============================================================================

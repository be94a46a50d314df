---------------------------- MODULE AnalysisRun ----------------------------
(***************************************************************************)
(* The analyses of one content for one cache key: requests that share an   *)
(* analysis that is under way or done, the broker, the Celery workers that *)
(* call the model outside of any transaction, the beat task that recovers  *)
(* what got stuck, and the tool of the operations agent, which analyses in *)
(* its own worker and shares the rows, and so the recovery, with them.     *)
(*                                                                         *)
(* A worker carries only the id of its row: no claim token tells a late    *)
(* result from that of the attempt that replaced it.  A session that has   *)
(* the row loaded does not read it again when it locks it (no populate_    *)
(* existing, expire_on_commit is off), so two handlers decide on what they *)
(* saw before: begin_analysis_attempt in the task, which gets the row      *)
(* first, and the publication of the agent's tool, which holds the row     *)
(* since it began it.                                                      *)
(***************************************************************************)
EXTENDS Integers, FiniteSets

CONSTANTS
  Rows,      \* ids of AnalysisRun rows
  Requests,  \* POST /analysis-runs requests and confirmed snapshots
  Agents,    \* invocations of the agent's tool run_content_analysis
  Workers,   \* Celery worker slots running analyze_content
  Beats,     \* concurrent executions of recover_pending
  NoRow,     \* no row
  Limits     \* bounds of the environment: crashes, slow calls, ...

MaxFailures == 3
Hazards == {"crash", "slow", "backlog", "overlap"}

ASSUME NoRowAssumption == NoRow \notin Rows
ASSUME LimitsAssumption == Limits \in [Hazards -> Nat]

VARIABLES
  row,       \* the AnalysisRun rows: status, next, lease, fresh, attempts
  messages,  \* analyze_content messages in the broker, by row
  asked,     \* the row a request has still to enqueue
  requested, \* the requests that were answered
  tool,      \* pc of each tool invocation
  analysing, \* the row of each tool invocation
  worker,    \* pc of each worker
  job,       \* the row of each worker
  seen,      \* the row as each worker loaded it before it takes the lock
  leased,    \* the rows each beat has leased and still to enqueue
  budget,    \* what is left of Limits
  outcomes,  \* history: how often an outcome was written to a row
  recovered, \* history: how often a row was taken back from RUNNING
  calls,     \* history: model calls begun for each row
  byAgent    \* history: the rows a tool invocation called the model for

clients == <<asked, requested, tool, analysing>>
workers == <<worker, job, seen>>
history == <<outcomes, recovered, calls, byAgent>>
vars == <<row, messages, asked, requested, tool, analysing, worker, job,
          seen, leased, budget, outcomes, recovered, calls, byAgent>>

Active == {"PENDING", "RUNNING", "SUCCEEDED"}
Terminal == {"SUCCEEDED", "FAILED"}

\* next: next_attempt_at, relative to now; fresh: updated_at is younger than
\* five minutes.
Row == [status: Active \cup {"ABSENT", "FAILED"},
        next: {"none", "passed", "ahead"}, lease: {"none", "live", "expired"},
        fresh: BOOLEAN, attempts: Nat]
NewRow == [status |-> "PENDING", next |-> "passed", lease |-> "none",
           fresh |-> TRUE, attempts |-> 0]
NothingSeen == [NewRow EXCEPT !.status = "ABSENT"]

TypeOK ==
  /\ row \in [Rows -> Row]
  /\ messages \in [Rows -> Nat]
  /\ asked \in [Requests -> Rows \cup {NoRow}]
  /\ requested \subseteq Requests
  /\ tool \in [Agents -> {"new", "calling", "done"}]
  /\ analysing \in [Agents -> Rows \cup {NoRow}]
  /\ worker \in [Workers -> {"idle", "loaded", "preparing", "calling"}]
  /\ job \in [Workers -> Rows \cup {NoRow}]
  /\ seen \in [Workers -> Row]
  /\ leased \in [Beats -> SUBSET Rows]
  /\ budget \in [Hazards -> Nat]
  /\ outcomes \in [Rows -> Nat]
  /\ recovered \in [Rows -> Nat]
  /\ calls \in [Rows -> Nat]
  /\ byAgent \subseteq Rows

Init ==
  /\ row = [r \in Rows |-> NothingSeen]
  /\ messages = [r \in Rows |-> 0]
  /\ asked = [q \in Requests |-> NoRow]
  /\ requested = {}
  /\ tool = [a \in Agents |-> "new"]
  /\ analysing = [a \in Agents |-> NoRow]
  /\ worker = [w \in Workers |-> "idle"]
  /\ job = [w \in Workers |-> NoRow]
  /\ seen = [w \in Workers |-> NothingSeen]
  /\ leased = [b \in Beats |-> {}]
  /\ budget = Limits
  /\ outcomes = [r \in Rows |-> 0]
  /\ recovered = [r \in Rows |-> 0]
  /\ calls = [r \in Rows |-> 0]
  /\ byAgent = {}

Spend(hazard) ==
  /\ budget[hazard] > 0
  /\ budget' = [budget EXCEPT ![hazard] = @ - 1]

---------------------------------------------------------------------------
(* AnalysisService.request, and the message sent after its commit.         *)

\* Mutant of ActiveRows: a report that exists is not looked for.
UnfinishedRows == {r \in Rows : row[r].status \in Active \ {"SUCCEEDED"}}

ActiveRows == {r \in Rows : row[r].status \in Active}

Dispatchable(r) ==
  row[r].status = "PENDING" /\ row[r].next # "ahead" /\ row[r].lease # "live"

\* The partial unique index on the cache key lets one active row exist; who
\* loses the race to insert it is given the winner's.
InsertRow(r) ==
  /\ ActiveRows = {}
  /\ row[r].status = "ABSENT"
  /\ row' = [row EXCEPT ![r] = NewRow]

Request(q) ==
  /\ q \notin requested
  /\ requested' = requested \cup {q}
  /\ \/ \E r \in Rows :
          InsertRow(r) /\ asked' = [asked EXCEPT ![q] = r]
     \/ \E r \in ActiveRows :
          /\ asked' = IF Dispatchable(r) THEN [asked EXCEPT ![q] = r]
                                         ELSE asked
          /\ UNCHANGED row
  /\ UNCHANGED <<messages, tool, analysing, workers, leased, budget, history>>

\* The background task runs after the response; it may be lost with the API
\* process.
EnqueueRequested(q) ==
  /\ asked[q] # NoRow
  /\ messages' = [messages EXCEPT ![asked[q]] = @ + 1]
  /\ asked' = [asked EXCEPT ![q] = NoRow]
  /\ UNCHANGED <<row, requested, tool, analysing, workers, leased, budget,
                 history>>

---------------------------------------------------------------------------
(* The updates of a row: begin_analysis_attempt, record_analysis_provider_ *)
(* failure, and the persist functions, each under the row's lock.          *)

\* Mutant of Beginnable: a row that is RUNNING is begun again.
BeginnableTwice(r) ==
  row[r].status \in {"PENDING", "RUNNING"} /\ row[r].next # "ahead"

Beginnable(r) == row[r].status = "PENDING" /\ row[r].next # "ahead"

\* Mutant of Begun: the attempts are counted down.
BegunCountingDown(r, copy) ==
  [row[r] EXCEPT !.status = "RUNNING", !.attempts = copy.attempts - 1,
                 !.next = "none", !.lease = "none", !.fresh = TRUE]

\* Only what differs from the copy the session has is written.
Begun(r, copy) ==
  [row[r] EXCEPT !.status = "RUNNING", !.attempts = copy.attempts + 1,
                 !.next = IF copy.next = "none" THEN @ ELSE "none",
                 !.lease = IF copy.lease = "none" THEN @ ELSE "none",
                 !.fresh = TRUE]

\* The unique index refuses a second active row of the cache key.
IndexAllows(r) == ActiveRows \subseteq {r}

\* Mutant of Write: a failure overwrites a report.
WriteAgain(r, outcome) ==
  /\ row' = [row EXCEPT ![r] = [@ EXCEPT !.status = outcome]]
  /\ outcomes' = [outcomes EXCEPT ![r] = @ + 1]

\* The first outcome stays.
Write(r, outcome) ==
  IF row[r].status \in Terminal THEN UNCHANGED <<row, outcomes>>
  ELSE /\ row' = [row EXCEPT ![r] =
                    [@ EXCEPT !.status = outcome, !.next = "none",
                              !.lease = "none", !.fresh = TRUE]]
       /\ outcomes' = [outcomes EXCEPT ![r] = @ + 1]

\* Mutant of LastFailure: the third failure is retried as well.
LastFailureAfterwards(r) == row[r].attempts > MaxFailures

LastFailure(r) == row[r].attempts >= MaxFailures

---------------------------------------------------------------------------
(* analyze_content: begin, call the model, record the outcome.             *)

TakeMessage(w, r) ==
  /\ worker[w] = "idle"
  /\ messages[r] > 0
  /\ messages' = [messages EXCEPT ![r] = @ - 1]

\* The usual delivery: nothing happens to the row between the task's first
\* look at it and its lock.
BeginAttempt(w, r) ==
  /\ TakeMessage(w, r)
  /\ \/ /\ Beginnable(r)
        /\ row' = [row EXCEPT ![r] = Begun(r, row[r])]
        /\ worker' = [worker EXCEPT ![w] = "preparing"]
        /\ job' = [job EXCEPT ![w] = r]
     \/ ~Beginnable(r) /\ UNCHANGED <<row, worker, job>>
  /\ UNCHANGED <<clients, seen, leased, budget, history>>

\* The other one: the worker is overtaken between the two.
LoadRun(w, r) ==
  /\ TakeMessage(w, r)
  /\ Beginnable(r)
  /\ Spend("overlap")
  /\ worker' = [worker EXCEPT ![w] = "loaded"]
  /\ job' = [job EXCEPT ![w] = r]
  /\ seen' = [seen EXCEPT ![w] = row[r]]
  /\ UNCHANGED <<row, clients, leased, history>>

Leave(w) ==
  /\ worker' = [worker EXCEPT ![w] = "idle"]
  /\ job' = [job EXCEPT ![w] = NoRow]
  /\ seen' = [seen EXCEPT ![w] = NothingSeen]

BeginLoaded(w) ==
  /\ worker[w] = "loaded"
  /\ \/ /\ IndexAllows(job[w])
        /\ row' = [row EXCEPT ![job[w]] = Begun(job[w], seen[w])]
        /\ worker' = [worker EXCEPT ![w] = "preparing"]
        /\ seen' = [seen EXCEPT ![w] = NothingSeen]
        /\ UNCHANGED job
     \/ ~IndexAllows(job[w]) /\ Leave(w) /\ UNCHANGED row
  /\ UNCHANGED <<messages, clients, leased, budget, history>>

CallModel(w) ==
  /\ worker[w] = "preparing"
  /\ worker' = [worker EXCEPT ![w] = "calling"]
  /\ calls' = [calls EXCEPT ![job[w]] = @ + 1]
  /\ UNCHANGED <<row, messages, clients, job, seen, leased, budget, outcomes,
                 recovered, byAgent>>

Recorded == <<messages, clients, leased, budget, recovered, calls, byAgent>>

PersistSuccess(w) ==
  /\ worker[w] = "calling"
  /\ Write(job[w], "SUCCEEDED")
  /\ Leave(w)
  /\ UNCHANGED Recorded

\* The binding of the run or the answer of the model is not usable.
PersistFailure(w) ==
  /\ worker[w] \in {"preparing", "calling"}
  /\ Write(job[w], "FAILED")
  /\ Leave(w)
  /\ UNCHANGED Recorded

\* Any other exception: the third one is final, the others leave the row
\* PENDING, whatever it was, for a while.
RecordProviderFailure(w) ==
  /\ worker[w] \in {"preparing", "calling"}
  /\ \/ LastFailure(job[w]) /\ Write(job[w], "FAILED")
     \/ /\ ~LastFailure(job[w])
        /\ row' = [row EXCEPT ![job[w]] =
             IF @.status \in Terminal THEN @
             ELSE [@ EXCEPT !.status = "PENDING", !.next = "ahead",
                            !.lease = "none", !.fresh = TRUE]]
        /\ UNCHANGED outcomes
  /\ Leave(w)
  /\ UNCHANGED Recorded

---------------------------------------------------------------------------
(* The agent's tool: request and begin in one transaction, then the call.  *)

\* An analysis that somebody else has under way is an error of the tool; one
\* that succeeded is its result.
AgentAnalyse(a) ==
  /\ tool[a] = "new"
  /\ \/ \E r \in Rows :
          /\ ActiveRows = {}
          /\ row[r].status = "ABSENT"
          /\ row' = [row EXCEPT ![r] = [NewRow EXCEPT !.status = "RUNNING",
                                       !.next = "none", !.attempts = 1]]
          /\ tool' = [tool EXCEPT ![a] = "calling"]
          /\ analysing' = [analysing EXCEPT ![a] = r]
          /\ calls' = [calls EXCEPT ![r] = @ + 1]
          /\ byAgent' = byAgent \cup {r}
     \/ /\ ActiveRows # {}
        /\ tool' = [tool EXCEPT ![a] = "done"]
        /\ UNCHANGED <<row, analysing, calls, byAgent>>
  /\ UNCHANGED <<messages, asked, requested, workers, leased, budget,
                 outcomes, recovered>>

AgentEnds(a) ==
  /\ tool[a] = "calling"
  /\ tool' = [tool EXCEPT ![a] = "done"]
  /\ analysing' = [analysing EXCEPT ![a] = NoRow]

\* The session still holds the row as RUNNING, so the check for an outcome
\* passes whatever the row is by now.  Every exception of the call is a
\* terminal failure; a success the index refuses is an error of the tool.
AgentPublish(a) ==
  /\ AgentEnds(a)
  /\ \E outcome \in Terminal :
       IF outcome = "SUCCEEDED" /\ ~IndexAllows(analysing[a])
         THEN UNCHANGED <<row, outcomes>>
         ELSE /\ row' = [row EXCEPT ![analysing[a]] =
                           [@ EXCEPT !.status = outcome, !.fresh = TRUE]]
              /\ outcomes' = [outcomes EXCEPT ![analysing[a]] = @ + 1]
  /\ UNCHANGED <<messages, asked, requested, workers, leased, budget,
                 recovered, calls, byAgent>>

---------------------------------------------------------------------------
(* recover_pending, every 30 seconds.                                      *)

\* Mutants of Recoverable: only what is RUNNING, only what is PENDING.
RecoverableRunning(r) == row[r].status = "RUNNING" /\ ~row[r].fresh
RecoverablePending(r) == Dispatchable(r)

Recoverable(r) ==
  \/ Dispatchable(r)
  \/ row[r].status = "RUNNING" /\ ~row[r].fresh

LeaseRecoverable(b) ==
  /\ leased[b] = {}
  /\ \E r \in Rows : Recoverable(r)
  /\ leased' = [leased EXCEPT ![b] = {r \in Rows : Recoverable(r)}]
  /\ row' = [r \in Rows |->
       IF Recoverable(r)
         THEN [row[r] EXCEPT !.status = "PENDING", !.lease = "live",
                             !.fresh = TRUE]
         ELSE row[r]]
  /\ recovered' = [r \in Rows |->
       IF Recoverable(r) /\ row[r].status = "RUNNING" THEN recovered[r] + 1
                                                      ELSE recovered[r]]
  /\ UNCHANGED <<messages, clients, workers, budget, outcomes, calls,
                 byAgent>>

EnqueueRecovered(b, r) ==
  /\ r \in leased[b]
  /\ leased' = [leased EXCEPT ![b] = @ \ {r}]
  /\ messages' = [messages EXCEPT ![r] = @ + 1]
  /\ UNCHANGED <<row, clients, workers, budget, history>>

---------------------------------------------------------------------------
(* Time and crashes.                                                       *)

\* The back-off of two or four seconds.
BackoffPasses(r) ==
  /\ row[r].next = "ahead"
  /\ row' = [row EXCEPT ![r].next = "passed"]
  /\ UNCHANGED <<messages, clients, workers, leased, budget, history>>

OnItsWay(r) == messages[r] > 0 \/ \E b \in Beats : r \in leased[b]

\* Five minutes; with a message on its way only when the queue is that long.
LeaseExpires(r) ==
  /\ row[r].lease = "live"
  /\ row' = [row EXCEPT ![r].lease = "expired"]
  /\ \/ OnItsWay(r) /\ Spend("backlog")
     \/ ~OnItsWay(r) /\ UNCHANGED budget
  /\ UNCHANGED <<messages, clients, workers, leased, history>>

InWork(r) ==
  \/ \E w \in Workers : job[w] = r
  \/ \E a \in Agents : analysing[a] = r

\* Five minutes without a write; with a worker alive only when the model is
\* that slow.
GoesStale(r) ==
  /\ row[r].status = "RUNNING" /\ row[r].fresh
  /\ row' = [row EXCEPT ![r].fresh = FALSE]
  /\ \/ InWork(r) /\ Spend("slow")
     \/ ~InWork(r) /\ UNCHANGED budget
  /\ UNCHANGED <<messages, clients, workers, leased, history>>

\* A worker dies at its work, or with a message just delivered to it.
WorkerCrash(w) ==
  /\ Spend("crash")
  /\ \/ worker[w] # "idle" /\ Leave(w) /\ UNCHANGED messages
     \/ \E r \in Rows : TakeMessage(w, r) /\ UNCHANGED workers
  /\ UNCHANGED <<row, clients, leased, history>>

AgentCrash(a) ==
  /\ Spend("crash")
  /\ AgentEnds(a)
  /\ UNCHANGED <<row, messages, asked, requested, workers, leased, history>>

RequestCrash(q) ==
  /\ Spend("crash")
  /\ asked[q] # NoRow
  /\ asked' = [asked EXCEPT ![q] = NoRow]
  /\ UNCHANGED <<row, messages, requested, tool, analysing, workers, leased,
                 history>>

BeatCrash(b) ==
  /\ Spend("crash")
  /\ leased[b] # {}
  /\ leased' = [leased EXCEPT ![b] = {}]
  /\ UNCHANGED <<row, messages, clients, workers, history>>

---------------------------------------------------------------------------
AnalyzeContent(w) ==
  \/ \E r \in Rows : BeginAttempt(w, r) \/ LoadRun(w, r)
  \/ BeginLoaded(w) \/ CallModel(w) \/ PersistSuccess(w) \/ PersistFailure(w)
  \/ RecordProviderFailure(w)

RecoverPending(b) ==
  LeaseRecoverable(b) \/ \E r \in Rows : EnqueueRecovered(b, r)

TimePasses(r) == BackoffPasses(r) \/ LeaseExpires(r) \/ GoesStale(r)

Next ==
  \/ \E q \in Requests : Request(q) \/ EnqueueRequested(q) \/ RequestCrash(q)
  \/ \E a \in Agents : AgentAnalyse(a) \/ AgentPublish(a) \/ AgentCrash(a)
  \/ \E w \in Workers : AnalyzeContent(w) \/ WorkerCrash(w)
  \/ \E b \in Beats : RecoverPending(b) \/ BeatCrash(b)
  \/ \E r \in Rows : TimePasses(r)

Spec == Init /\ [][Next]_vars

\* Workers that do not crash go on, tool calls return, the beat keeps firing
\* and time passes.  Requests are under no obligation, not even to enqueue.
Fairness ==
  /\ \A w \in Workers : WF_vars(AnalyzeContent(w))
  /\ \A a \in Agents : WF_vars(AgentPublish(a))
  /\ \A b \in Beats : WF_vars(RecoverPending(b))
  /\ \A r \in Rows : WF_vars(TimePasses(r))

FairSpec == Spec /\ Fairness

---------------------------------------------------------------------------
Undisturbed(hazard) == budget[hazard] = Limits[hazard]

\* What a request was told once stays: nobody changes a row that has its
\* outcome.  It fails when the agent's tool is slow, or a delivery overtaken.
Overwritten(r) ==
  /\ row[r].status \in Terminal
  /\ row'[r].status # row[r].status \/ outcomes'[r] # outcomes[r]
OutcomeIsFinal == [][\A r \in Rows : ~Overwritten(r)]_vars

\* Only those two change an outcome: no late worker, failure, recovery or
\* request does.
WorkersKeepOutcome ==
  [][\A r \in Rows : Overwritten(r) =>
       \/ \E a \in Agents : analysing[a] = r /\ tool'[a] # tool[a]
       \/ \E w \in Workers : job[w] = r /\ worker[w] = "loaded"]_vars

\* The model is called three times for a row, and once more for every time
\* recovery took it back: neither messages that are sent twice nor failures
\* of overtaken workers add a call.
CallsBounded ==
  Undisturbed("overlap") =>
    \A r \in Rows : calls[r] <= MaxFailures + recovered[r]

\* However often a row is enqueued, two processes have it in hand only when a
\* slow call was taken for a dead one, or a delivery was overtaken.
OneAtWork ==
  Undisturbed("slow") /\ Undisturbed("overlap") =>
    \A r \in Rows :
      Cardinality({w \in Workers : job[w] = r}
                  \cup {a \in Agents : analysing[a] = r}) <= 1

\* A report that exists is reused: while one does, nobody calls the model for
\* its content and cache key again.
ReportIsReused ==
  [][ /\ \E r \in Rows : row[r].status = "SUCCEEDED"
      /\ Undisturbed("slow") /\ Undisturbed("overlap")
      => calls' = calls]_vars

\* Every requested analysis gets its outcome, also when its message was
\* lost, its worker died or the API never enqueued it.
EveryRunEnds ==
  \A r \in Rows : row[r].status = "PENDING" ~> row[r].status \in Terminal
EveryCallEnds ==
  \A r \in Rows : row[r].status = "RUNNING" ~> row[r].status # "RUNNING"

\* A model call of the agent whose outcome is not known is not repeated by
\* itself (design, section 10).
AgentCallNotRepeated == \A r \in byAgent : calls[r] <= 1
=============================================================================

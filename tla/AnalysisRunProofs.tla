------------------------- MODULE AnalysisRunProofs -------------------------
(***************************************************************************)
(* Proofs about AnalysisRun for every number of rows, requests, workers,   *)
(* beats and tools, and every bound on the environment.                    *)
(***************************************************************************)
EXTENDS AnalysisRun, FiniteSetTheorems, TLAPS

USE DEF Hazards

Statuses == Active \cup {"ABSENT", "FAILED"}

\* What a handler writes to a row has the type of a row.
LEMMA CopyType ==
  ASSUME NEW x \in Row, NEW s \in Statuses,
         NEW n \in {"none", "passed", "ahead"}
  PROVE  /\ [x EXCEPT !.status = s, !.fresh = TRUE] \in Row
         /\ [x EXCEPT !.status = s, !.next = n, !.lease = "none",
                      !.fresh = TRUE] \in Row
         /\ [x EXCEPT !.next = n] \in Row
         /\ [x EXCEPT !.lease = "expired"] \in Row
         /\ [x EXCEPT !.fresh = FALSE] \in Row
         /\ [x EXCEPT !.status = s, !.lease = "live", !.fresh = TRUE] \in Row
BY DEF Row, Statuses

LEMMA NewRowType == NewRow \in Row /\ NothingSeen \in Row
BY DEF Row, NewRow, NothingSeen, Active

LEMMA BegunType ==
  ASSUME TypeOK, NEW r \in Rows, NEW copy \in Row
  PROVE  Begun(r, copy) \in Row
<1>1. row[r] \in Row
  BY DEF TypeOK
<1>2. copy.attempts + 1 \in Nat
  BY DEF Row
<1>3. /\ row[r].next \in {"none", "passed", "ahead"}
      /\ row[r].lease \in {"none", "live", "expired"}
  BY <1>1 DEF Row
<1> QED BY <1>1, <1>2, <1>3 DEF Row, Begun, Active

LEMMA SpendType ==
  ASSUME TypeOK, NEW h \in Hazards, Spend(h)
  PROVE  budget' \in [Hazards -> Nat]
BY DEF TypeOK, Spend

\* An update of the row of a process that may have none.
LEMMA UpdateType ==
  ASSUME TypeOK, NEW r, NEW value, r \in Rows => value \in Row,
         row' = [row EXCEPT ![r] = value]
  PROVE  row' \in [Rows -> Row]
<1>1. CASE r \in Rows
  BY <1>1 DEF TypeOK
<1>2. CASE r \notin Rows
  BY <1>2 DEF TypeOK
<1> QED BY <1>1, <1>2

LEMMA CountType ==
  ASSUME TypeOK, NEW r, outcomes' = [outcomes EXCEPT ![r] = @ + 1]
  PROVE  outcomes' \in [Rows -> Nat]
<1>1. CASE r \in Rows
  BY <1>1 DEF TypeOK
<1>2. CASE r \notin Rows
  BY <1>2 DEF TypeOK
<1> QED BY <1>1, <1>2

LEMMA WriteType ==
  ASSUME TypeOK, NEW r, NEW s \in Terminal, Write(r, s)
  PROVE  row' \in [Rows -> Row] /\ outcomes' \in [Rows -> Nat]
<1>1. s \in Statuses
  BY DEF Terminal, Statuses, Active
<1>2. CASE row' = row
  <2>1. outcomes' \in [Rows -> Nat]
    BY DEF Write, TypeOK
  <2> QED BY <1>2, <2>1 DEF TypeOK
<1>3. CASE row' # row
  <2>1. /\ row' = [row EXCEPT ![r] =
                    [row[r] EXCEPT !.status = s, !.next = "none",
                                   !.lease = "none", !.fresh = TRUE]]
        /\ outcomes' = [outcomes EXCEPT ![r] = @ + 1]
    BY <1>3 DEF Write
  <2>2. r \in Rows =>
          [row[r] EXCEPT !.status = s, !.next = "none",
                         !.lease = "none", !.fresh = TRUE] \in Row
    BY <1>1, CopyType DEF TypeOK
  <2> QED BY <2>1, <2>2, UpdateType, CountType
<1> QED BY <1>2, <1>3

LEMMA LeaveType ==
  ASSUME TypeOK, NEW w \in Workers, Leave(w)
  PROVE  /\ worker' \in [Workers -> {"idle", "loaded", "preparing", "calling"}]
         /\ job' \in [Workers -> Rows \cup {NoRow}]
         /\ seen' \in [Workers -> Row]
BY NewRowType DEF TypeOK, Leave

LEMMA TakeType ==
  ASSUME TypeOK, NEW w \in Workers, NEW r \in Rows, TakeMessage(w, r)
  PROVE  messages' \in [Rows -> Nat]
BY DEF TypeOK, TakeMessage

---------------------------------------------------------------------------
(* Type correctness.                                                       *)

LEMMA TypeInit == Init => TypeOK
BY NewRowType, LimitsAssumption DEF Init, TypeOK

LEMMA TypeRequests ==
  ASSUME TypeOK, NEW q \in Requests,
         Request(q) \/ EnqueueRequested(q) \/ RequestCrash(q)
  PROVE  TypeOK'
<1>1. CASE Request(q)
  <2>1. CASE \E r \in Rows : InsertRow(r) /\ asked' = [asked EXCEPT ![q] = r]
    BY <1>1, <2>1, NewRowType
       DEF TypeOK, Request, InsertRow, workers, history
  <2>2. CASE UNCHANGED row
    <3>1. asked' \in [Requests -> Rows \cup {NoRow}]
      BY <1>1 DEF TypeOK, Request, ActiveRows
    <3> QED BY <1>1, <2>2, <3>1 DEF TypeOK, Request, workers, history
  <2> QED BY <1>1, <2>1, <2>2 DEF Request
<1>2. CASE EnqueueRequested(q)
  BY <1>2 DEF TypeOK, EnqueueRequested, workers, history
<1>3. CASE RequestCrash(q)
  BY <1>3, SpendType DEF TypeOK, RequestCrash, workers, history
<1> QED BY <1>1, <1>2, <1>3

LEMMA TypeAgents ==
  ASSUME TypeOK, NEW a \in Agents,
         AgentAnalyse(a) \/ AgentPublish(a) \/ AgentCrash(a)
  PROVE  TypeOK'
<1>1. CASE AgentAnalyse(a)
  <2>1. [NewRow EXCEPT !.status = "RUNNING", !.next = "none",
                       !.attempts = 1] \in Row
    BY DEF NewRow, Row, Active
  <2> QED BY <1>1, <2>1 DEF TypeOK, AgentAnalyse, workers
<1>2. CASE AgentPublish(a)
  <2>1. \A s \in Terminal : \A r \in Rows :
          [row[r] EXCEPT !.status = s, !.fresh = TRUE] \in Row
    BY CopyType DEF TypeOK, Terminal, Statuses, Active
  <2>2. PICK s \in Terminal :
          \/ UNCHANGED <<row, outcomes>>
          \/ /\ row' = [row EXCEPT ![analysing[a]] =
                           [row[analysing[a]] EXCEPT !.status = s,
                                                     !.fresh = TRUE]]
             /\ outcomes' = [outcomes EXCEPT ![analysing[a]] = @ + 1]
    BY <1>2 DEF AgentPublish
  <2>3. row' \in [Rows -> Row] /\ outcomes' \in [Rows -> Nat]
    <3>1. CASE UNCHANGED <<row, outcomes>>
      BY <3>1 DEF TypeOK
    <3>2. CASE ~UNCHANGED <<row, outcomes>>
      BY <2>1, <2>2, <3>2, UpdateType, CountType
    <3> QED BY <3>1, <3>2
  <2> QED BY <1>2, <2>3 DEF TypeOK, AgentPublish, AgentEnds, workers
<1>3. CASE AgentCrash(a)
  BY <1>3, SpendType DEF TypeOK, AgentCrash, AgentEnds, workers, history
<1> QED BY <1>1, <1>2, <1>3

LEMMA TypeWorkers ==
  ASSUME TypeOK, NEW w \in Workers, AnalyzeContent(w) \/ WorkerCrash(w)
  PROVE  TypeOK'
<1>1. ASSUME NEW r \in Rows, BeginAttempt(w, r) PROVE TypeOK'
  <2>1. Begun(r, row[r]) \in Row
    BY BegunType DEF TypeOK
  <2>2. messages' \in [Rows -> Nat]
    BY <1>1, TakeType DEF BeginAttempt
  <2> QED BY <1>1, <2>1, <2>2 DEF TypeOK, BeginAttempt, clients, history
<1>2. ASSUME NEW r \in Rows, LoadRun(w, r) PROVE TypeOK'
  <2>1. messages' \in [Rows -> Nat]
    BY <1>2, TakeType DEF LoadRun
  <2> QED BY <1>2, <2>1, SpendType DEF TypeOK, LoadRun, clients, history
<1>3. CASE BeginLoaded(w)
  <2>1. CASE Leave(w) /\ UNCHANGED row
    BY <1>3, <2>1, LeaveType DEF TypeOK, BeginLoaded, clients, history
  <2>2. CASE ~(Leave(w) /\ UNCHANGED row)
    <3>1. job[w] \in Rows => Begun(job[w], seen[w]) \in Row
      BY BegunType DEF TypeOK
    <3>2. row' \in [Rows -> Row]
      BY <1>3, <2>2, <3>1, UpdateType DEF BeginLoaded
    <3> QED BY <1>3, <2>2, <3>2, NewRowType
            DEF TypeOK, BeginLoaded, clients, history
  <2> QED BY <2>1, <2>2
<1>4. CASE CallModel(w)
  <2>1. calls' \in [Rows -> Nat]
    <3>1. CASE job[w] \in Rows
      BY <1>4, <3>1 DEF TypeOK, CallModel
    <3>2. CASE job[w] \notin Rows
      BY <1>4, <3>2 DEF TypeOK, CallModel
    <3> QED BY <3>1, <3>2
  <2>2. worker' \in [Workers -> {"idle", "loaded", "preparing", "calling"}]
    BY <1>4 DEF TypeOK, CallModel
  <2> QED BY <1>4, <2>1, <2>2 DEF TypeOK, CallModel, clients
<1>5. CASE PersistSuccess(w) \/ PersistFailure(w)
  <2>1. row' \in [Rows -> Row] /\ outcomes' \in [Rows -> Nat]
    BY <1>5, WriteType DEF PersistSuccess, PersistFailure, Terminal
  <2> QED BY <1>5, <2>1, LeaveType
          DEF TypeOK, PersistSuccess, PersistFailure, Recorded, clients
<1>6. CASE RecordProviderFailure(w)
  <2>1. row' \in [Rows -> Row] /\ outcomes' \in [Rows -> Nat]
    <3>1. CASE Write(job[w], "FAILED")
      BY <3>1, WriteType DEF Terminal
    <3>2. CASE ~Write(job[w], "FAILED")
      <4>1. job[w] \in Rows =>
              [row[job[w]] EXCEPT !.status = "PENDING", !.next = "ahead",
                                  !.lease = "none", !.fresh = TRUE] \in Row
        BY CopyType DEF TypeOK, Statuses, Active
      <4>2. /\ row' = [row EXCEPT ![job[w]] =
                 IF row[job[w]].status \in Terminal THEN row[job[w]]
                 ELSE [row[job[w]] EXCEPT !.status = "PENDING",
                         !.next = "ahead", !.lease = "none", !.fresh = TRUE]]
            /\ UNCHANGED outcomes
        BY <1>6, <3>2 DEF RecordProviderFailure
      <4>3. job[w] \in Rows => row[job[w]] \in Row
        BY DEF TypeOK
      <4> QED BY <4>1, <4>2, <4>3, UpdateType DEF TypeOK
    <3> QED BY <3>1, <3>2
  <2> QED BY <1>6, <2>1, LeaveType
          DEF TypeOK, RecordProviderFailure, Recorded, clients
<1>7. CASE WorkerCrash(w)
  <2>1. messages' \in [Rows -> Nat]
    BY <1>7, TakeType DEF TypeOK, WorkerCrash
  <2> QED BY <1>7, <2>1, SpendType, LeaveType
          DEF TypeOK, WorkerCrash, clients, workers, history
<1> QED BY <1>1, <1>2, <1>3, <1>4, <1>5, <1>6, <1>7 DEF AnalyzeContent

LEMMA TypeBeats ==
  ASSUME TypeOK, NEW b \in Beats, RecoverPending(b) \/ BeatCrash(b)
  PROVE  TypeOK'
<1>1. CASE LeaseRecoverable(b)
  <2>1. \A r \in Rows : [row[r] EXCEPT !.status = "PENDING", !.lease = "live",
                                       !.fresh = TRUE] \in Row
    BY CopyType DEF TypeOK, Statuses, Active
  <2>2. row' \in [Rows -> Row]
    BY <1>1, <2>1 DEF TypeOK, LeaseRecoverable
  <2>3. recovered' \in [Rows -> Nat]
    <3>1. \A r \in Rows : recovered[r] \in Nat /\ recovered[r] + 1 \in Nat
      BY DEF TypeOK
    <3>2. recovered' = [r \in Rows |->
            IF Recoverable(r) /\ row[r].status = "RUNNING"
              THEN recovered[r] + 1 ELSE recovered[r]]
      BY <1>1 DEF LeaseRecoverable
    <3> QED BY <3>1, <3>2
  <2> QED BY <1>1, <2>2, <2>3 DEF TypeOK, LeaseRecoverable, clients, workers
<1>2. ASSUME NEW r \in Rows, EnqueueRecovered(b, r) PROVE TypeOK'
  BY <1>2 DEF TypeOK, EnqueueRecovered, clients, workers, history
<1>3. CASE BeatCrash(b)
  BY <1>3, SpendType DEF TypeOK, BeatCrash, clients, workers, history
<1> QED BY <1>1, <1>2, <1>3 DEF RecoverPending

LEMMA TypeTime ==
  ASSUME TypeOK, NEW r \in Rows, TimePasses(r)
  PROVE  TypeOK'
<1>1. /\ [row[r] EXCEPT !.next = "passed"] \in Row
      /\ [row[r] EXCEPT !.lease = "expired"] \in Row
      /\ [row[r] EXCEPT !.fresh = FALSE] \in Row
  BY CopyType DEF TypeOK, Statuses
<1>2. CASE BackoffPasses(r)
  BY <1>1, <1>2 DEF TypeOK, BackoffPasses, clients, workers, history
<1>3. CASE LeaseExpires(r)
  BY <1>1, <1>3, SpendType DEF TypeOK, LeaseExpires, clients, workers, history
<1>4. CASE GoesStale(r)
  BY <1>1, <1>4, SpendType DEF TypeOK, GoesStale, clients, workers, history
<1> QED BY <1>2, <1>3, <1>4 DEF TimePasses

\* Every variable keeps its type.
THEOREM AnalysisTypeCorrect == Spec => []TypeOK
<1>1. TypeOK /\ [Next]_vars => TypeOK'
  <2> SUFFICES ASSUME TypeOK, [Next]_vars PROVE TypeOK'
    OBVIOUS
  <2>1. CASE UNCHANGED vars
    BY <2>1 DEF TypeOK, vars
  <2> QED BY <2>1, TypeRequests, TypeAgents, TypeWorkers, TypeBeats, TypeTime
          DEF Next
<1> QED BY <1>1, TypeInit, PTL DEF Spec

---------------------------------------------------------------------------
(* Outcomes.                                                               *)

\* Who may change an outcome.
Excused(r) ==
  \/ \E a \in Agents : analysing[a] = r /\ tool'[a] # tool[a]
  \/ \E w \in Workers : job[w] = r /\ worker[w] = "loaded"

\* The check of the persist functions under the row's lock.
LEMMA WriteKeeps ==
  ASSUME TypeOK, NEW x, NEW s \in Terminal, Write(x, s),
         NEW r \in Rows, row[r].status \in Terminal
  PROVE  row'[r] = row[r] /\ outcomes'[r] = outcomes[r]
<1>1. CASE x = r
  BY <1>1 DEF Write
<1>2. CASE x # r
  BY <1>2 DEF Write, TypeOK
<1> QED BY <1>1, <1>2

LEMMA StepKeepsOutcome ==
  ASSUME TypeOK, Next, NEW r \in Rows, Overwritten(r)
  PROVE  Excused(r)
<1> USE DEF Terminal, Overwritten
<1>1. ASSUME NEW q \in Requests,
             Request(q) \/ EnqueueRequested(q) \/ RequestCrash(q)
      PROVE  FALSE
  BY <1>1 DEF TypeOK, Request, InsertRow, EnqueueRequested, RequestCrash,
              history
<1>2. ASSUME NEW a \in Agents,
             AgentAnalyse(a) \/ AgentPublish(a) \/ AgentCrash(a)
      PROVE  Excused(r)
  <2>1. CASE AgentAnalyse(a)
    BY <2>1 DEF TypeOK, AgentAnalyse
  <2>2. CASE AgentPublish(a)
    <3>1. analysing[a] = r
      BY <2>2 DEF TypeOK, AgentPublish
    <3>2. tool'[a] # tool[a]
      BY <2>2 DEF TypeOK, AgentPublish, AgentEnds
    <3> QED BY <3>1, <3>2 DEF Excused
  <2>3. CASE AgentCrash(a)
    BY <2>3 DEF AgentCrash, history
  <2> QED BY <1>2, <2>1, <2>2, <2>3
<1>3. ASSUME NEW w \in Workers, AnalyzeContent(w) \/ WorkerCrash(w)
      PROVE  Excused(r)
  <2>1. ASSUME NEW x \in Rows, BeginAttempt(w, x) PROVE FALSE
    BY <2>1 DEF TypeOK, BeginAttempt, Beginnable, history
  <2>2. ASSUME NEW x \in Rows, LoadRun(w, x) PROVE FALSE
    BY <2>2 DEF LoadRun, history
  <2>3. CASE BeginLoaded(w)
    BY <2>3 DEF TypeOK, BeginLoaded, Excused, history
  <2>4. CASE CallModel(w) \/ WorkerCrash(w)
    BY <2>4 DEF CallModel, WorkerCrash, history
  <2>5. CASE PersistSuccess(w) \/ PersistFailure(w)
    BY <2>5, WriteKeeps DEF PersistSuccess, PersistFailure
  <2>6. CASE RecordProviderFailure(w)
    <3>1. CASE Write(job[w], "FAILED")
      BY <3>1, WriteKeeps
    <3>2. CASE ~Write(job[w], "FAILED")
      BY <2>6, <3>2 DEF TypeOK, RecordProviderFailure
    <3> QED BY <3>1, <3>2
  <2> QED BY <1>3, <2>1, <2>2, <2>3, <2>4, <2>5, <2>6 DEF AnalyzeContent
<1>4. ASSUME NEW b \in Beats, RecoverPending(b) \/ BeatCrash(b)
      PROVE  FALSE
  BY <1>4 DEF TypeOK, RecoverPending, BeatCrash, LeaseRecoverable,
              EnqueueRecovered, Recoverable, Dispatchable, history
<1>5. ASSUME NEW x \in Rows, TimePasses(x) PROVE FALSE
  BY <1>5 DEF TypeOK, Row, TimePasses, BackoffPasses, LeaseExpires, GoesStale,
              history
<1> QED BY <1>1, <1>2, <1>3, <1>4, <1>5 DEF Next

\* No late worker, provider failure, recovery or request changes the outcome
\* of an analysis: only the agent's tool and an overtaken delivery do.
THEOREM WorkersAlwaysKeepOutcome == Spec => WorkersKeepOutcome
<1>1. ASSUME TypeOK, [Next]_vars, NEW r \in Rows, Overwritten(r)
      PROVE  Excused(r)
  <2>1. CASE UNCHANGED vars
    BY <1>1, <2>1 DEF Overwritten, vars
  <2> QED BY <1>1, <2>1, StepKeepsOutcome
<1>2. TypeOK /\ [Next]_vars =>
        [\A r \in Rows : Overwritten(r) =>
           \/ \E a \in Agents : analysing[a] = r /\ tool'[a] # tool[a]
           \/ \E w \in Workers : job[w] = r /\ worker[w] = "loaded"]_vars
  BY <1>1 DEF Excused
<1> QED BY <1>2, AnalysisTypeCorrect, PTL DEF Spec, WorkersKeepOutcome

---------------------------------------------------------------------------
(* What each process has in hand.                                          *)

\* A process has a row exactly while it works, and a delivery that was
\* overtaken has used up some of the budget for it.
Handed ==
  /\ \A h \in Hazards : budget[h] <= Limits[h]
  /\ \A w \in Workers : worker[w] = "idle" <=> job[w] = NoRow
  /\ \A a \in Agents : tool[a] = "calling" <=> analysing[a] # NoRow
  /\ \A w \in Workers : worker[w] = "loaded" => ~Undisturbed("overlap")

LEMMA SpendLowers ==
  ASSUME TypeOK, Handed, NEW h \in Hazards, Spend(h)
  PROVE  /\ \A g \in Hazards : budget'[g] <= Limits[g]
         /\ \A g \in Hazards : Undisturbed(g)' => Undisturbed(g)
         /\ ~Undisturbed(h)'
<1>1. /\ budget \in [Hazards -> Nat] /\ Limits \in [Hazards -> Nat]
      /\ budget[h] > 0 /\ budget' = [budget EXCEPT ![h] = budget[h] - 1]
      /\ \A g \in Hazards : budget[g] <= Limits[g]
  BY LimitsAssumption DEF TypeOK, Spend, Handed
<1>2. \A g \in Hazards : budget'[g] = IF g = h THEN budget[g] - 1
                                               ELSE budget[g]
  BY <1>1
<1> HIDE DEF Hazards
<1>3. \A g \in Hazards : budget[g] \in Nat /\ Limits[g] \in Nat
  BY <1>1
<1> QED BY <1>1, <1>2, <1>3 DEF Undisturbed

\* No step gives back what the environment has spent.
LEMMA BudgetStep ==
  ASSUME TypeOK, Handed, Next
  PROVE  /\ \A g \in Hazards : budget'[g] <= Limits[g]
         /\ \A g \in Hazards : Undisturbed(g)' => Undisturbed(g)
<1> DEFINE Fine == /\ \A g \in Hazards : budget'[g] <= Limits[g]
                   /\ \A g \in Hazards : Undisturbed(g)' => Undisturbed(g)
<1>1. budget' = budget => Fine
  BY DEF Handed, Undisturbed
<1>2. ASSUME NEW h \in Hazards, Spend(h) PROVE Fine
  BY <1>2, SpendLowers
<1> HIDE DEF Fine
<1>3. ASSUME NEW q \in Requests,
             Request(q) \/ EnqueueRequested(q) \/ RequestCrash(q)
      PROVE  Fine
  BY <1>1, <1>2, <1>3 DEF Request, EnqueueRequested, RequestCrash
<1>4. ASSUME NEW a \in Agents,
             AgentAnalyse(a) \/ AgentPublish(a) \/ AgentCrash(a)
      PROVE  Fine
  BY <1>1, <1>2, <1>4 DEF AgentAnalyse, AgentPublish, AgentCrash
<1>5. ASSUME NEW w \in Workers, AnalyzeContent(w) \/ WorkerCrash(w)
      PROVE  Fine
  BY <1>1, <1>2, <1>5
     DEF AnalyzeContent, BeginAttempt, LoadRun, BeginLoaded, CallModel,
         PersistSuccess, PersistFailure, RecordProviderFailure, Recorded,
         WorkerCrash
<1>6. ASSUME NEW b \in Beats, RecoverPending(b) \/ BeatCrash(b)
      PROVE  Fine
  BY <1>1, <1>2, <1>6
     DEF RecoverPending, LeaseRecoverable, EnqueueRecovered, BeatCrash
<1>7. ASSUME NEW r \in Rows, TimePasses(r) PROVE Fine
  BY <1>1, <1>2, <1>7
     DEF TimePasses, BackoffPasses, LeaseExpires, GoesStale
<1> QED BY <1>3, <1>4, <1>5, <1>6, <1>7 DEF Next, Fine

LEMMA HandedStep ==
  ASSUME TypeOK, Handed, Next
  PROVE  Handed'
<1>b. \A g \in Hazards : budget'[g] <= Limits[g]
  BY BudgetStep
<1>u. Undisturbed("overlap")' => Undisturbed("overlap")
  BY BudgetStep
<1>n. NoRow \notin Rows
  BY NoRowAssumption
<1>0. UNCHANGED <<worker, job, tool, analysing>> => Handed'
  BY <1>b, <1>u DEF Handed
<1>1. ASSUME NEW q \in Requests,
             Request(q) \/ EnqueueRequested(q) \/ RequestCrash(q)
      PROVE  Handed'
  BY <1>0, <1>1 DEF Request, EnqueueRequested, RequestCrash, clients, workers
<1>2. ASSUME NEW a \in Agents,
             AgentAnalyse(a) \/ AgentPublish(a) \/ AgentCrash(a)
      PROVE  Handed'
  <2>1. UNCHANGED <<worker, job>>
    BY <1>2 DEF AgentAnalyse, AgentPublish, AgentCrash, workers
  <2>2. ASSUME NEW c \in Agents
        PROVE  tool'[c] = "calling" <=> analysing'[c] # NoRow
    <3>1. CASE UNCHANGED <<tool, analysing>>
      BY <3>1 DEF Handed
    <3>2. CASE AgentEnds(a)
      BY <3>2 DEF Handed, TypeOK, AgentEnds
    <3>3. CASE AgentAnalyse(a)
      BY <3>3, <1>n DEF Handed, TypeOK, AgentAnalyse
    <3> QED BY <1>2, <3>1, <3>2, <3>3 DEF AgentPublish, AgentCrash
  <2> QED BY <1>b, <1>u, <2>1, <2>2 DEF Handed
<1>3. ASSUME NEW w \in Workers, AnalyzeContent(w) \/ WorkerCrash(w)
      PROVE  Handed'
  <2>1. UNCHANGED <<tool, analysing>>
    BY <1>3
       DEF AnalyzeContent, BeginAttempt, LoadRun, BeginLoaded, CallModel,
           PersistSuccess, PersistFailure, RecordProviderFailure, Recorded,
           WorkerCrash, clients
  <2> DEFINE Fine ==
        /\ \A v \in Workers \ {w} : worker'[v] = worker[v] /\ job'[v] = job[v]
        /\ worker'[w] = "idle" <=> job'[w] = NoRow
        /\ worker'[w] = "loaded" =>
             worker[w] = "loaded" \/ ~Undisturbed("overlap")'
  <2> SUFFICES Fine
    BY <1>b, <1>u, <2>1 DEF Handed
  <2>2. UNCHANGED <<worker, job>> => Fine
    BY DEF Handed
  <2>3. Leave(w) => Fine
    BY DEF TypeOK, Leave
  <2>4. ASSUME NEW r \in Rows, BeginAttempt(w, r) PROVE Fine
    BY <2>4, <1>n DEF Handed, TypeOK, BeginAttempt, TakeMessage
  <2>5. ASSUME NEW r \in Rows, LoadRun(w, r) PROVE Fine
    BY <2>5, <1>n, SpendLowers DEF Handed, TypeOK, LoadRun, TakeMessage
  <2>6. CASE CallModel(w)
    BY <2>6 DEF Handed, TypeOK, CallModel
  <2>7. ASSUME worker[w] = "loaded", UNCHANGED job,
               worker' = [worker EXCEPT ![w] = "preparing"]
        PROVE  Fine
    BY <2>7 DEF Handed, TypeOK
  <2> HIDE DEF Fine
  <2>8. CASE BeginLoaded(w)
    BY <2>8, <2>3, <2>7 DEF BeginLoaded
  <2>9. CASE \/ PersistSuccess(w) \/ PersistFailure(w)
             \/ RecordProviderFailure(w)
    BY <2>9, <2>3 DEF PersistSuccess, PersistFailure, RecordProviderFailure
  <2>10. CASE WorkerCrash(w)
    BY <2>10, <2>2, <2>3 DEF WorkerCrash, workers
  <2> QED BY <1>3, <2>4, <2>5, <2>6, <2>8, <2>9, <2>10 DEF AnalyzeContent
<1>4. ASSUME NEW b \in Beats, RecoverPending(b) \/ BeatCrash(b)
      PROVE  Handed'
  BY <1>0, <1>4
     DEF RecoverPending, LeaseRecoverable, EnqueueRecovered, BeatCrash,
         clients, workers
<1>5. ASSUME NEW r \in Rows, TimePasses(r) PROVE Handed'
  BY <1>0, <1>5
     DEF TimePasses, BackoffPasses, LeaseExpires, GoesStale, clients, workers
<1> QED BY <1>1, <1>2, <1>3, <1>4, <1>5 DEF Next

---------------------------------------------------------------------------
(* The rows of one cache key.                                              *)

\* At most one row is active, as the partial unique index has it, and nobody
\* works on a row that was not inserted.
Distinct == \A r, s \in ActiveRows : r = s
Present ==
  \A r \in Rows : row[r].status = "ABSENT" => row[r].attempts = 0 /\ ~InWork(r)

OneActive == Distinct /\ Present

\* An update keeps that when the row was active, is not active afterwards, or
\* is the only one.
LEMMA UpdateKeepsRows ==
  ASSUME TypeOK, OneActive, NEW x \in Rows, NEW value,
         row' = [row EXCEPT ![x] = value],
         value.status # "ABSENT",
         \/ row[x].status \in Active \/ value.status \notin Active
         \/ ActiveRows \subseteq {x},
         \A r \in Rows : InWork(r)' => InWork(r) \/ r = x
  PROVE  OneActive'
<1>1. row'[x] = value /\ \A r \in Rows : r # x => row'[r] = row[r]
  BY DEF TypeOK
<1>2. Distinct'
  BY <1>1 DEF OneActive, Distinct, ActiveRows
<1>3. Present'
  BY <1>1 DEF OneActive, Present
<1> QED BY <1>2, <1>3 DEF OneActive

LEMMA SameKeepsRows ==
  ASSUME OneActive, UNCHANGED row,
         \A r \in Rows :
           InWork(r)' => InWork(r) \/ row[r].status # "ABSENT"
  PROVE  OneActive'
BY DEF OneActive, Distinct, Present, ActiveRows

\* Who has a row in hand has one that was inserted.
LEMMA InHand ==
  ASSUME TypeOK, Handed, OneActive
  PROVE  /\ \A w \in Workers : worker[w] # "idle" =>
              job[w] \in Rows /\ row[job[w]].status # "ABSENT"
         /\ \A a \in Agents : tool[a] = "calling" =>
              analysing[a] \in Rows /\ row[analysing[a]].status # "ABSENT"
BY DEF TypeOK, Handed, OneActive, Present, InWork

LEMMA LeaveHand ==
  ASSUME TypeOK, NEW w \in Workers, Leave(w), UNCHANGED analysing
  PROVE  \A r \in Rows : InWork(r)' => InWork(r)
<1>1. \A v \in Workers : job'[v] = IF v = w THEN NoRow ELSE job[v]
  BY DEF TypeOK, Leave
<1> QED BY <1>1, NoRowAssumption DEF InWork

LEMMA WriteKeepsRows ==
  ASSUME TypeOK, OneActive, NEW x \in Rows, NEW s \in Terminal, Write(x, s),
         row[x].status # "ABSENT",
         \A r \in Rows : InWork(r)' => InWork(r)
  PROVE  OneActive'
<1>1. CASE UNCHANGED row
  BY <1>1, SameKeepsRows
<1>2. CASE row[x].status \notin Terminal
  <2>1. row[x].status \in Active
    BY <1>2 DEF TypeOK, Row, Terminal, Active
  <2> DEFINE value == [row[x] EXCEPT !.status = s, !.next = "none",
                                     !.lease = "none", !.fresh = TRUE]
  <2>2. row' = [row EXCEPT ![x] = value]
    BY <1>2 DEF Write
  <2>3. value.status = s
    BY DEF TypeOK, Row
  <2> HIDE DEF value
  <2> QED BY <2>1, <2>2, <2>3, UpdateKeepsRows DEF Terminal
<1> QED BY <1>1, <1>2 DEF Write

LEMMA RowsOfRequests ==
  ASSUME TypeOK, OneActive, NEW q \in Requests,
         Request(q) \/ EnqueueRequested(q) \/ RequestCrash(q)
  PROVE  OneActive'
<1>1. UNCHANGED <<job, analysing>>
  BY DEF Request, EnqueueRequested, RequestCrash, clients, workers
<1>2. \A r \in Rows : InWork(r)' => InWork(r)
  BY <1>1 DEF InWork
<1>3. ASSUME NEW r \in Rows, InsertRow(r) PROVE OneActive'
  <2>1. NewRow.status # "ABSENT"
    BY DEF NewRow
  <2>2. ActiveRows \subseteq {r} /\ row' = [row EXCEPT ![r] = NewRow]
    BY <1>3 DEF InsertRow
  <2> QED BY <1>2, <2>1, <2>2, UpdateKeepsRows
<1>4. UNCHANGED row => OneActive'
  BY <1>2, SameKeepsRows
<1> QED BY <1>3, <1>4 DEF Request, EnqueueRequested, RequestCrash

LEMMA RowsOfAgents ==
  ASSUME TypeOK, Handed, OneActive, NEW a \in Agents,
         AgentAnalyse(a) \/ AgentPublish(a) \/ AgentCrash(a)
  PROVE  OneActive'
<1>1. CASE AgentAnalyse(a)
  <2>0. UNCHANGED job
    BY <1>1 DEF AgentAnalyse, workers
  <2>1. CASE UNCHANGED <<row, analysing>>
    BY <2>0, <2>1, SameKeepsRows DEF InWork
  <2>2. CASE ~UNCHANGED <<row, analysing>>
    <3> DEFINE new == [NewRow EXCEPT !.status = "RUNNING", !.next = "none",
                                     !.attempts = 1]
    <3>1. PICK r \in Rows :
            /\ ActiveRows = {} /\ row' = [row EXCEPT ![r] = new]
            /\ analysing' = [analysing EXCEPT ![a] = r]
      BY <1>1, <2>2 DEF AgentAnalyse
    <3>2. new.status # "ABSENT"
      BY DEF NewRow
    <3>3. \A s \in Rows : InWork(s)' => InWork(s) \/ s = r
      BY <2>0, <3>1 DEF InWork, TypeOK
    <3> HIDE DEF new
    <3> QED BY <3>1, <3>2, <3>3, UpdateKeepsRows
  <2> QED BY <2>1, <2>2
<1>2. ASSUME AgentEnds(a), UNCHANGED job
      PROVE  \A r \in Rows : InWork(r)' => InWork(r)
  <2>1. \A c \in Agents : analysing'[c] = IF c = a THEN NoRow ELSE analysing[c]
    BY <1>2 DEF TypeOK, AgentEnds
  <2> QED BY <1>2, <2>1, NoRowAssumption DEF InWork
<1>3. CASE AgentCrash(a)
  BY <1>2, <1>3, SameKeepsRows DEF AgentCrash, workers
<1>4. CASE AgentPublish(a)
  <2>0. /\ \A r \in Rows : InWork(r)' => InWork(r)
        /\ analysing[a] \in Rows /\ row[analysing[a]].status # "ABSENT"
    BY <1>2, <1>4, InHand DEF AgentPublish, AgentEnds, workers
  <2> DEFINE value(s) == [row[analysing[a]] EXCEPT !.status = s,
                                                   !.fresh = TRUE]
  <2>1. \A s : value(s).status = s
    BY <2>0 DEF TypeOK, Row
  <2>2. PICK s \in Terminal :
          \/ UNCHANGED row
          \/ /\ row' = [row EXCEPT ![analysing[a]] = value(s)]
             /\ s = "SUCCEEDED" => ActiveRows \subseteq {analysing[a]}
    BY <1>4 DEF AgentPublish, IndexAllows
  <2>3. CASE UNCHANGED row
    BY <2>0, <2>3, SameKeepsRows
  <2>4. CASE ~UNCHANGED row
    <3>1. value(s).status # "ABSENT"
      BY <2>1 DEF Terminal
    <3>2. \/ value(s).status \notin Active
          \/ ActiveRows \subseteq {analysing[a]}
      BY <2>1, <2>2, <2>4 DEF Terminal, Active
    <3> HIDE DEF value
    <3> QED BY <2>0, <2>2, <2>4, <3>1, <3>2, UpdateKeepsRows
  <2> QED BY <2>3, <2>4
<1> QED BY <1>1, <1>3, <1>4

LEMMA BegunRow ==
  ASSUME TypeOK, NEW r \in Rows, NEW copy
  PROVE  /\ Begun(r, copy).status = "RUNNING" /\ Begun(r, copy).fresh
         /\ Begun(r, copy).attempts = copy.attempts + 1
BY DEF TypeOK, Row, Begun

LEMMA RowsOfWorkers ==
  ASSUME TypeOK, Handed, OneActive, NEW w \in Workers,
         AnalyzeContent(w) \/ WorkerCrash(w)
  PROVE  OneActive'
<1>0. UNCHANGED analysing
  BY DEF AnalyzeContent, BeginAttempt, LoadRun, BeginLoaded, CallModel,
         PersistSuccess, PersistFailure, RecordProviderFailure, Recorded,
         WorkerCrash, clients
<1>l. Leave(w) => \A r \in Rows : InWork(r)' => InWork(r)
  BY <1>0, LeaveHand
<1>s. UNCHANGED <<row, job>> => OneActive'
  BY <1>0, SameKeepsRows DEF InWork
<1>j. ASSUME NEW r \in Rows, job' = [job EXCEPT ![w] = r]
      PROVE  \A s \in Rows : InWork(s)' => InWork(s) \/ s = r
  BY <1>0, <1>j DEF TypeOK, InWork
<1>1. ASSUME NEW r \in Rows, BeginAttempt(w, r) PROVE OneActive'
  <2>1. CASE UNCHANGED <<row, job>>
    BY <1>s, <2>1
  <2>2. CASE ~UNCHANGED <<row, job>>
    <3>1. /\ row[r].status \in Active
          /\ row' = [row EXCEPT ![r] = Begun(r, row[r])]
          /\ job' = [job EXCEPT ![w] = r]
      BY <1>1, <2>2 DEF BeginAttempt, Beginnable, Active
    <3>2. Begun(r, row[r]).status # "ABSENT"
      BY BegunRow
    <3> QED BY <1>j, <3>1, <3>2, UpdateKeepsRows
  <2> QED BY <2>1, <2>2
<1>2. ASSUME NEW r \in Rows, LoadRun(w, r) PROVE OneActive'
  BY <1>j, <1>2, SameKeepsRows DEF LoadRun, Beginnable
<1>3. CASE BeginLoaded(w)
  <2>1. CASE Leave(w) /\ UNCHANGED row
    BY <1>l, <2>1, SameKeepsRows
  <2>2. CASE ~(Leave(w) /\ UNCHANGED row)
    <3>1. /\ ActiveRows \subseteq {job[w]}
          /\ row' = [row EXCEPT ![job[w]] = Begun(job[w], seen[w])]
          /\ UNCHANGED job
      BY <1>3, <2>2 DEF BeginLoaded, IndexAllows
    <3>2. job[w] \in Rows
      BY <1>3, InHand DEF BeginLoaded
    <3>3. Begun(job[w], seen[w]).status # "ABSENT"
      BY <3>2, BegunRow
    <3>4. \A s \in Rows : InWork(s)' => InWork(s)
      BY <1>0, <3>1 DEF InWork
    <3> QED BY <3>1, <3>2, <3>3, <3>4, UpdateKeepsRows
  <2> QED BY <2>1, <2>2
<1>4. CASE CallModel(w)
  BY <1>s, <1>4 DEF CallModel
<1>5. CASE PersistSuccess(w) \/ PersistFailure(w)
  <2>1. job[w] \in Rows /\ row[job[w]].status # "ABSENT"
    BY <1>5, InHand DEF PersistSuccess, PersistFailure
  <2> QED BY <1>l, <1>5, <2>1, WriteKeepsRows
          DEF PersistSuccess, PersistFailure, Terminal
<1>6. CASE RecordProviderFailure(w)
  <2>1. job[w] \in Rows /\ row[job[w]].status # "ABSENT"
    BY <1>6, InHand DEF RecordProviderFailure
  <2>2. Leave(w)
    BY <1>6 DEF RecordProviderFailure
  <2>3. CASE Write(job[w], "FAILED")
    BY <1>l, <2>1, <2>2, <2>3, WriteKeepsRows DEF Terminal
  <2>4. CASE ~Write(job[w], "FAILED")
    <3> DEFINE value == IF row[job[w]].status \in Terminal THEN row[job[w]]
                        ELSE [row[job[w]] EXCEPT !.status = "PENDING",
                                !.next = "ahead", !.lease = "none",
                                !.fresh = TRUE]
    <3>1. row' = [row EXCEPT ![job[w]] = value]
      BY <1>6, <2>4 DEF RecordProviderFailure
    <3>2. /\ value.status # "ABSENT"
          /\ row[job[w]].status \in Active \/ value.status \notin Active
      BY <2>1 DEF TypeOK, Row, Terminal, Active
    <3> HIDE DEF value
    <3> QED BY <1>l, <2>1, <2>2, <3>1, <3>2, UpdateKeepsRows
  <2> QED BY <2>3, <2>4
<1>7. CASE WorkerCrash(w)
  <2>1. UNCHANGED row /\ (Leave(w) \/ UNCHANGED job)
    BY <1>7 DEF WorkerCrash, workers
  <2> QED BY <1>l, <1>s, <2>1, SameKeepsRows
<1> QED BY <1>1, <1>2, <1>3, <1>4, <1>5, <1>6, <1>7 DEF AnalyzeContent

LEMMA RowsOfBeats ==
  ASSUME TypeOK, OneActive, NEW b \in Beats, RecoverPending(b) \/ BeatCrash(b)
  PROVE  OneActive'
<1>0. \A r \in Rows : InWork(r)' => InWork(r)
  BY DEF InWork, RecoverPending, LeaseRecoverable, EnqueueRecovered,
         BeatCrash, clients, workers
<1>1. CASE LeaseRecoverable(b)
  <2>1. ASSUME NEW r \in Rows
        PROVE  \/ row'[r] = row[r]
               \/ row[r].status \in Active /\ row'[r].status = "PENDING"
    <3>1. row'[r] = IF Recoverable(r)
                    THEN [row[r] EXCEPT !.status = "PENDING",
                                        !.lease = "live", !.fresh = TRUE]
                    ELSE row[r]
      BY <1>1 DEF LeaseRecoverable
    <3>2. row[r] \in Row
      BY DEF TypeOK
    <3>3. Recoverable(r) => row[r].status \in Active
      BY DEF Recoverable, Dispatchable, Active
    <3> QED BY <3>1, <3>2, <3>3 DEF Row
  <2>2. Distinct'
    BY <2>1 DEF OneActive, Distinct, ActiveRows
  <2>3. Present'
    BY <1>0, <2>1 DEF OneActive, Present
  <2> QED BY <2>2, <2>3 DEF OneActive
<1>2. UNCHANGED row => OneActive'
  BY <1>0, SameKeepsRows
<1> QED BY <1>1, <1>2 DEF RecoverPending, EnqueueRecovered, BeatCrash

\* Time changes neither the status of a row nor its attempts.
LEMMA TimeRow ==
  ASSUME TypeOK, NEW x \in Rows, TimePasses(x)
  PROVE  \A r \in Rows :
           /\ row'[r].status = row[r].status
           /\ row'[r].attempts = row[r].attempts
           /\ row'[r].fresh = row[r].fresh \/ (r = x /\ GoesStale(x))
<1>0. row[x] \in Row /\ row \in [Rows -> Row]
  BY DEF TypeOK
<1>1. ASSUME NEW value, row' = [row EXCEPT ![x] = value],
             value.status = row[x].status, value.attempts = row[x].attempts,
             value.fresh = row[x].fresh \/ GoesStale(x)
      PROVE  \A r \in Rows :
               /\ row'[r].status = row[r].status
               /\ row'[r].attempts = row[r].attempts
               /\ row'[r].fresh = row[r].fresh \/ (r = x /\ GoesStale(x))
  <2>1. \A r \in Rows : row'[r] = IF r = x THEN value ELSE row[r]
    BY <1>0, <1>1
  <2> QED BY <1>1, <2>1
<1>2. CASE BackoffPasses(x)
  <2>1. row' = [row EXCEPT ![x] = [row[x] EXCEPT !.next = "passed"]]
    BY <1>2 DEF BackoffPasses
  <2> QED BY <1>0, <1>1, <2>1 DEF Row
<1>3. CASE LeaseExpires(x)
  <2>1. row' = [row EXCEPT ![x] = [row[x] EXCEPT !.lease = "expired"]]
    BY <1>3 DEF LeaseExpires
  <2> QED BY <1>0, <1>1, <2>1 DEF Row
<1>4. CASE GoesStale(x)
  <2>1. row' = [row EXCEPT ![x] = [row[x] EXCEPT !.fresh = FALSE]]
    BY <1>4 DEF GoesStale
  <2> QED BY <1>0, <1>1, <1>4, <2>1 DEF Row
<1> QED BY <1>2, <1>3, <1>4 DEF TimePasses

LEMMA RowsOfTime ==
  ASSUME TypeOK, OneActive, NEW x \in Rows, TimePasses(x)
  PROVE  OneActive'
<1>0. \A r \in Rows : InWork(r)' => InWork(r)
  BY DEF InWork, TimePasses, BackoffPasses, LeaseExpires, GoesStale,
         clients, workers
<1>1. \A r \in Rows : /\ row'[r].status = row[r].status
                      /\ row'[r].attempts = row[r].attempts
  BY TimeRow
<1> QED BY <1>0, <1>1 DEF OneActive, Distinct, Present, ActiveRows

LEMMA OneActiveStep ==
  ASSUME TypeOK, Handed, OneActive, Next
  PROVE  OneActive'
BY RowsOfRequests, RowsOfAgents, RowsOfWorkers, RowsOfBeats, RowsOfTime
   DEF Next

---------------------------------------------------------------------------
(* One process at work.                                                    *)

\* As long as no slow call was taken for a dead one and no delivery was
\* overtaken, what is in hand is RUNNING and was written lately, so that
\* neither recovery nor a message gives it to a second process.
Calm == Undisturbed("slow") /\ Undisturbed("overlap")

Sole ==
  /\ \A r \in Rows : InWork(r) => row[r].status = "RUNNING" /\ row[r].fresh
  /\ \A v, w \in Workers : job[v] # NoRow /\ job[v] = job[w] => v = w
  /\ \A a, b \in Agents :
       analysing[a] # NoRow /\ analysing[a] = analysing[b] => a = b
  /\ \A w \in Workers, a \in Agents :
       job[w] # NoRow => job[w] # analysing[a]

LEMMA FewerKeepSole ==
  ASSUME Sole, \A w \in Workers : job'[w] \in {job[w], NoRow},
         \A a \in Agents : analysing'[a] \in {analysing[a], NoRow},
         \A r \in Rows :
           InWork(r)' => row'[r].status = "RUNNING" /\ row'[r].fresh
  PROVE  Sole'
BY DEF Sole

LEMMA SameKeepsSole ==
  ASSUME Sole, UNCHANGED <<row, job, analysing>>
  PROVE  Sole'
BY DEF Sole, InWork

LEMMA SoleOfRequests ==
  ASSUME TypeOK, Sole, NEW q \in Requests,
         Request(q) \/ EnqueueRequested(q) \/ RequestCrash(q)
  PROVE  Sole'
<1>1. UNCHANGED <<job, analysing>>
  BY DEF Request, EnqueueRequested, RequestCrash, clients, workers
<1>2. ASSUME NEW r \in Rows, InsertRow(r) PROVE Sole'
  <2>1. \A s \in Rows : row[s].status = "RUNNING" => row'[s] = row[s]
    BY <1>2 DEF TypeOK, InsertRow
  <2> QED BY <1>1, <2>1 DEF Sole, InWork
<1> QED BY <1>1, <1>2, SameKeepsSole
    DEF Request, EnqueueRequested, RequestCrash

LEMMA SoleOfAgents ==
  ASSUME TypeOK, Handed, Sole, NEW a \in Agents,
         AgentAnalyse(a) \/ AgentPublish(a) \/ AgentCrash(a)
  PROVE  Sole'
<1>0. UNCHANGED job
  BY DEF AgentAnalyse, AgentPublish, AgentCrash, workers
<1>1. CASE AgentAnalyse(a)
  <2>1. CASE UNCHANGED <<row, analysing>>
    BY <1>0, <2>1, SameKeepsSole
  <2>2. CASE ~UNCHANGED <<row, analysing>>
    <3> DEFINE new == [NewRow EXCEPT !.status = "RUNNING", !.next = "none",
                                     !.attempts = 1]
    <3>1. PICK r \in Rows : /\ row[r].status = "ABSENT"
                            /\ row' = [row EXCEPT ![r] = new]
                            /\ analysing' = [analysing EXCEPT ![a] = r]
      BY <1>1, <2>2 DEF AgentAnalyse
    <3>2. new.status = "RUNNING" /\ new.fresh
      BY DEF NewRow
    <3> HIDE DEF new
    <3>3. /\ row'[r] = new /\ \A s \in Rows : s # r => row'[s] = row[s]
          /\ analysing'[a] = r
          /\ \A b \in Agents : b # a => analysing'[b] = analysing[b]
      BY <3>1 DEF TypeOK
    <3>4. ~InWork(r)
      BY <3>1 DEF Sole
    <3> QED BY <1>0, <3>2, <3>3, <3>4 DEF Sole, InWork
  <2> QED BY <2>1, <2>2
<1>2. CASE AgentPublish(a) \/ AgentCrash(a)
  <2>1. /\ analysing[a] # NoRow /\ analysing'[a] = NoRow
        /\ \A b \in Agents : b # a => analysing'[b] = analysing[b]
    BY <1>2 DEF TypeOK, Handed, AgentPublish, AgentCrash, AgentEnds
  <2>2. \A r \in Rows : InWork(r)' => InWork(r) /\ r # analysing[a]
    BY <1>0, <2>1, NoRowAssumption DEF Sole, InWork
  <2>3. \A r \in Rows : r # analysing[a] => row'[r] = row[r]
    BY <1>2 DEF TypeOK, AgentPublish, AgentCrash
  <2>4. \A r \in Rows :
          InWork(r)' => row'[r].status = "RUNNING" /\ row'[r].fresh
    BY <2>2, <2>3 DEF Sole
  <2> QED BY <1>0, <2>1, <2>4, FewerKeepSole
<1> QED BY <1>1, <1>2

LEMMA SoleOfWorkers ==
  ASSUME TypeOK, Handed, Sole, NEW w \in Workers,
         AnalyzeContent(w) \/ WorkerCrash(w), Undisturbed("overlap")'
  PROVE  Sole'
<1>0. UNCHANGED analysing
  BY DEF AnalyzeContent, BeginAttempt, LoadRun, BeginLoaded, CallModel,
         PersistSuccess, PersistFailure, RecordProviderFailure, Recorded,
         WorkerCrash, clients
<1>u. Undisturbed("overlap")
  BY BudgetStep DEF Next
<1>l. ASSUME Leave(w), worker[w] # "idle",
             \A r \in Rows : r # job[w] => row'[r] = row[r]
      PROVE  Sole'
  <2>1. /\ job[w] # NoRow /\ job'[w] = NoRow
        /\ \A v \in Workers : v # w => job'[v] = job[v]
    BY <1>l DEF TypeOK, Handed, Leave
  <2>2. \A r \in Rows : InWork(r)' => InWork(r) /\ r # job[w]
    BY <1>0, <2>1, NoRowAssumption DEF Sole, InWork
  <2>3. \A r \in Rows :
          InWork(r)' => row'[r].status = "RUNNING" /\ row'[r].fresh
    BY <1>l, <2>2 DEF Sole
  <2> QED BY <1>0, <2>1, <2>3, FewerKeepSole
<1>1. ASSUME NEW r \in Rows, BeginAttempt(w, r) PROVE Sole'
  <2>1. CASE UNCHANGED <<row, job>>
    BY <1>0, <2>1, SameKeepsSole
  <2>2. CASE ~UNCHANGED <<row, job>>
    <3>1. /\ row[r].status = "PENDING"
          /\ row' = [row EXCEPT ![r] = Begun(r, row[r])]
          /\ job' = [job EXCEPT ![w] = r]
      BY <1>1, <2>2 DEF BeginAttempt, Beginnable
    <3>2. /\ row'[r].status = "RUNNING" /\ row'[r].fresh
          /\ \A s \in Rows : s # r => row'[s] = row[s]
          /\ job'[w] = r
          /\ \A v \in Workers : v # w => job'[v] = job[v]
      BY <3>1, BegunRow DEF TypeOK
    <3>3. ~InWork(r)
      BY <3>1 DEF Sole
    <3> QED BY <1>0, <3>2, <3>3 DEF Sole, InWork
  <2> QED BY <2>1, <2>2
<1>2. ASSUME NEW r \in Rows, LoadRun(w, r) PROVE FALSE
  BY <1>2, SpendLowers DEF LoadRun
<1>3. CASE BeginLoaded(w)
  BY <1>3, <1>u DEF Handed, BeginLoaded
<1>4. CASE CallModel(w)
  BY <1>0, <1>4, SameKeepsSole DEF CallModel
<1>5. CASE \/ PersistSuccess(w) \/ PersistFailure(w)
           \/ RecordProviderFailure(w)
  <2>1. Leave(w) /\ worker[w] # "idle"
    BY <1>5 DEF PersistSuccess, PersistFailure, RecordProviderFailure
  <2>2. \A r \in Rows : r # job[w] => row'[r] = row[r]
    BY <1>5 DEF TypeOK, PersistSuccess, PersistFailure,
                RecordProviderFailure, Write
  <2> QED BY <1>l, <2>1, <2>2
<1>6. CASE WorkerCrash(w)
  <2>1. UNCHANGED row /\ ((Leave(w) /\ worker[w] # "idle") \/ UNCHANGED job)
    BY <1>6 DEF WorkerCrash, workers
  <2> QED BY <1>0, <1>l, <2>1, SameKeepsSole
<1> QED BY <1>1, <1>2, <1>3, <1>4, <1>5, <1>6 DEF AnalyzeContent

LEMMA SoleOfBeats ==
  ASSUME TypeOK, Sole, NEW b \in Beats, RecoverPending(b) \/ BeatCrash(b)
  PROVE  Sole'
<1>0. UNCHANGED <<job, analysing>>
  BY DEF RecoverPending, LeaseRecoverable, EnqueueRecovered, BeatCrash,
         clients, workers
<1>1. CASE LeaseRecoverable(b)
  <2>1. \A r \in Rows :
          row[r].status = "RUNNING" /\ row[r].fresh => row'[r] = row[r]
    BY <1>1 DEF LeaseRecoverable, Recoverable, Dispatchable
  <2> QED BY <1>0, <2>1 DEF Sole, InWork
<1>2. UNCHANGED row => Sole'
  BY <1>0, SameKeepsSole
<1> QED BY <1>1, <1>2 DEF RecoverPending, EnqueueRecovered, BeatCrash

LEMMA SoleOfTime ==
  ASSUME TypeOK, Handed, Sole, NEW x \in Rows, TimePasses(x),
         Undisturbed("slow")'
  PROVE  Sole'
<1>0. UNCHANGED <<job, analysing>>
  BY DEF TimePasses, BackoffPasses, LeaseExpires, GoesStale, clients, workers
<1>1. GoesStale(x) => ~InWork(x)
  BY SpendLowers DEF GoesStale
<1>2. \A r \in Rows : InWork(r)' => InWork(r)
  BY <1>0 DEF InWork
<1>3. \A r \in Rows :
        InWork(r)' => row'[r].status = "RUNNING" /\ row'[r].fresh
  BY <1>1, <1>2, TimeRow DEF Sole
<1> QED BY <1>0, <1>3, FewerKeepSole

LEMMA SoleStep ==
  ASSUME TypeOK, Handed, Calm => Sole, Next
  PROVE  (Calm => Sole)'
<1> SUFFICES ASSUME Calm' PROVE Sole'
  OBVIOUS
<1>1. Undisturbed("slow")' /\ Undisturbed("overlap")'
  BY DEF Calm
<1>2. Calm
  BY <1>1, BudgetStep DEF Calm
<1> QED BY <1>1, <1>2, SoleOfRequests, SoleOfAgents, SoleOfWorkers,
           SoleOfBeats, SoleOfTime DEF Next

\* What the rows and the processes agree on.
WorkInv == TypeOK /\ Handed /\ OneActive /\ (Calm => Sole)

LEMMA WorkInit == Init => WorkInv
<1> SUFFICES ASSUME Init PROVE WorkInv
  OBVIOUS
<1>1. TypeOK
  BY TypeInit
<1>2. Handed
  BY LimitsAssumption DEF Init, Handed
<1>3. \A r \in Rows : ~InWork(r) /\ row[r] = NothingSeen
  BY NoRowAssumption DEF Init, InWork
<1>4. NothingSeen.status = "ABSENT" /\ NothingSeen.attempts = 0
  BY DEF NothingSeen, NewRow
<1>5. OneActive
  BY <1>3, <1>4 DEF OneActive, Distinct, Present, ActiveRows, Active
<1>6. Sole
  BY <1>3 DEF Init, Sole
<1> QED BY <1>1, <1>2, <1>5, <1>6 DEF WorkInv

LEMMA WorkStep == WorkInv /\ [Next]_vars => WorkInv'
<1> SUFFICES ASSUME WorkInv, [Next]_vars PROVE WorkInv'
  OBVIOUS
<1>1. TypeOK /\ Handed /\ OneActive /\ (Calm => Sole)
  BY DEF WorkInv
<1>2. CASE UNCHANGED vars
  BY <1>1, <1>2
     DEF WorkInv, TypeOK, Handed, OneActive, Distinct, Present, ActiveRows,
         InWork, Calm, Sole, Undisturbed, vars
<1>3. CASE Next
  <2>1. TypeOK'
    BY <1>1, <1>3, TypeRequests, TypeAgents, TypeWorkers, TypeBeats, TypeTime
       DEF Next
  <2>2. Handed' /\ OneActive'
    BY <1>1, <1>3, HandedStep, OneActiveStep
  <2>3. (Calm => Sole)'
    BY <1>1, <1>3, SoleStep
  <2> QED BY <2>1, <2>2, <2>3 DEF WorkInv
<1> QED BY <1>2, <1>3

LEMMA WorkAlways == Spec => []WorkInv
BY WorkInit, WorkStep, PTL DEF Spec

\* A set whose members are all the same has one at most.
LEMMA AtMostOne ==
  ASSUME NEW S, \A x, y \in S : x = y
  PROVE  Cardinality(S) <= 1
<1>1. CASE S = {}
  BY <1>1, FS_EmptySet
<1>2. CASE S # {}
  <2>1. PICK x : x \in S
    BY <1>2
  <2>2. S = {x}
    BY <2>1
  <2> QED BY <2>2, FS_Singleton
<1> QED BY <1>1, <1>2

\* Two processes have a row in hand only when a slow call was taken for a
\* dead one, or a delivery was overtaken.
THEOREM OneAlwaysAtWork == Spec => []OneAtWork
<1>1. WorkInv => OneAtWork
  <2> SUFFICES ASSUME WorkInv, Undisturbed("slow"), Undisturbed("overlap"),
                      NEW r \in Rows
               PROVE  Cardinality({w \in Workers : job[w] = r}
                        \cup {a \in Agents : analysing[a] = r}) <= 1
    BY DEF OneAtWork
  <2> DEFINE S == {w \in Workers : job[w] = r}
                    \cup {a \in Agents : analysing[a] = r}
  <2>1. Sole
    BY DEF WorkInv, Calm
  <2>2. \A x, y \in S : x = y
    BY <2>1, NoRowAssumption DEF Sole
  <2> QED BY <2>2, AtMostOne
<1> QED BY <1>1, WorkAlways, PTL

\* While a cache key has its report, nobody calls the model for it.
THEOREM ReportAlwaysReused == Spec => ReportIsReused
<1>1. WorkInv /\ [Next]_vars =>
        [ /\ \E r \in Rows : row[r].status = "SUCCEEDED"
          /\ Undisturbed("slow") /\ Undisturbed("overlap")
          => calls' = calls ]_vars
  <2> SUFFICES ASSUME WorkInv, Next,
                      NEW r \in Rows, row[r].status = "SUCCEEDED",
                      Undisturbed("slow"), Undisturbed("overlap")
               PROVE  calls' = calls
    OBVIOUS
  <2>0. r \in ActiveRows
    BY DEF ActiveRows, Active
  <2>1. ASSUME NEW w \in Workers, CallModel(w) PROVE FALSE
    <3>1. Sole /\ Distinct
      BY DEF WorkInv, Calm, OneActive
    <3>2. job[w] \in Rows
      BY <2>1, InHand DEF WorkInv, CallModel
    <3>3. row[job[w]].status = "RUNNING"
      BY <3>1, <3>2 DEF Sole, InWork
    <3>4. job[w] \in ActiveRows
      BY <3>2, <3>3 DEF ActiveRows, Active
    <3> QED BY <2>0, <3>1, <3>3, <3>4 DEF Distinct
  <2>2. ASSUME NEW a \in Agents, AgentAnalyse(a) PROVE calls' = calls
    BY <2>0, <2>2 DEF AgentAnalyse
  <2> QED BY <2>1, <2>2
          DEF Next, Request, EnqueueRequested, RequestCrash, AgentPublish,
              AgentCrash, AnalyzeContent, BeginAttempt, LoadRun, BeginLoaded,
              PersistSuccess, PersistFailure, RecordProviderFailure, Recorded,
              WorkerCrash, RecoverPending, LeaseRecoverable,
              EnqueueRecovered, BeatCrash, TimePasses, BackoffPasses,
              LeaseExpires, GoesStale, history
<1> QED BY <1>1, WorkAlways, PTL DEF Spec, ReportIsReused

---------------------------------------------------------------------------
(* Calls of the model.                                                     *)

\* Every begin counts an attempt and is followed by one call at most; and a
\* row is PENDING again only below the last attempt, or when recovery took
\* it back.
Preparing(r) == {w \in Workers : worker[w] = "preparing" /\ job[w] = r}

MostAttempts(r) ==
  recovered[r] + (IF row[r].status = "PENDING" THEN MaxFailures - 1
                                               ELSE MaxFailures)

Counted(r) ==
  /\ IsFiniteSet(Preparing(r))
  /\ calls[r] + Cardinality(Preparing(r)) <= row[r].attempts
  /\ row[r].attempts <= MostAttempts(r)

\* Nobody begins or calls.
LEMMA FewerKeepCounted ==
  ASSUME TypeOK, TypeOK', NEW r \in Rows, Counted(r),
         Preparing(r)' \subseteq Preparing(r), calls'[r] = calls[r],
         row'[r].attempts = row[r].attempts,
         row'[r].attempts <= MostAttempts(r)'
  PROVE  Counted(r)'
<1>1. /\ IsFiniteSet(Preparing(r)')
      /\ Cardinality(Preparing(r)') <= Cardinality(Preparing(r))
  BY FS_Subset DEF Counted
<1>2. /\ Cardinality(Preparing(r)) \in Nat
      /\ Cardinality(Preparing(r)') \in Nat
      /\ calls[r] \in Nat /\ row[r].attempts \in Nat
  BY <1>1, FS_CardinalityType DEF Counted, TypeOK, Row
<1>3. calls'[r] + Cardinality(Preparing(r)') <= row'[r].attempts
  BY <1>1, <1>2 DEF Counted
<1> QED BY <1>1, <1>3 DEF Counted

\* The bound on the attempts where neither they nor recovered change.
LEMMA BoundKept ==
  ASSUME TypeOK, NEW r \in Rows, Counted(r),
         row'[r].attempts = row[r].attempts, recovered'[r] = recovered[r],
         \/ row'[r].status # "PENDING" \/ row[r].status = "PENDING"
         \/ row[r].attempts < MaxFailures
  PROVE  row'[r].attempts <= MostAttempts(r)'
<1>1. row[r].attempts \in Nat /\ recovered[r] \in Nat
  BY DEF TypeOK, Row
<1> QED BY <1>1 DEF Counted, MostAttempts, MaxFailures

LEMMA CountedSame ==
  ASSUME TypeOK, TypeOK', NEW r \in Rows, Counted(r),
         Preparing(r)' \subseteq Preparing(r), calls'[r] = calls[r],
         row'[r].attempts = row[r].attempts, recovered'[r] = recovered[r],
         \/ row'[r].status # "PENDING" \/ row[r].status = "PENDING"
         \/ row[r].attempts < MaxFailures
  PROVE  Counted(r)'
BY FewerKeepCounted, BoundKept

\* What Write does to a row.
LEMMA WriteRow ==
  ASSUME TypeOK, NEW x, NEW s \in Terminal, Write(x, s), NEW r \in Rows
  PROVE  /\ row'[r].attempts = row[r].attempts
         /\ row'[r].status # "PENDING" \/ row[r].status = "PENDING"
<1>1. CASE row' = row
  BY <1>1
<1>2. CASE row' # row
  <2> DEFINE value == [row[x] EXCEPT !.status = s, !.next = "none",
                                     !.lease = "none", !.fresh = TRUE]
  <2>1. row' = [row EXCEPT ![x] = value]
    BY <1>2 DEF Write
  <2>2. x \in Rows => value.attempts = row[x].attempts /\ value.status = s
    BY DEF TypeOK, Row
  <2>3. row'[r] = IF r = x THEN value ELSE row[r]
    BY <2>1 DEF TypeOK
  <2> QED BY <2>2, <2>3 DEF Terminal
<1> QED BY <1>1, <1>2

LEMMA CountedOfRequests ==
  ASSUME TypeOK, TypeOK', OneActive, NEW r \in Rows, Counted(r),
         NEW q \in Requests,
         Request(q) \/ EnqueueRequested(q) \/ RequestCrash(q)
  PROVE  Counted(r)'
<1>1. /\ Preparing(r)' = Preparing(r) /\ calls' = calls
      /\ recovered' = recovered
  BY DEF Preparing, Request, EnqueueRequested, RequestCrash, workers, history
<1>2. ASSUME NEW x \in Rows, InsertRow(x) PROVE Counted(r)'
  <2>1. row[x].attempts = 0 /\ row[x].status = "ABSENT"
    BY <1>2 DEF InsertRow, OneActive, Present
  <2>2. NewRow.attempts = 0 /\ NewRow.status = "PENDING"
    BY DEF NewRow
  <2>3. row'[r] = IF r = x THEN NewRow ELSE row[r]
    BY <1>2 DEF TypeOK, InsertRow
  <2> QED BY <1>1, <2>1, <2>2, <2>3, CountedSame DEF MaxFailures
<1>3. row' = row => Counted(r)'
  BY <1>1, CountedSame
<1> QED BY <1>2, <1>3 DEF Request, EnqueueRequested, RequestCrash

LEMMA CountedOfAgents ==
  ASSUME TypeOK, TypeOK', Handed, OneActive, NEW r \in Rows, Counted(r),
         NEW a \in Agents,
         AgentAnalyse(a) \/ AgentPublish(a) \/ AgentCrash(a)
  PROVE  Counted(r)'
<1>1. Preparing(r)' = Preparing(r) /\ recovered' = recovered
  BY DEF Preparing, AgentAnalyse, AgentPublish, AgentCrash, workers, history
<1>2. CASE AgentAnalyse(a)
  <2> DEFINE new == [NewRow EXCEPT !.status = "RUNNING", !.next = "none",
                                   !.attempts = 1]
  <2>1. new.attempts = 1 /\ new.status = "RUNNING"
    BY DEF NewRow
  <2>2. CASE UNCHANGED <<row, calls>>
    BY <1>1, <2>2, CountedSame
  <2>3. CASE ~UNCHANGED <<row, calls>>
    <3>1. PICK x \in Rows : /\ row[x].status = "ABSENT"
                            /\ row' = [row EXCEPT ![x] = new]
                            /\ calls' = [calls EXCEPT ![x] = @ + 1]
      BY <1>2, <2>3 DEF AgentAnalyse
    <3> HIDE DEF new
    <3>2. /\ row'[r] = IF r = x THEN new ELSE row[r]
          /\ calls'[r] = IF r = x THEN calls[r] + 1 ELSE calls[r]
      BY <3>1 DEF TypeOK
    <3>3. CASE r # x
      BY <1>1, <3>2, <3>3, CountedSame
    <3>4. CASE r = x
      <4>1. row[r].attempts = 0
        BY <3>1, <3>4 DEF OneActive, Present
      <4>2. /\ Cardinality(Preparing(r)) \in Nat /\ calls[r] \in Nat
            /\ recovered[r] \in Nat
        BY FS_CardinalityType DEF Counted, TypeOK
      <4>3. calls[r] = 0 /\ Cardinality(Preparing(r)) = 0
        BY <4>1, <4>2 DEF Counted
      <4> QED BY <1>1, <2>1, <3>2, <3>4, <4>2, <4>3
              DEF Counted, MostAttempts, MaxFailures
    <3> QED BY <3>3, <3>4
  <2> QED BY <2>2, <2>3
<1>3. CASE AgentPublish(a)
  <2>1. analysing[a] \in Rows
    BY <1>3, InHand DEF AgentPublish, AgentEnds
  <2> DEFINE value(s) == [row[analysing[a]] EXCEPT !.status = s,
                                                   !.fresh = TRUE]
  <2>2. \A s : /\ value(s).status = s
               /\ value(s).attempts = row[analysing[a]].attempts
    BY <2>1 DEF TypeOK, Row
  <2>3. PICK s \in Terminal :
          row' = row \/ row' = [row EXCEPT ![analysing[a]] = value(s)]
    BY <1>3 DEF AgentPublish
  <2> HIDE DEF value
  <2>4. row'[r] = row[r] \/ (r = analysing[a] /\ row'[r] = value(s))
    BY <2>3 DEF TypeOK
  <2>5. calls' = calls
    BY <1>3 DEF AgentPublish
  <2> QED BY <1>1, <2>2, <2>4, <2>5, CountedSame DEF Terminal
<1>4. CASE AgentCrash(a)
  BY <1>1, <1>4, CountedSame DEF AgentCrash, history
<1> QED BY <1>2, <1>3, <1>4

LEMMA CountedOfWorkers ==
  ASSUME TypeOK, TypeOK', Handed, NEW r \in Rows, Counted(r),
         NEW w \in Workers, AnalyzeContent(w) \/ WorkerCrash(w),
         Undisturbed("overlap")
  PROVE  Counted(r)'
<1>0. recovered' = recovered
  BY DEF AnalyzeContent, BeginAttempt, LoadRun, BeginLoaded, CallModel,
         PersistSuccess, PersistFailure, RecordProviderFailure, Recorded,
         WorkerCrash, history
<1>n. /\ IsFiniteSet(Preparing(r)) /\ Cardinality(Preparing(r)) \in Nat
      /\ calls[r] \in Nat /\ recovered[r] \in Nat /\ row[r].attempts \in Nat
  BY FS_CardinalityType DEF Counted, TypeOK, Row
<1>l. ASSUME Leave(w) \/ UNCHANGED <<worker, job>>
      PROVE  Preparing(r)' \subseteq Preparing(r)
  BY <1>l DEF TypeOK, Leave, Preparing
<1>1. ASSUME NEW x \in Rows, BeginAttempt(w, x) PROVE Counted(r)'
  <2>c. calls' = calls
    BY <1>1 DEF BeginAttempt, history
  <2>1. CASE UNCHANGED <<row, worker, job>>
    BY <1>0, <1>l, <2>c, <2>1, CountedSame
  <2>2. CASE ~UNCHANGED <<row, worker, job>>
    <3>1. /\ row[x].status = "PENDING"
          /\ row' = [row EXCEPT ![x] = Begun(x, row[x])]
          /\ worker' = [worker EXCEPT ![w] = "preparing"]
          /\ job' = [job EXCEPT ![w] = x]
          /\ worker[w] = "idle"
      BY <1>1, <2>2 DEF BeginAttempt, Beginnable, TakeMessage
    <3>2. /\ row'[r] = IF r = x THEN Begun(r, row[r]) ELSE row[r]
          /\ Preparing(r)' = IF r = x THEN Preparing(r) \cup {w}
                                      ELSE Preparing(r)
      BY <3>1 DEF TypeOK, Preparing
    <3>3. CASE r # x
      BY <1>0, <2>c, <3>2, <3>3, CountedSame
    <3>4. CASE r = x
      <4>1. w \notin Preparing(r)
        BY <3>1 DEF Preparing
      <4>2. /\ IsFiniteSet(Preparing(r)')
            /\ Cardinality(Preparing(r)') = Cardinality(Preparing(r)) + 1
        BY <1>n, <3>2, <3>4, <4>1, FS_AddElement
      <4>3. /\ row'[r].attempts = row[r].attempts + 1
            /\ row'[r].status = "RUNNING"
        BY <3>2, <3>4, BegunRow
      <4> QED BY <1>0, <1>n, <2>c, <3>1, <3>4, <4>2, <4>3
              DEF Counted, MostAttempts, MaxFailures
    <3> QED BY <3>3, <3>4
  <2> QED BY <2>1, <2>2
<1>2. ASSUME NEW x \in Rows, LoadRun(w, x) PROVE Counted(r)'
  <2>1. Preparing(r)' \subseteq Preparing(r)
    BY <1>2 DEF LoadRun, TakeMessage, TypeOK, Preparing
  <2> QED BY <1>0, <1>2, <2>1, CountedSame DEF LoadRun, history
<1>3. CASE BeginLoaded(w)
  BY <1>3 DEF Handed, BeginLoaded
<1>4. CASE CallModel(w)
  <2>1. /\ worker[w] = "preparing" /\ UNCHANGED <<row, job>>
        /\ worker' = [worker EXCEPT ![w] = "calling"]
        /\ calls' = [calls EXCEPT ![job[w]] = @ + 1]
    BY <1>4 DEF CallModel
  <2>2. CASE job[w] # r
    <3>1. Preparing(r)' \subseteq Preparing(r) /\ calls'[r] = calls[r]
      BY <2>1, <2>2 DEF TypeOK, Preparing
    <3> QED BY <1>0, <2>1, <3>1, CountedSame
  <2>3. CASE job[w] = r
    <3>1. /\ w \in Preparing(r) /\ Preparing(r)' = Preparing(r) \ {w}
          /\ calls'[r] = calls[r] + 1
      BY <2>1, <2>3 DEF TypeOK, Preparing
    <3>2. /\ IsFiniteSet(Preparing(r)')
          /\ Cardinality(Preparing(r)') = Cardinality(Preparing(r)) - 1
      BY <1>n, <3>1, FS_RemoveElement
    <3> QED BY <1>0, <1>n, <2>1, <3>1, <3>2 DEF Counted, MostAttempts
  <2> QED BY <2>2, <2>3
<1>5. CASE PersistSuccess(w) \/ PersistFailure(w)
  <2>1. Leave(w) /\ calls' = calls
    BY <1>5 DEF PersistSuccess, PersistFailure, Recorded
  <2>2. /\ row'[r].attempts = row[r].attempts
        /\ row'[r].status # "PENDING" \/ row[r].status = "PENDING"
    BY <1>5, WriteRow DEF PersistSuccess, PersistFailure, Terminal
  <2> QED BY <1>0, <1>l, <2>1, <2>2, CountedSame
<1>6. CASE RecordProviderFailure(w)
  <2>1. Leave(w) /\ calls' = calls
    BY <1>6 DEF RecordProviderFailure, Recorded
  <2>2. CASE Write(job[w], "FAILED")
    <3>1. /\ row'[r].attempts = row[r].attempts
          /\ row'[r].status # "PENDING" \/ row[r].status = "PENDING"
      BY <2>2, WriteRow DEF Terminal
    <3> QED BY <1>0, <1>l, <2>1, <3>1, CountedSame
  <2>3. CASE ~Write(job[w], "FAILED")
    <3> DEFINE value == IF row[job[w]].status \in Terminal THEN row[job[w]]
                        ELSE [row[job[w]] EXCEPT !.status = "PENDING",
                                !.next = "ahead", !.lease = "none",
                                !.fresh = TRUE]
    <3>1. /\ row' = [row EXCEPT ![job[w]] = value]
          /\ ~LastFailure(job[w])
      BY <1>6, <2>3 DEF RecordProviderFailure
    <3>2. job[w] \in Rows => value.attempts = row[job[w]].attempts
      BY DEF TypeOK, Row
    <3> HIDE DEF value
    <3>3. row'[r] = IF r = job[w] THEN value ELSE row[r]
      BY <3>1 DEF TypeOK
    <3>4. r = job[w] => row[r].attempts < MaxFailures
      BY <1>n, <3>1 DEF LastFailure, MaxFailures
    <3> QED BY <1>0, <1>l, <2>1, <3>2, <3>3, <3>4, CountedSame
  <2> QED BY <2>2, <2>3
<1>7. CASE WorkerCrash(w)
  <2>1. Preparing(r)' \subseteq Preparing(r)
    BY <1>7, <1>l DEF WorkerCrash, workers
  <2> QED BY <1>0, <1>7, <2>1, CountedSame DEF WorkerCrash, history
<1> QED BY <1>1, <1>2, <1>3, <1>4, <1>5, <1>6, <1>7 DEF AnalyzeContent

LEMMA CountedOfBeats ==
  ASSUME TypeOK, TypeOK', NEW r \in Rows, Counted(r),
         NEW b \in Beats, RecoverPending(b) \/ BeatCrash(b)
  PROVE  Counted(r)'
<1>1. Preparing(r)' = Preparing(r) /\ calls' = calls
  BY DEF Preparing, RecoverPending, LeaseRecoverable, EnqueueRecovered,
         BeatCrash, workers, history
<1>2. CASE LeaseRecoverable(b)
  <2> DEFINE new == [row[r] EXCEPT !.status = "PENDING", !.lease = "live",
                                   !.fresh = TRUE]
  <2>n. new.attempts = row[r].attempts /\ new.status = "PENDING"
    BY DEF TypeOK, Row
  <2>e. row'[r] = IF Recoverable(r) THEN new ELSE row[r]
    BY <1>2 DEF LeaseRecoverable
  <2> HIDE DEF new
  <2>1. row'[r].attempts = row[r].attempts
    BY <2>n, <2>e
  <2>2. CASE Recoverable(r) /\ row[r].status = "RUNNING"
    <3>1. row'[r].status = "PENDING" /\ recovered'[r] = recovered[r] + 1
      BY <1>2, <2>2, <2>n, <2>e DEF LeaseRecoverable
    <3>2. row[r].attempts \in Nat /\ recovered[r] \in Nat
      BY DEF TypeOK, Row
    <3>3. row'[r].attempts <= MostAttempts(r)'
      BY <2>1, <2>2, <3>1, <3>2 DEF Counted, MostAttempts, MaxFailures
    <3> QED BY <1>1, <2>1, <3>3, FewerKeepCounted
  <2>3. CASE ~(Recoverable(r) /\ row[r].status = "RUNNING")
    <3>1. recovered'[r] = recovered[r]
      BY <1>2, <2>3 DEF LeaseRecoverable
    <3>2. row'[r].status = row[r].status
      BY <2>3, <2>n, <2>e DEF Recoverable, Dispatchable
    <3> QED BY <1>1, <2>1, <3>1, <3>2, CountedSame
  <2> QED BY <2>2, <2>3
<1>3. row' = row /\ recovered' = recovered => Counted(r)'
  BY <1>1, CountedSame
<1> QED BY <1>2, <1>3 DEF RecoverPending, EnqueueRecovered, BeatCrash, history

LEMMA CountedOfTime ==
  ASSUME TypeOK, TypeOK', NEW r \in Rows, Counted(r), NEW x \in Rows,
         TimePasses(x)
  PROVE  Counted(r)'
<1>1. /\ Preparing(r)' = Preparing(r) /\ calls' = calls
      /\ recovered' = recovered
  BY DEF Preparing, TimePasses, BackoffPasses, LeaseExpires, GoesStale,
         workers, history
<1> QED BY <1>1, TimeRow, CountedSame

CountInv == Undisturbed("overlap") => \A r \in Rows : Counted(r)

LEMMA CountInit == Init => CountInv
<1> SUFFICES ASSUME Init, NEW r \in Rows PROVE Counted(r)
  BY DEF CountInv
<1>1. Preparing(r) = {}
  BY DEF Init, Preparing
<1>2. row[r] = NothingSeen /\ calls[r] = 0 /\ recovered[r] = 0
  BY DEF Init
<1>3. NothingSeen.attempts = 0 /\ NothingSeen.status = "ABSENT"
  BY DEF NothingSeen, NewRow
<1>4. IsFiniteSet(Preparing(r)) /\ Cardinality(Preparing(r)) = 0
  BY <1>1, FS_EmptySet
<1> QED BY <1>2, <1>3, <1>4 DEF Counted, MostAttempts, MaxFailures

LEMMA CountStep == WorkInv /\ CountInv /\ [Next]_vars => CountInv'
<1> SUFFICES ASSUME WorkInv, CountInv, [Next]_vars,
                    Undisturbed("overlap")', NEW r \in Rows
             PROVE  Counted(r)'
  BY DEF CountInv
<1>1. TypeOK /\ Handed /\ OneActive /\ TypeOK'
  BY WorkStep DEF WorkInv
<1>2. CASE UNCHANGED vars
  BY <1>2 DEF CountInv, Counted, Preparing, MostAttempts, Undisturbed, vars
<1>3. CASE Next
  <2>1. Undisturbed("overlap") /\ Counted(r)
    BY <1>1, <1>3, BudgetStep DEF CountInv
  <2> QED BY <1>1, <1>3, <2>1, CountedOfRequests, CountedOfAgents,
             CountedOfWorkers, CountedOfBeats, CountedOfTime DEF Next
<1> QED BY <1>2, <1>3

\* The model is called three times for a row, and once more for every time
\* recovery took it back.
THEOREM CallsAlwaysBounded == Spec => []CallsBounded
<1>1. WorkInv /\ CountInv => CallsBounded
  <2> SUFFICES ASSUME WorkInv, CountInv, Undisturbed("overlap"),
                      NEW r \in Rows
               PROVE  calls[r] <= MaxFailures + recovered[r]
    BY DEF CallsBounded
  <2>1. Counted(r) /\ Cardinality(Preparing(r)) \in Nat
    BY FS_CardinalityType DEF CountInv, Counted
  <2>2. /\ calls[r] \in Nat /\ row[r].attempts \in Nat
        /\ recovered[r] \in Nat
    BY DEF WorkInv, TypeOK, Row
  <2> QED BY <2>1, <2>2 DEF Counted, MostAttempts, MaxFailures
<1>2. Spec => []CountInv
  BY CountInit, CountStep, WorkAlways, PTL DEF Spec
<1> QED BY <1>1, <1>2, WorkAlways, PTL
=============================================================================

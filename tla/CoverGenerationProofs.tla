----------------------- MODULE CoverGenerationProofs -----------------------
(***************************************************************************)
(* Proofs about CoverGeneration, for every number of workers, retries and  *)
(* messages, and every bound on the hazards.                               *)
(***************************************************************************)
EXTENDS CoverGeneration, TLAPS

USE BoundsAssumption, LimitsAssumption

---------------------------------------------------------------------------
(* Rows *)

\* One row is replaced by another.
LEMMA RowChanged ==
  ASSUME attempts \in Seq(AttemptStates),
         NEW n \in DOMAIN attempts, NEW row \in AttemptStates,
         attempts' = [attempts EXCEPT ![n] = row]
  PROVE  /\ attempts' \in Seq(AttemptStates)
         /\ Len(attempts') = Len(attempts)
         /\ DOMAIN attempts' = DOMAIN attempts
         /\ attempts'[n] = row
         /\ \A m \in DOMAIN attempts : m # n => attempts'[m] = attempts[m]
OBVIOUS

\* A row is added.
LEMMA RowAdded ==
  ASSUME attempts \in Seq(AttemptStates),
         attempts' = Append(attempts, NewAttempt)
  PROVE  /\ attempts' \in Seq(AttemptStates)
         /\ Len(attempts') = Len(attempts) + 1
         /\ DOMAIN attempts' = DOMAIN attempts \cup {Len(attempts) + 1}
         /\ Len(attempts) + 1 \notin DOMAIN attempts
         /\ attempts'[Len(attempts) + 1] = NewAttempt
         /\ \A m \in DOMAIN attempts : attempts'[m] = attempts[m]
<1>1. NewAttempt \in AttemptStates
  BY DEF NewAttempt, AttemptStates, ObjectStates, NoObject
<1>2. QED
  BY <1>1

\* What the operators on objects give.
LEMMA ObjectsTyped ==
  ASSUME NEW objects \in [Parts -> ObjectStates]
  PROVE  /\ \A part \in Parts :
              Stored(objects, part) \in [Parts -> ObjectStates]
         /\ \A parts \in SUBSET Parts, state \in {"active", "referenced"} :
              Registered(objects, parts, state) \in [Parts -> ObjectStates]
         /\ Scheduled(objects) \in [Parts -> ObjectStates]
         /\ \A parts : Due(objects, parts) \in [Parts -> ObjectStates]
         /\ Published(objects) \in [Parts -> ObjectStates]
BY DEF Stored, Registered, Scheduled, Due, Published, ObjectStates, Parts

\* What the operators on objects do to one of them.
LEMMA ObjectsEach ==
  ASSUME NEW objects \in [Parts -> ObjectStates], NEW part \in Parts
  PROVE  /\ \A put \in Parts :
              /\ Stored(objects, put)[part].managed = objects[part].managed
              /\ part # put => Stored(objects, put)[part] = objects[part]
         /\ \A parts, state :
              LET new == Registered(objects, parts, state)[part]
              IN  /\ new.stored = objects[part].stored
                  /\ \/ /\ part \in parts /\ objects[part].managed = "none"
                        /\ new.managed = state
                     \/ /\ part \notin parts \/ objects[part].managed # "none"
                        /\ new.managed = objects[part].managed
         /\ LET new == Scheduled(objects)[part]
            IN  /\ new.stored = objects[part].stored
                /\ \/ new.managed = objects[part].managed
                   \/ /\ objects[part].managed \notin {"none", "referenced"}
                      /\ new.managed = "scheduled"
         /\ \A parts : LET new == Due(objects, parts)[part]
                       IN  /\ part \notin parts => new = objects[part]
                           /\ part \in parts
                                => /\ new.managed = "scheduled"
                                   /\ new.stored = objects[part].stored
<1>0. objects[part] \in ObjectStates
  OBVIOUS
<1>1. ASSUME NEW put \in Parts
      PROVE  /\ Stored(objects, put)[part].managed = objects[part].managed
             /\ part # put => Stored(objects, put)[part] = objects[part]
  BY <1>0 DEF Stored, ObjectStates
<1>2. ASSUME NEW parts, NEW state
      PROVE  LET new == Registered(objects, parts, state)[part]
             IN  /\ new.stored = objects[part].stored
                 /\ \/ /\ part \in parts /\ objects[part].managed = "none"
                       /\ new.managed = state
                    \/ /\ part \notin parts \/ objects[part].managed # "none"
                       /\ new.managed = objects[part].managed
  BY <1>0 DEF Registered, ObjectStates
<1>3. LET new == Scheduled(objects)[part]
      IN  /\ new.stored = objects[part].stored
          /\ \/ new.managed = objects[part].managed
             \/ /\ objects[part].managed \notin {"none", "referenced"}
                /\ new.managed = "scheduled"
  BY <1>0 DEF Scheduled, Due, Cleanable, ObjectStates
<1>4. ASSUME NEW parts
      PROVE  LET new == Due(objects, parts)[part]
             IN  /\ part \notin parts => new = objects[part]
                 /\ part \in parts => /\ new.managed = "scheduled"
                                     /\ new.stored = objects[part].stored
  BY <1>0 DEF Due, ObjectStates
<1>5. QED
  BY <1>1, <1>2, <1>3, <1>4

---------------------------------------------------------------------------
(* Types *)

LEMMA MeetTyped ==
  ASSUME met \in [Hazards -> Nat], NEW h \in Hazards, Meet(h)
  PROVE  /\ met' \in [Hazards -> Nat]
         /\ met'[h] > 0
         /\ \A x \in Hazards : met[x] > 0 => met'[x] > 0
BY DEF Meet

\* A hazard that was met stays met.
LEMMA MetTyped ==
  ASSUME met \in [Hazards -> Nat], Next
  PROVE  /\ met' \in [Hazards -> Nat]
         /\ \A x \in Hazards : met[x] > 0 => met'[x] > 0
<1> DEFINE Fine == /\ met' \in [Hazards -> Nat]
                   /\ \A x \in Hazards : met[x] > 0 => met'[x] > 0
<1>m. ASSUME NEW h \in Hazards, Meet(h) PROVE Fine
  BY <1>m, MeetTyped
<1>h. {"conflict", "cancel", "drift", "time", "crash", "step", "provider",
       "put", "half-put", "unregistered", "overlap", "commit", "day"}
        \subseteq Hazards
  BY DEF Hazards
<1>u. met' = met => Fine
  OBVIOUS
<1>t. ASSUME NEW w, NEW refused, Throws(w, refused) PROVE Fine
  BY <1>t, <1>m, <1>h, <1>u DEF Throws
<1>c. ASSUME NEW w, NEW next, Compensate(w, next) PROVE Fine
  BY <1>c, <1>u DEF Compensate
<1>d. ASSUME NEW w, CompensateThrows(w) PROVE Fine
  BY <1>d, <1>t DEF CompensateThrows
<1>p. ASSUME NEW w, NEW part, NEW next, Put(w, part, next) PROVE Fine
  BY <1>p, <1>m, <1>h, <1>u DEF Put
<1> HIDE DEF Fine
<1>1. ASSUME NEW w \in Workers, WorkerStep(w) PROVE Fine
  <2>1. CASE Deliver(w) \/ Claim(w) \/ PreflightFailure(w) \/ Disclose(w)
    BY <2>1, <1>m, <1>h, <1>u, <1>t
       DEF Deliver, Claim, PreflightFailure, Disclose
  <2>2. CASE ProviderAnswers(w) \/ RecordProviderFailure(w) \/ Compose(w)
    BY <2>2, <1>m, <1>h, <1>u, <1>t
       DEF ProviderAnswers, RecordProviderFailure, Compose
  <2>3. CASE PutLayer(w) \/ RegisterLayer(w) \/ PutFinal(w) \/ Publish(w)
    BY <2>3, <1>m, <1>h, <1>u, <1>t, <1>p
       DEF PutLayer, RegisterLayer, PutFinal, Publish
  <2>4. CASE \/ RegisterKeys(w) \/ CompensatePut(w) \/ CompensateRun(w)
             \/ ObjectFailure(w) \/ ExecutionFailure(w)
    BY <2>4, <1>m, <1>h, <1>u, <1>t, <1>c, <1>d
       DEF RegisterKeys, CompensatePut, CompensateRun, ObjectFailure,
           ExecutionFailure
  <2>5. QED
    BY <1>1, <2>1, <2>2, <2>3, <2>4 DEF WorkerStep
<1>2. ASSUME World PROVE Fine
  BY <1>2, <1>m, <1>h, <1>u
     DEF World, Cancel, CancelCommits, Retry, RequestAgain, Drift,
         LeaseEnds, Clean, Crash
<1>3. QED
  BY <1>1, <1>2 DEF Next, Fine

\* The run's row.
LEMMA RunTyped ==
  ASSUME run \in RunStates, attempts \in Seq(AttemptStates), Next
  PROVE  run' \in RunStates
<1>r. ASSUME NEW status \in Ended \cup {"queued", "working"},
             NEW claim \in Nat, NEW late \in BOOLEAN, NEW retries \in Nat
      PROVE  /\ [run EXCEPT !.status = status] \in RunStates
             /\ [run EXCEPT !.late = late] \in RunStates
             /\ [run EXCEPT !.status = status, !.claim = claim,
                            !.late = late] \in RunStates
             /\ [run EXCEPT !.status = status, !.claim = claim,
                            !.late = late, !.retries = retries]
                  \in RunStates
  BY DEF RunStates
<1>e. ASSUME NEW status \in Ended, Ends(status) PROVE run' \in RunStates
  BY <1>e DEF Ends, RunStates, NoClaim
<1>s. {"succeeded", "failed", "cancelled", "unknown", "compensation"}
        = Ended
  BY DEF Ended
<1>c. ASSUME NEW w, NEW next, Compensate(w, next) PROVE run' \in RunStates
  BY <1>c, <1>e, <1>s DEF Compensate
<1>1. ASSUME NEW w \in Workers, WorkerStep(w) PROVE run' \in RunStates
  <2>0. /\ [run EXCEPT !.status = "failed"] \in RunStates
        /\ [run EXCEPT !.status = "working", !.claim = Len(attempts) + 1,
                       !.late = FALSE] \in RunStates
    <3>1. Len(attempts) + 1 \in Nat
      OBVIOUS
    <3>2. {"failed", "working"} \subseteq Ended \cup {"queued", "working"}
      BY DEF Ended
    <3>3. QED
      BY <1>r, <3>1, <3>2
  <2>1. CASE Deliver(w) \/ Claim(w) \/ PreflightFailure(w)
    BY <2>0, <2>1 DEF Deliver, Claim, PreflightFailure, Invalidated
  <2>2. CASE \/ Disclose(w) \/ ProviderAnswers(w) \/ Compose(w)
             \/ PutLayer(w) \/ RegisterLayer(w) \/ PutFinal(w)
             \/ RegisterKeys(w)
    BY <2>2 DEF Disclose, ProviderAnswers, Compose, PutLayer,
                RegisterLayer, PutFinal, RegisterKeys, Raises
  <2>3. CASE RecordProviderFailure(w) \/ Publish(w)
    BY <2>3, <1>e, <1>s DEF RecordProviderFailure, Publish, Raises
  <2>4. CASE \/ CompensatePut(w) \/ CompensateRun(w)
             \/ ObjectFailure(w) \/ ExecutionFailure(w)
    BY <2>4, <1>e, <1>c, <1>s
       DEF CompensatePut, CompensateRun, ObjectFailure, ExecutionFailure,
           Raises, CompensateThrows
  <2>5. QED
    BY <1>1, <2>1, <2>2, <2>3, <2>4 DEF WorkerStep
<1>2. ASSUME World PROVE run' \in RunStates
  <2>1. CASE CancelCommits
    BY <2>1, <1>e, <1>s DEF CancelCommits
  <2>2. CASE Retry \/ LeaseEnds
    <3>0. run.retries + 1 \in Nat
      BY DEF RunStates
    <3>1. /\ [run EXCEPT !.late = TRUE] \in RunStates
          /\ [run EXCEPT !.status = "queued", !.claim = NoClaim,
                         !.late = FALSE, !.retries = run.retries + 1]
               \in RunStates
      BY <1>r, <3>0 DEF NoClaim
    <3>2. QED
      BY <2>2, <3>1 DEF Retry, LeaseEnds
  <2>3. CASE ~CancelCommits /\ ~Retry /\ ~LeaseEnds
    BY <1>2, <2>3 DEF World, Cancel, RequestAgain, Drift, Clean, Crash
  <2>4. QED
    BY <2>1, <2>2, <2>3
<1>3. QED
  BY <1>1, <1>2 DEF Next

\* What a step of a worker does to the rows: at most its own is replaced.
RowStep(w) ==
  \/ attempts' = attempts
  \/ /\ worker[w].attempt \in DOMAIN attempts
     /\ \E row \in AttemptStates :
          attempts' = [attempts EXCEPT ![worker[w].attempt] = row]

LEMMA WorkerRows ==
  ASSUME TypeOK, NEW w \in Workers, WorkerStep(w)
  PROVE  \/ RowStep(w)
         \/ /\ Claim(w) /\ run.status = "queued"
            /\ run'.status = "working" /\ run'.retries = run.retries
            /\ attempts' = Append(attempts, NewAttempt)
<1> DEFINE n == worker[w].attempt
           row == attempts[n]
<1>0. /\ attempts \in Seq(AttemptStates)
      /\ worker[w] \in WorkerStates
      /\ worker[w].pc \notin {"idle", "received", "refused"}
           => n \in DOMAIN attempts
  BY DEF TypeOK
<1>1. n \in DOMAIN attempts
        => /\ row \in AttemptStates
           /\ row.objects \in [Parts -> ObjectStates]
           /\ row.status \in Ended \cup {"working"}
           /\ row.calls \in Nat
  <2>1. n \in DOMAIN attempts => attempts[n] \in AttemptStates
    BY <1>0
  <2>2. QED
    BY <2>1 DEF AttemptStates
<1>o. ASSUME n \in DOMAIN attempts,
             NEW objects \in [Parts -> ObjectStates],
             attempts' = [attempts EXCEPT ![n].objects = objects]
      PROVE  RowStep(w)
  <2>1. [row EXCEPT !.objects = objects] \in AttemptStates
    BY <1>1, <1>o DEF AttemptStates
  <2>2. QED
    BY <1>0, <1>o, <2>1 DEF RowStep
<1>s. ASSUME n \in DOMAIN attempts, NEW status \in Ended \cup {"working"},
             attempts' = [attempts EXCEPT ![n].status = status]
      PROVE  RowStep(w)
  <2>1. [row EXCEPT !.status = status] \in AttemptStates
    BY <1>1, <1>s DEF AttemptStates
  <2>2. QED
    BY <1>0, <1>s, <2>1 DEF RowStep
<1>e. Ended = {"succeeded", "failed", "cancelled", "unknown",
               "compensation"}
  BY DEF Ended
<1>p. {"layer", "final"} \subseteq Parts /\ {"layer"} \subseteq Parts
  BY DEF Parts
<1>k. worker[w].keys \in SUBSET Parts
  BY <1>0 DEF WorkerStates
<1> HIDE DEF n, row
<1>2. CASE Deliver(w) \/ PreflightFailure(w)
  BY <1>2 DEF Deliver, PreflightFailure, RowStep
<1>3. CASE Claim(w)
  BY <1>3 DEF Claim, RowStep, Claimable, TypeOK, RunStates
<1>4. CASE Disclose(w)
  <2>1. CASE attempts' = attempts
    BY <2>1 DEF RowStep
  <2>2. CASE attempts' = [attempts EXCEPT ![n].calls = @ + 1]
    <3>1. n \in DOMAIN attempts
      BY <1>0, <1>4 DEF Disclose
    <3>2. [row EXCEPT !.calls = @ + 1] \in AttemptStates
      BY <1>1, <3>1 DEF AttemptStates
    <3>3. QED
      BY <1>0, <2>2, <3>1, <3>2 DEF RowStep, n, row
  <2>3. QED
    BY <1>4, <2>1, <2>2 DEF Disclose, Raises, n
<1>5. CASE ProviderAnswers(w) \/ Compose(w)
  BY <1>5 DEF ProviderAnswers, Compose, Raises, RowStep
<1>6. CASE RecordProviderFailure(w)
  BY <1>6, <1>0, <1>s, <1>e
     DEF RecordProviderFailure, AttemptEnds, Raises, RowStep, n
<1>w. ASSUME NEW part \in Parts, NEW next, Put(w, part, next),
             n \in DOMAIN attempts
      PROVE  RowStep(w)
  <2>1. CASE attempts' = attempts
    BY <2>1 DEF RowStep
  <2>2. CASE attempts' = [attempts EXCEPT ![n].objects = Stored(@, part)]
    BY <2>2, <1>w, <1>o, <1>1, ObjectsTyped DEF row
  <2>3. QED
    BY <1>w, <2>1, <2>2 DEF Put, n
<1>7. CASE PutLayer(w) \/ PutFinal(w)
  BY <1>7, <1>0, <1>w, <1>p DEF PutLayer, PutFinal, Raises, RowStep
<1>8. CASE RegisterLayer(w)
  <2>1. CASE attempts' = attempts
    BY <2>1 DEF RowStep
  <2>2. CASE attempts' = [attempts EXCEPT ![n].objects =
                            Registered(@, {"layer"}, "active")]
    BY <2>2, <1>8, <1>0, <1>o, <1>1, <1>p, ObjectsTyped
       DEF row, RegisterLayer
  <2>3. QED
    BY <1>8, <2>1, <2>2 DEF RegisterLayer, Raises, n
<1>9. CASE Publish(w)
  <2>1. CASE attempts' = attempts
    BY <2>1 DEF RowStep
  <2>2. CASE attempts' = [attempts EXCEPT ![n].status = "succeeded",
                                          ![n].objects = Published(@)]
    <3>1. n \in DOMAIN attempts
      BY <1>0, <1>9 DEF Publish
    <3>2. [row EXCEPT !.status = "succeeded",
                      !.objects = Published(row.objects)] \in AttemptStates
      BY <1>1, <3>1, <1>e, ObjectsTyped DEF AttemptStates
    <3>3. QED
      BY <1>0, <2>2, <3>1, <3>2 DEF RowStep, n, row
  <2>3. QED
    BY <1>9, <2>1, <2>2 DEF Publish, Raises, n
<1>10. CASE RegisterKeys(w)
  <2>1. CASE attempts' = attempts
    BY <2>1 DEF RowStep
  <2>2. CASE attempts' = [attempts EXCEPT ![n].objects =
                            Registered(@, worker[w].keys, "active")]
    BY <2>2, <1>10, <1>0, <1>o, <1>1, <1>k, ObjectsTyped
       DEF row, RegisterKeys
  <2>3. QED
    BY <1>10, <2>1, <2>2 DEF RegisterKeys, n
<1>c. ASSUME NEW next, Compensate(w, next), n \in DOMAIN attempts
      PROVE  RowStep(w)
  <2>1. CASE run.status = "cancelled"
    <3>1. attempts' = [attempts EXCEPT ![n].objects =
                         Scheduled(row.objects)]
      BY <1>c, <2>1 DEF Compensate, n, row
    <3>2. QED
      BY <3>1, <1>c, <1>o, <1>1, ObjectsTyped
  <2>2. CASE run.status # "cancelled"
    <3> DEFINE status == IF \/ worker[w].keys = {}
                            \/ row.status \in {"succeeded", "cancelled"}
                         THEN row.status ELSE "compensation"
    <3>1. attempts' = [attempts EXCEPT ![n].status = status]
      BY <1>c, <2>2 DEF Compensate, n, row
    <3>2. status \in Ended \cup {"working"}
      BY <1>1, <1>c, <1>e
    <3>3. QED
      BY <3>1, <3>2, <1>c, <1>s
  <2>3. QED
    BY <2>1, <2>2
<1>11. CASE CompensatePut(w) \/ CompensateRun(w)
  BY <1>11, <1>0, <1>c
     DEF CompensatePut, CompensateRun, CompensateThrows, RowStep
<1>12. CASE ObjectFailure(w) \/ ExecutionFailure(w)
  BY <1>12, <1>0, <1>s, <1>e
     DEF ObjectFailure, ExecutionFailure, AttemptEnds, Raises, RowStep, n
<1>13. QED
  BY <1>2, <1>3, <1>4, <1>5, <1>6, <1>7, <1>8, <1>9, <1>10, <1>11, <1>12
     DEF WorkerStep

\* What a step does to the workers: only its own goes on, and for another
\* attempt only by a claim.
Early == {"idle", "received", "refused"}

LEMMA WorkerSteps ==
  ASSUME TypeOK, NEW w \in Workers, WorkerStep(w) \/ Crash(w)
  PROVE  /\ worker' \in [Workers -> WorkerStates]
         /\ \A v \in Workers : v # w => worker'[v] = worker[v]
         /\ \/ worker'[w] = worker[w] /\ Deliver(w)
            \/ worker'[w].pc \in Early /\ worker'[w].attempt = 0
            \/ /\ worker[w].pc \notin Early
               /\ worker'[w].pc \notin Early \cup {"claimed"}
               /\ worker'[w].attempt = worker[w].attempt
            \/ /\ Claim(w) /\ worker'[w].pc = "claimed"
               /\ worker'[w].attempt = Len(attempts) + 1
               /\ attempts' = Append(attempts, NewAttempt)
<1> DEFINE Fine ==
      /\ worker' \in [Workers -> WorkerStates]
      /\ \A v \in Workers : v # w => worker'[v] = worker[v]
      /\ \/ worker'[w] = worker[w] /\ Deliver(w)
         \/ worker'[w].pc \in Early /\ worker'[w].attempt = 0
         \/ /\ worker[w].pc \notin Early
            /\ worker'[w].pc \notin Early \cup {"claimed"}
            /\ worker'[w].attempt = worker[w].attempt
         \/ /\ Claim(w) /\ worker'[w].pc = "claimed"
            /\ worker'[w].attempt = Len(attempts) + 1
            /\ attempts' = Append(attempts, NewAttempt)
<1>0. /\ worker \in [Workers -> WorkerStates]
      /\ worker[w] \in WorkerStates
      /\ worker[w].pc \in Early => worker[w].attempt = 0
  BY DEF TypeOK, Early
<1> DEFINE Pcs == {"claimed", "called", "erred", "drawn", "stored",
                   "composing", "scanned", "publishing", "put-failed",
                   "put-known", "put-settled", "failing", "known",
                   "closing"}
<1>g. ASSUME NEW pc \in Pcs \ {"claimed"}, Goes(w, pc),
             worker[w].pc \in Pcs
      PROVE  Fine
  BY <1>0, <1>g DEF Goes, WorkerStates, Early
<1>s. ASSUME Stops(w) PROVE Fine
  <2>1. IdleWorker \in WorkerStates
    BY DEF IdleWorker, WorkerStates
  <2>2. QED
    BY <1>0, <1>s, <2>1 DEF Stops, IdleWorker, Early
<1>e. ASSUME NEW pc \in {"received", "refused"}, Goes(w, pc),
             worker[w].pc \in Early
      PROVE  Fine
  BY <1>0, <1>e DEF Goes, WorkerStates, Early
<1>p. ASSUME NEW part \in Parts, NEW pc \in Pcs \ {"claimed"},
             Put(w, part, pc), worker[w].pc \in Pcs
      PROVE  Fine
  <2>1. CASE worker' = [worker EXCEPT ![w].pc = pc,
                                      ![w].keys = Counted(w, part)]
    BY <1>0, <1>p, <2>1 DEF Counted, WorkerStates, Early
  <2>2. CASE Goes(w, "put-failed")
    BY <1>g, <1>p, <2>2
  <2>3. QED
    BY <1>p, <2>1, <2>2 DEF Put
<1>c. ASSUME NEW pc \in Pcs \ {"claimed"}, Compensate(w, pc),
             worker[w].pc \in Pcs
      PROVE  Fine
  BY <1>c, <1>g DEF Compensate
<1>1. ASSUME Deliver(w) PROVE Fine
  <2>1. CASE worker' = worker
    BY <1>0, <1>1, <2>1
  <2>2. CASE Goes(w, "received")
    BY <1>1, <1>e, <2>2 DEF Deliver, Early
  <2>3. QED
    BY <1>1, <2>1, <2>2 DEF Deliver
<1>2. ASSUME Claim(w) PROVE Fine
  <2>1. CASE /\ worker' = [worker EXCEPT ![w].pc = "claimed",
                                         ![w].attempt = Len(attempts) + 1]
             /\ attempts' = Append(attempts, NewAttempt)
    <3>1. Len(attempts) + 1 \in Nat
      BY DEF TypeOK
    <3>2. QED
      BY <1>0, <1>2, <2>1, <3>1 DEF WorkerStates
  <2>2. CASE Goes(w, "refused")
    BY <1>2, <1>e, <2>2 DEF Claim, Early
  <2>3. QED
    BY <1>2, <2>1, <2>2 DEF Claim
<1>3. ASSUME PreflightFailure(w) \/ ExecutionFailure(w) \/ Crash(w)
      PROVE  Fine
  BY <1>3, <1>s DEF PreflightFailure, ExecutionFailure, Crash
<1> HIDE DEF Fine
<1>4. ASSUME Disclose(w) PROVE Fine
  BY <1>4, <1>g, <1>s DEF Disclose, Raises
<1>5. ASSUME ProviderAnswers(w) PROVE Fine
  BY <1>5, <1>g DEF ProviderAnswers, Raises
<1>6. ASSUME RecordProviderFailure(w) PROVE Fine
  BY <1>6, <1>g, <1>s DEF RecordProviderFailure, Raises
<1>7. ASSUME PutLayer(w) PROVE Fine
  BY <1>7, <1>p DEF PutLayer, Parts
<1>8. ASSUME RegisterLayer(w) \/ Compose(w) PROVE Fine
  BY <1>8, <1>g DEF RegisterLayer, Compose, Raises
<1>9. ASSUME PutFinal(w) PROVE Fine
  BY <1>9, <1>p, <1>g DEF PutFinal, Parts, Raises
<1>10. ASSUME Publish(w) PROVE Fine
  BY <1>10, <1>g, <1>s DEF Publish, Raises
<1>11. ASSUME RegisterKeys(w) PROVE Fine
  BY <1>11, <1>g DEF RegisterKeys
<1>12. ASSUME CompensatePut(w) \/ CompensateRun(w) PROVE Fine
  BY <1>12, <1>g, <1>s, <1>c
     DEF CompensatePut, CompensateRun, CompensateThrows
<1>13. ASSUME ObjectFailure(w) PROVE Fine
  BY <1>13, <1>g DEF ObjectFailure, Raises
<1>14. QED
  BY <1>1, <1>2, <1>3, <1>4, <1>5, <1>6, <1>7, <1>8, <1>9, <1>10, <1>11,
     <1>12, <1>13 DEF WorkerStep, Fine

\* What a step of a worker does to the run, and to who has read it.
RunStep(w) ==
  \/ /\ run' = run
     /\ \/ stale' = stale
        \/ stale' = stale \ {w}
        \/ Current(w) /\ Changes(w)
  \/ /\ run' = [run EXCEPT !.status = run'.status, !.claim = run'.claim,
                           !.late = run'.late]
     /\ run'.status \in Ended
     /\ \/ run'.claim = NoClaim /\ run'.late = FALSE
        \/ run'.claim = run.claim /\ run'.late = run.late
     /\ run.status = "succeeded"
          => \/ run'.status = "succeeded" \/ drifted
             \/ worker[w].pc = "put-settled"
     /\ Changes(w)
  \/ /\ Claim(w) /\ run.status = "queued"
     /\ run' = [run EXCEPT !.status = "working", !.late = FALSE,
                           !.claim = Len(attempts) + 1]
     /\ attempts' = Append(attempts, NewAttempt)
     /\ worker' = [worker EXCEPT ![w].pc = "claimed",
                                 ![w].attempt = Len(attempts) + 1]
     /\ Changes(w)

LEMMA RunSteps ==
  ASSUME TypeOK, NEW w \in Workers, WorkerStep(w)
  PROVE  RunStep(w)
<1>0. run \in RunStates
  BY DEF TypeOK
<1>k. ASSUME run' = run,
             stale' = stale \/ Keeps(w) \/ (Current(w) /\ Changes(w))
      PROVE  RunStep(w)
  BY <1>k DEF Keeps, Changes, RunStep
<1>r. ASSUME Raises(w) PROVE RunStep(w)
  BY <1>r, <1>k DEF Raises
<1>e. ASSUME NEW status \in Ended, Ends(status), Changes(w),
             \/ run.status # "succeeded"
             \/ worker[w].pc = "put-settled"
      PROVE  RunStep(w)
  BY <1>0, <1>e DEF Ends, Changes, RunStep, RunStates
<1>f. ASSUME run' = [run EXCEPT !.status = "failed"], Changes(w),
             run.status = "queued" \/ drifted
      PROVE  RunStep(w)
  BY <1>0, <1>f DEF Changes, RunStep, RunStates, Ended
<1>n. {"succeeded", "failed", "cancelled", "unknown", "compensation"}
        = Ended
  BY DEF Ended
<1>u. Current(w) => run.status # "succeeded"
  BY DEF Current, Ended
<1>c. ASSUME NEW pc, Compensate(w, pc) PROVE RunStep(w)
  BY <1>c, <1>e, <1>k, <1>n DEF Compensate, Compensable
<1>d. ASSUME CompensateThrows(w) PROVE RunStep(w)
  BY <1>d, <1>k DEF CompensateThrows
<1>1. CASE Deliver(w)
  BY <1>1, <1>k, <1>f DEF Deliver, Invalidated
<1>2. CASE Claim(w)
  BY <1>2, <1>k DEF Claim, Claimable, Changes, RunStep
<1>3. CASE PreflightFailure(w)
  BY <1>3, <1>k, <1>f DEF PreflightFailure
<1>4. CASE Disclose(w)
  BY <1>4, <1>k, <1>r DEF Disclose
<1>5. CASE ProviderAnswers(w) \/ Compose(w)
  BY <1>5, <1>k, <1>r DEF ProviderAnswers, Compose
<1>6. CASE RecordProviderFailure(w)
  BY <1>6, <1>k, <1>r, <1>e, <1>n, <1>u DEF RecordProviderFailure
<1>7. CASE PutLayer(w) \/ PutFinal(w)
  BY <1>7, <1>k, <1>r DEF PutLayer, PutFinal
<1>8. CASE RegisterLayer(w) \/ RegisterKeys(w)
  BY <1>8, <1>k, <1>r DEF RegisterLayer, RegisterKeys
<1>9. CASE Publish(w)
  BY <1>9, <1>r, <1>e, <1>n, <1>u DEF Publish
<1>10. CASE CompensatePut(w) \/ CompensateRun(w)
  BY <1>10, <1>c, <1>d DEF CompensatePut, CompensateRun
<1>11. CASE ObjectFailure(w)
  BY <1>11, <1>r, <1>e, <1>n DEF ObjectFailure
<1>12. CASE ExecutionFailure(w)
  BY <1>12, <1>k, <1>e, <1>n DEF ExecutionFailure, Closes
<1>13. QED
  BY <1>1, <1>2, <1>3, <1>4, <1>5, <1>6, <1>7, <1>8, <1>9, <1>10, <1>11,
     <1>12 DEF WorkerStep

\* What the world does to the rows of the attempts.
LEMMA WorldRows ==
  ASSUME TypeOK, World
  PROVE  /\ attempts' \in Seq(AttemptStates)
         /\ Len(attempts') = Len(attempts)
         /\ DOMAIN attempts' = DOMAIN attempts
<1> DEFINE Fine == /\ attempts' \in Seq(AttemptStates)
                   /\ Len(attempts') = Len(attempts)
                   /\ DOMAIN attempts' = DOMAIN attempts
<1>0. attempts \in Seq(AttemptStates)
  BY DEF TypeOK
<1>u. attempts' = attempts => Fine
  BY <1>0
<1>r. ASSUME NEW n \in DOMAIN attempts, NEW row \in AttemptStates,
             attempts' = [attempts EXCEPT ![n] = row]
      PROVE  Fine
  BY <1>0, <1>r, RowChanged
<1> HIDE DEF Fine
<1>1. ASSUME CancelCommits PROVE Fine
  <2> DEFINE n == Len(attempts)
             row == attempts[n]
  <2>1. CASE attempts' = attempts
    BY <2>1, <1>u
  <2>2. CASE /\ n # 0
             /\ attempts' = [attempts EXCEPT ![n].status = "cancelled",
                          ![n].objects = Due(@, cancelling.parts)]
    <3>1. n \in DOMAIN attempts
      BY <1>0, <2>2
    <3>2. row \in AttemptStates
      BY <1>0, <3>1
    <3>3. [row EXCEPT !.status = "cancelled",
                      !.objects = Due(row.objects, cancelling.parts)]
            \in AttemptStates
      BY <3>2, ObjectsTyped DEF AttemptStates, Ended
    <3> HIDE DEF n
    <3>4. attempts' = [attempts EXCEPT ![n] =
            [row EXCEPT !.status = "cancelled",
                        !.objects = Due(row.objects, cancelling.parts)]]
      BY <1>0, <2>2, <3>1
    <3>5. QED
      BY <1>r, <3>1, <3>3, <3>4
  <2>3. QED
    BY <1>1, <2>1, <2>2 DEF CancelCommits
<1>2. ASSUME NEW n \in DOMAIN attempts, NEW part \in Parts, Clean(n, part)
      PROVE  Fine
  <2> DEFINE row == attempts[n]
             gone == [stored |-> FALSE, managed |-> "deleted"]
  <2>1. row \in AttemptStates
    BY <1>0
  <2>2. row.objects \in [Parts -> ObjectStates]
    BY <2>1 DEF AttemptStates
  <2>3. gone \in ObjectStates
    BY DEF ObjectStates
  <2> HIDE DEF gone
  <2>4. [row EXCEPT !.objects = [row.objects EXCEPT ![part] = gone]]
           \in AttemptStates
    BY <2>1, <2>2, <2>3 DEF AttemptStates
  <2>5. attempts' = [attempts EXCEPT ![n] =
          [row EXCEPT !.objects = [row.objects EXCEPT ![part] = gone]]]
    BY <1>0, <1>2 DEF Clean, gone
  <2>6. QED
    BY <1>r, <2>4, <2>5
<1>3. ASSUME NEW w \in Workers, Crash(w) PROVE Fine
  BY <1>3, <1>u DEF Crash
<1>4. ASSUME Cancel \/ Retry \/ RequestAgain \/ Drift \/ LeaseEnds
      PROVE  Fine
  BY <1>4, <1>u DEF Cancel, Retry, RequestAgain, Drift, LeaseEnds
<1>5. QED
  BY <1>1, <1>2, <1>3, <1>4 DEF World, Fine

\* What every step does to the rows of the attempts.
LEMMA StepRows ==
  ASSUME TypeOK, Next
  PROVE  /\ attempts' \in Seq(AttemptStates)
         /\ Len(attempts) <= Len(attempts')
         /\ DOMAIN attempts \subseteq DOMAIN attempts'
<1>0. attempts \in Seq(AttemptStates)
  BY DEF TypeOK
<1>1. ASSUME NEW w \in Workers, RowStep(w)
      PROVE  /\ attempts' \in Seq(AttemptStates)
             /\ Len(attempts') = Len(attempts)
             /\ DOMAIN attempts' = DOMAIN attempts
  BY <1>0, <1>1, RowChanged DEF RowStep
<1>2. CASE \E w \in Workers : WorkerStep(w)
  BY <1>0, <1>1, <1>2, RowAdded, WorkerRows
<1>3. CASE World
  BY <1>0, <1>3, WorldRows
<1>4. QED
  BY <1>2, <1>3 DEF Next

\* The cancel is its own: no worker begins or ends it.
LEMMA CancelLeft ==
  ASSUME NEW w \in Workers, WorkerStep(w)
  PROVE  cancelling' = cancelling
<1>1. CASE \/ Deliver(w) \/ Claim(w) \/ PreflightFailure(w) \/ Disclose(w)
           \/ ProviderAnswers(w) \/ RecordProviderFailure(w) \/ PutLayer(w)
           \/ RegisterLayer(w)
  BY <1>1 DEF Deliver, Claim, PreflightFailure, Disclose, ProviderAnswers,
              RecordProviderFailure, PutLayer, RegisterLayer
<1>2. CASE \/ Compose(w) \/ PutFinal(w) \/ Publish(w) \/ RegisterKeys(w)
           \/ CompensatePut(w) \/ ObjectFailure(w) \/ CompensateRun(w)
           \/ ExecutionFailure(w)
  BY <1>2 DEF Compose, PutFinal, Publish, RegisterKeys, CompensatePut,
              ObjectFailure, CompensateRun, ExecutionFailure
<1> QED BY <1>1, <1>2 DEF WorkerStep

LEMMA TypeStep == TypeOK /\ [Next]_vars => TypeOK'
<1> SUFFICES ASSUME TypeOK, [Next]_vars PROVE TypeOK'
  OBVIOUS
<1>1. CASE UNCHANGED vars
  BY <1>1 DEF TypeOK, vars
<1>2. CASE Next
  <2>0. /\ attempts \in Seq(AttemptStates)
        /\ attempts' \in Seq(AttemptStates)
        /\ Len(attempts) \in Nat /\ Len(attempts') \in Nat
        /\ Len(attempts) <= Len(attempts')
        /\ DOMAIN attempts \subseteq DOMAIN attempts'
    BY <1>2, StepRows DEF TypeOK
  <2>1. run' \in RunStates
    BY <1>2, RunTyped DEF TypeOK
  <2>2. met' \in [Hazards -> Nat]
    BY <1>2, MetTyped DEF TypeOK
  <2>3. run'.claim \in 0..Len(attempts')
    <3>0. run \in RunStates /\ run.claim \in 0..Len(attempts)
      BY DEF TypeOK
    <3>1. ASSUME NEW w \in Workers, WorkerStep(w)
          PROVE  run'.claim \in 0..Len(attempts')
      <4>1. CASE run' = run
        BY <2>0, <3>0, <4>1
      <4>2. CASE run'.claim = NoClaim \/ run'.claim = run.claim
        BY <2>0, <3>0, <4>2 DEF NoClaim
      <4>3. CASE /\ run' = [run EXCEPT !.status = "working",
                                       !.late = FALSE,
                                       !.claim = Len(attempts) + 1]
                 /\ attempts' = Append(attempts, NewAttempt)
        BY <2>0, <3>0, <4>3 DEF RunStates
      <4>4. QED
        BY <3>1, <4>1, <4>2, <4>3, RunSteps DEF RunStep
    <3>2. ASSUME World PROVE run'.claim \in 0..Len(attempts')
      <4>1. CASE CancelCommits
        BY <2>0, <3>0, <4>1 DEF CancelCommits, Ends, NoClaim, RunStates
      <4>2. CASE Retry \/ LeaseEnds
        <5>1. Retry => run'.claim = NoClaim
          BY <3>0 DEF Retry, RunStates
        <5>2. LeaseEnds => run'.claim = run.claim
          BY <3>0 DEF LeaseEnds, RunStates
        <5>3. QED
          BY <2>0, <3>0, <4>2, <5>1, <5>2 DEF NoClaim
      <4>3. CASE run' = run
        BY <2>0, <3>0, <4>3
      <4>4. QED
        BY <3>2, <4>1, <4>2, <4>3
           DEF World, Cancel, RequestAgain, Drift, Clean, Crash
    <3>3. QED
      BY <1>2, <3>1, <3>2 DEF Next
  <2>4. /\ worker' \in [Workers -> WorkerStates]
        /\ \A v \in Workers :
             worker'[v].attempt \in
               IF worker'[v].pc \in Early THEN {0} ELSE DOMAIN attempts'
    <3>0. /\ worker \in [Workers -> WorkerStates]
          /\ \A v \in Workers :
               worker[v].attempt \in
                 IF worker[v].pc \in Early THEN {0} ELSE DOMAIN attempts
      BY DEF TypeOK, Early
    <3>1. ASSUME NEW w \in Workers, WorkerStep(w) \/ Crash(w)
          PROVE  worker'[w].attempt \in
                   IF worker'[w].pc \in Early THEN {0} ELSE DOMAIN attempts'
      <4>1. CASE worker'[w] = worker[w]
        BY <2>0, <3>0, <4>1
      <4>2. CASE worker'[w].pc \in Early /\ worker'[w].attempt = 0
        BY <4>2
      <4>3. CASE /\ worker[w].pc \notin Early
                 /\ worker'[w].pc \notin Early \cup {"claimed"}
                 /\ worker'[w].attempt = worker[w].attempt
        BY <2>0, <3>0, <4>3
      <4>4. CASE /\ worker'[w].pc = "claimed"
                 /\ worker'[w].attempt = Len(attempts) + 1
                 /\ attempts' = Append(attempts, NewAttempt)
        BY <2>0, <4>4, RowAdded DEF Early
      <4>5. QED
        BY <3>1, <4>1, <4>2, <4>3, <4>4, WorkerSteps
    <3>2. ASSUME NEW w \in Workers, WorkerStep(w) \/ Crash(w)
          PROVE  /\ worker' \in [Workers -> WorkerStates]
                 /\ \A v \in Workers :
                      worker'[v].attempt \in
                        IF worker'[v].pc \in Early THEN {0}
                        ELSE DOMAIN attempts'
      BY <2>0, <3>0, <3>1, <3>2, WorkerSteps
    <3>3. CASE worker' = worker
      BY <2>0, <3>0, <3>3
    <3>4. QED
      BY <1>2, <3>2, <3>3
         DEF Next, World, Cancel, CancelCommits, Retry, RequestAgain, Drift,
             LeaseEnds,
             Clean
  <2>5. stale' \subseteq Workers
    <3>0. stale \subseteq Workers
      BY DEF TypeOK
    <3>1. ASSUME NEW w \in Workers, WorkerStep(w)
          PROVE  stale' \subseteq Workers
      BY <3>0, <3>1, RunSteps DEF RunStep, Changes, AtWork
    <3>2. CASE World
      BY <3>0, <3>2 DEF World, Cancel, CancelCommits, Retry, RequestAgain,
                        Drift,
                        LeaseEnds, Clean, Crash, Keeps, AtWork
    <3>3. QED
      BY <1>2, <3>1, <3>2 DEF Next
  <2>6. messages' \in Nat /\ drifted' \in BOOLEAN
    <3>0. messages \in Nat /\ drifted \in BOOLEAN
      BY DEF TypeOK
    <3>1. ASSUME NEW w \in Workers, WorkerStep(w)
          PROVE  /\ messages' \in {messages, messages - 1}
                 /\ messages' # messages => messages > 0
                 /\ drifted' = drifted
      BY <3>1 DEF WorkerStep, Deliver, Claim, PreflightFailure, Disclose,
                  ProviderAnswers, RecordProviderFailure, PutLayer,
                  RegisterLayer, Compose, PutFinal, Publish, RegisterKeys,
                  CompensatePut, ObjectFailure, CompensateRun,
                  ExecutionFailure
    <3>2. ASSUME World
          PROVE  /\ messages' = messages \/ messages' = messages + 1
                 /\ drifted' = drifted \/ drifted' = TRUE
      <4>1. CASE Drift
        BY <4>1 DEF Drift
      <4>2. CASE RequestAgain
        BY <4>2 DEF RequestAgain
      <4>3. CASE ~Drift /\ ~RequestAgain
        BY <3>2, <4>3 DEF World, Cancel, CancelCommits, Retry, LeaseEnds,
                          Clean, Crash
      <4>4. QED
        BY <4>1, <4>2, <4>3
    <3>m. messages \in Nat /\ 0 \in Nat
      BY <3>0
    <3>3. messages' \in Nat
      <4>1. ASSUME NEW w \in Workers, WorkerStep(w) PROVE messages' \in Nat
        <5>1. /\ messages' \in {messages, messages - 1}
              /\ messages' # messages => messages > 0
          BY <3>1, <4>1
        <5>2. QED
          BY <3>m, <5>1
      <4>2. ASSUME World PROVE messages' \in Nat
        <5>1. messages' = messages \/ messages' = messages + 1
          BY <3>2, <4>2
        <5>2. QED
          BY <3>m, <5>1
      <4>3. QED
        BY <1>2, <4>1, <4>2 DEF Next
    <3>4. drifted' \in BOOLEAN
      BY <1>2, <3>0, <3>1, <3>2, Zenon DEF Next
    <3>5. QED
      BY <3>3, <3>4
  <2>7. cancelling' \in [open: BOOLEAN, parts: SUBSET Parts]
    <3>1. ASSUME NEW w \in Workers, WorkerStep(w)
          PROVE  cancelling' = cancelling
      BY <3>1, CancelLeft
    <3>2. CASE Cancel \/ CancelCommits
      <4> DEFINE found == IF Len(attempts) = 0 THEN {}
                          ELSE Cleanable(attempts[Len(attempts)].objects)
      <4>1. found \in SUBSET Parts
        BY DEF Cleanable
      <4> HIDE DEF found
      <4>2. Cancel => cancelling' = [open |-> TRUE, parts |-> found]
        BY Zenon DEF Cancel, found
      <4>3. CancelCommits => cancelling' = [open |-> FALSE, parts |-> {}]
        BY DEF CancelCommits, NoCancel
      <4>4. ASSUME NEW open \in BOOLEAN, NEW parts \in SUBSET Parts
            PROVE  [open |-> open, parts |-> parts]
                     \in [open: BOOLEAN, parts: SUBSET Parts]
        OBVIOUS
      <4>5. TRUE \in BOOLEAN /\ FALSE \in BOOLEAN /\ {} \in SUBSET Parts
        OBVIOUS
      <4>6. /\ [open |-> TRUE, parts |-> found]
                 \in [open: BOOLEAN, parts: SUBSET Parts]
            /\ [open |-> FALSE, parts |-> {}]
                 \in [open: BOOLEAN, parts: SUBSET Parts]
        BY <4>1, <4>4, <4>5
      <4> QED BY <3>2, <4>2, <4>3, <4>6, Zenon
    <3>3. CASE World /\ ~Cancel /\ ~CancelCommits
      BY <3>3 DEF World, Retry, RequestAgain, Drift, LeaseEnds, Clean, Crash,
                  TypeOK
    <3>4. QED
      BY <1>2, <3>1, <3>2, <3>3 DEF Next, TypeOK
  <2>8. QED
    BY <2>1, <2>0, <2>2, <2>3, <2>4, <2>5, <2>6, <2>7 DEF TypeOK, Early
<1>3. QED
  BY <1>1, <1>2

LEMMA TypeInit == Init => TypeOK
<1> SUFFICES ASSUME Init PROVE TypeOK
  OBVIOUS
<1>0. {FALSE} \subseteq BOOLEAN
  OBVIOUS
<1>1. run \in RunStates /\ run.claim = 0
  <2>1. /\ run = [visual |-> run.visual, refused |-> run.refused,
                  status |-> run.status, claim |-> run.claim,
                  late |-> run.late, retries |-> run.retries]
        /\ run.visual \in BOOLEAN /\ run.refused \in BOOLEAN
        /\ run.status = "queued"
        /\ run.claim = 0 /\ run.retries = 0
    BY DEF Init, NoClaim
  <2>2. run.late \in {FALSE}
    BY DEF Init
  <2>3. run.late \in BOOLEAN
    BY <1>0, <2>2
  <2>4. ASSUME NEW visual \in BOOLEAN, NEW refused \in BOOLEAN,
               NEW late \in BOOLEAN
        PROVE  [visual |-> visual, refused |-> refused, status |-> "queued",
                claim |-> 0, late |-> late, retries |-> 0] \in RunStates
    BY DEF RunStates
  <2>5. QED
    BY <2>1, <2>3, <2>4
<1>2. attempts \in Seq(AttemptStates) /\ Len(attempts) = 0
  BY DEF Init
<1>3. /\ worker \in [Workers -> WorkerStates]
      /\ \A w \in Workers : worker[w].pc = "idle" /\ worker[w].attempt = 0
  BY DEF Init, WorkerStates, IdleWorker
<1>4. met \in [Hazards -> Nat]
  BY DEF Init
<1>5. stale \subseteq Workers /\ messages \in Nat
  BY DEF Init
<1>6. drifted \in BOOLEAN
  BY DEF Init
<1>7. cancelling \in [open: BOOLEAN, parts: SUBSET Parts]
  BY DEF Init, NoCancel
<1>8. QED
  BY <1>1, <1>2, <1>3, <1>4, <1>5, <1>6, <1>7 DEF TypeOK

\* The rows, the workers and the counters of hazards stay what they are.
THEOREM CoverTypeCorrect == Spec => []TypeOK
<1>1. QED
  BY TypeInit, TypeStep, PTL DEF Spec

---------------------------------------------------------------------------
(* Cancels under way *)

\* While a cancel is to commit nobody changes the run.
LEMMA Locked ==
  ASSUME TypeOK, NEW w \in Workers, WorkerStep(w), cancelling.open
  PROVE  /\ run' = run
         /\ stale' = stale \/ stale' = stale \ {w}
         /\ RowStep(w)
<1>1. run' = run /\ (stale' = stale \/ stale' = stale \ {w})
  BY RunSteps DEF RunStep, Changes
<1>2. RowStep(w)
  BY <1>1, WorkerRows
<1> QED BY <1>1, <1>2

\* What is registered stays so; a cover is registered as referenced when it
\* is published, and not before.
LEMMA StaysKnown ==
  ASSUME TypeOK, NEW w \in Workers, WorkerStep(w), RowStep(w),
         worker[w].attempt \in DOMAIN attempts, NEW part \in Parts,
         attempts[worker[w].attempt].objects[part].managed
           \notin {"none", "referenced"}
  PROVE  attempts'[worker[w].attempt].objects[part].managed
           \notin {"none", "referenced"}
<1> DEFINE n == worker[w].attempt
           old == attempts[n].objects
           new == attempts'[n].objects
           Fine == new[part].managed \notin {"none", "referenced"}
<1> SUFFICES Fine
  OBVIOUS
<1>0. /\ attempts \in Seq(AttemptStates) /\ n \in DOMAIN attempts
      /\ attempts[n] \in AttemptStates /\ n \notin {0, Len(attempts) + 1}
      /\ old \in [Parts -> ObjectStates]
  <2>1. attempts \in Seq(AttemptStates)
    BY DEF TypeOK
  <2>2. attempts[n] \in AttemptStates /\ n \notin {0, Len(attempts) + 1}
    BY <2>1
  <2> QED BY <2>1, <2>2 DEF AttemptStates
<1>u. new = old => Fine
  OBVIOUS
<1>s. ASSUME NEW status, attempts' = [attempts EXCEPT ![n].status = status]
      PROVE  Fine
  BY <1>0, <1>s, <1>u DEF AttemptStates
<1>o. ASSUME NEW objects, attempts' = [attempts EXCEPT ![n].objects = objects]
      PROVE  new = objects
  BY <1>0, <1>o DEF AttemptStates
<1>e. /\ \A put \in Parts : Stored(old, put)[part].managed
                              = old[part].managed
      /\ \A parts, state : Registered(old, parts, state)[part].managed
                              = old[part].managed
      /\ Scheduled(old)[part].managed \in {old[part].managed, "scheduled"}
  <2>1. \A put \in Parts : Stored(old, put)[part].managed = old[part].managed
    BY <1>0, ObjectsEach
  <2>2. \A parts, state : Registered(old, parts, state)[part].managed
                            = old[part].managed
    BY <1>0, ObjectsEach
  <2>3. Scheduled(old)[part].managed \in {old[part].managed, "scheduled"}
    BY <1>0, ObjectsEach
  <2> QED BY <2>1, <2>2, <2>3
<1>r. Raises(w) => Fine
  BY <1>u DEF Raises
<1>g. ASSUME NEW parts, NEW state,
             attempts' = [attempts EXCEPT ![n].objects =
                            Registered(@, parts, state)]
      PROVE  Fine
  <2>1. new = Registered(old, parts, state)
    BY <1>g, <1>o
  <2> QED BY <1>e, <2>1
<1> HIDE DEF Fine
<1>1. CASE \/ Deliver(w) \/ PreflightFailure(w) \/ ProviderAnswers(w)
           \/ Compose(w)
  BY <1>1, <1>u, <1>r DEF Deliver, PreflightFailure, ProviderAnswers, Compose
<1>2. CASE Claim(w)
  BY <1>0, <1>2 DEF Claim, TypeOK
<1>3. CASE Disclose(w)
  <2>1. CASE attempts' = [attempts EXCEPT ![n].calls = @ + 1]
    BY <1>0, <1>u, <2>1 DEF AttemptStates
  <2> QED BY <1>3, <1>u, <1>r, <2>1 DEF Disclose
<1>4. CASE RecordProviderFailure(w) \/ ObjectFailure(w) \/ ExecutionFailure(w)
  BY <1>4, <1>s, <1>u, <1>r
     DEF RecordProviderFailure, ObjectFailure, ExecutionFailure, AttemptEnds
<1>p. ASSUME NEW put \in Parts, NEW next, Put(w, put, next) PROVE Fine
  <2>1. CASE attempts' = [attempts EXCEPT ![n].objects = Stored(@, put)]
    <3>1. new = Stored(old, put)
      BY <1>o, <2>1
    <3> QED BY <1>e, <3>1 DEF Fine
  <2> QED BY <1>p, <1>u, <2>1 DEF Put
<1>5. CASE PutLayer(w) \/ PutFinal(w)
  BY <1>5, <1>p, <1>r DEF PutLayer, PutFinal, Parts
<1>6. CASE RegisterLayer(w) \/ RegisterKeys(w)
  BY <1>6, <1>g, <1>r, <1>u DEF RegisterLayer, RegisterKeys
<1>7. CASE Publish(w)
  <2>1. CASE attempts' = [attempts EXCEPT ![n].status = "succeeded",
                                          ![n].objects = Published(@)]
    <3>1. new = Registered(old, {"final"}, "referenced")
      BY <1>0, <2>1 DEF AttemptStates, Published
    <3> QED BY <1>e, <3>1 DEF Fine
  <2> QED BY <1>7, <1>r, <2>1 DEF Publish
<1>c. ASSUME NEW pc, Compensate(w, pc) PROVE Fine
  <2>1. CASE attempts' = [attempts EXCEPT ![n].objects = Scheduled(@)]
    <3>1. new = Scheduled(old)
      BY <1>o, <2>1
    <3> QED BY <1>e, <3>1 DEF Fine
  <2> QED BY <1>c, <1>s, <2>1 DEF Compensate
<1>8. CASE CompensatePut(w) \/ CompensateRun(w)
  BY <1>8, <1>c, <1>u DEF CompensatePut, CompensateRun, CompensateThrows
<1> QED BY <1>1, <1>2, <1>3, <1>4, <1>5, <1>6, <1>7, <1>8 DEF WorkerStep

\* What a cancel has found is registered, and not published, until it commits.
Found ==
  cancelling.open
    => /\ run.status # "succeeded"
       /\ \A part \in cancelling.parts :
            /\ Len(attempts) \in DOMAIN attempts
            /\ attempts[Len(attempts)].objects[part].managed
                 \notin {"none", "referenced"}

LEMMA FoundStep ==
  ASSUME TypeOK, Found, Next
  PROVE  Found'
<1> DEFINE n == Len(attempts)
<1> SUFFICES ASSUME cancelling'.open PROVE Found'
  BY DEF Found
<1>0. /\ attempts \in Seq(AttemptStates) /\ n \in Nat
      /\ run \in RunStates
      /\ cancelling.parts \subseteq Parts
  BY DEF TypeOK
<1>u. ASSUME UNCHANGED <<attempts, cancelling>>, run'.status = run.status
      PROVE  Found'
  BY <1>u DEF Found
<1>1. ASSUME NEW w \in Workers, WorkerStep(w) PROVE Found'
  <2>1. cancelling' = cancelling /\ cancelling.open
    BY <1>1, CancelLeft
  <2>2. run' = run /\ RowStep(w)
    BY <1>1, <2>1, Locked
  <2>3. /\ Len(attempts') = n /\ DOMAIN attempts' = DOMAIN attempts
        /\ \A m \in DOMAIN attempts :
             m # worker[w].attempt => attempts'[m] = attempts[m]
    BY <1>0, <2>2, RowChanged DEF RowStep
  <2>4. ASSUME NEW part \in cancelling.parts
        PROVE  /\ n \in DOMAIN attempts
               /\ attempts'[n].objects[part].managed
                    \notin {"none", "referenced"}
    <3>1. /\ n \in DOMAIN attempts
          /\ attempts[n].objects[part].managed \notin {"none", "referenced"}
      BY <2>1 DEF Found
    <3>2. part \in Parts
      BY <1>0
    <3>3. CASE worker[w].attempt = n
      BY <1>1, <2>2, <3>1, <3>2, <3>3, StaysKnown
    <3>4. CASE worker[w].attempt # n
      BY <2>3, <3>1, <3>4
    <3> QED BY <3>1, <3>3, <3>4
  <2> QED BY <2>1, <2>2, <2>3, <2>4 DEF Found
<1>2. CASE Cancel
  <2> DEFINE found == IF n = 0 THEN {} ELSE Cleanable(attempts[n].objects)
  <2>1. /\ run.status # "succeeded" /\ UNCHANGED <<run, attempts>>
        /\ cancelling' = [open |-> TRUE, parts |-> found]
    BY <1>2 DEF Cancel
  <2>2. ASSUME NEW part \in found
        PROVE  /\ n \in DOMAIN attempts
               /\ attempts[n].objects[part].managed
                    \notin {"none", "referenced"}
    <3>1. n # 0
      BY <2>2
    <3> QED BY <1>0, <2>2, <3>1 DEF Cleanable
  <2> HIDE DEF found
  <2>3. cancelling'.parts = found
    BY <2>1
  <2> QED BY <2>1, <2>2, <2>3 DEF Found
<1>3. CASE CancelCommits \/ Retry
  BY <1>3 DEF CancelCommits, NoCancel, Retry
<1>4. ASSUME NEW m \in DOMAIN attempts, NEW it \in Parts, Clean(m, it)
      PROVE  Found'
  <2>1. /\ UNCHANGED <<run, cancelling>>
        /\ attempts' = [attempts EXCEPT ![m].objects[it] =
                          [stored |-> FALSE, managed |-> "deleted"]]
    BY <1>4 DEF Clean
  <2>2. Len(attempts') = n /\ DOMAIN attempts' = DOMAIN attempts
    BY <1>4, WorldRows DEF World
  <2>3. ASSUME NEW part \in cancelling.parts
        PROVE  /\ n \in DOMAIN attempts
               /\ attempts'[n].objects[part].managed
                    \notin {"none", "referenced"}
    <3>1. /\ n \in DOMAIN attempts
          /\ attempts[n].objects[part].managed \notin {"none", "referenced"}
      BY <2>1 DEF Found
    <3>2. /\ attempts[n] \in AttemptStates /\ part \in Parts
          /\ attempts[n].objects \in [Parts -> ObjectStates]
      <4>1. attempts[n] \in AttemptStates
        BY <1>0, <3>1
      <4> QED BY <1>0, <4>1 DEF AttemptStates
    <3>3. CASE m # n
      BY <1>0, <2>1, <3>1, <3>3
    <3>4. CASE m = n
      <4>1. attempts'[n].objects =
              [attempts[n].objects EXCEPT
                 ![it] = [stored |-> FALSE, managed |-> "deleted"]]
        BY <1>0, <2>1, <3>1, <3>2, <3>4 DEF AttemptStates
      <4> QED BY <3>1, <3>2, <4>1
    <3> QED BY <3>1, <3>3, <3>4
  <2> QED BY <2>1, <2>2, <2>3 DEF Found
<1>5. CASE RequestAgain \/ Drift \/ LeaseEnds \/ \E w \in Workers : Crash(w)
  <2>1. UNCHANGED <<attempts, cancelling>> /\ run'.status = run.status
    BY <1>0, <1>5 DEF RequestAgain, Drift, LeaseEnds, Crash, RunStates
  <2> QED BY <1>u, <2>1
<1> QED BY <1>1, <1>2, <1>3, <1>4, <1>5 DEF Next, World

---------------------------------------------------------------------------
(* Calls *)

\* No two workers are at one attempt.
Apart ==
  \A v, w \in Workers :
    v # w /\ worker[v].attempt # 0 => worker[v].attempt # worker[w].attempt

LEMMA ApartStep ==
  ASSUME TypeOK, Apart, Next
  PROVE  Apart'
<1>0. /\ attempts \in Seq(AttemptStates)
      /\ \A v \in Workers : worker[v].attempt \in 0..Len(attempts)
  <2>1. attempts \in Seq(AttemptStates)
    BY DEF TypeOK
  <2>2. {0} \cup DOMAIN attempts = 0..Len(attempts)
    BY <2>1
  <2>3. \A v \in Workers : worker[v].attempt \in {0} \cup DOMAIN attempts
    BY DEF TypeOK
  <2> QED BY <2>1, <2>2, <2>3
<1>1. ASSUME NEW w \in Workers, WorkerStep(w) \/ Crash(w) PROVE Apart'
  <2>1. /\ \A v \in Workers : v # w => worker'[v] = worker[v]
        /\ worker'[w].attempt \in {0, worker[w].attempt, Len(attempts) + 1}
    BY <1>1, WorkerSteps
  <2>2. QED
    BY <1>0, <2>1 DEF Apart
<1>2. CASE worker' = worker
  BY <1>2 DEF Apart
<1>3. QED
  BY <1>1, <1>2
     DEF Next, World, Cancel, CancelCommits, Retry, RequestAgain, Drift,
         LeaseEnds, Clean

\* A claim takes what the request or a retry has granted.
Granted ==
  Len(attempts) + (IF run.status = "queued" THEN 1 ELSE 0) <= 1 + run.retries

LEMMA GrantedStep ==
  ASSUME TypeOK, Granted, Next
  PROVE  Granted'
<1>0. /\ attempts \in Seq(AttemptStates) /\ Len(attempts) \in Nat
      /\ run \in RunStates /\ run.retries \in Nat
  BY DEF TypeOK, RunStates
<1>1. ASSUME NEW w \in Workers, WorkerStep(w) PROVE Granted'
  <2>1. CASE RowStep(w)
    <3>1. Len(attempts') = Len(attempts)
      BY <1>0, <2>1, RowChanged DEF RowStep
    <3>2. /\ run'.retries = run.retries
          /\ run'.status = "queued" => run.status = "queued"
      BY <1>0, <1>1, RunSteps DEF RunStep, RunStates, Ended
    <3>3. QED
      BY <1>0, <3>1, <3>2 DEF Granted
  <2>2. CASE /\ run.status = "queued" /\ run'.status = "working"
             /\ run'.retries = run.retries
             /\ attempts' = Append(attempts, NewAttempt)
    BY <1>0, <2>2, RowAdded DEF Granted
  <2>3. QED
    BY <1>1, <2>1, <2>2, WorkerRows
<1>2. ASSUME World PROVE Granted'
  <2>1. Len(attempts') = Len(attempts)
    BY <1>2, WorldRows
  <2>2. CASE Retry
    <3>1. run'.retries = run.retries + 1 /\ run.status # "queued"
      BY <1>0, <2>2 DEF Retry, Retryable, RunStates, Ended
    <3>2. QED
      BY <1>0, <2>1, <3>1 DEF Granted
  <2>3. CASE CancelCommits \/ LeaseEnds
    <3>1. /\ run'.retries = run.retries
          /\ run'.status = "queued" => run.status = "queued"
      BY <1>0, <2>3 DEF CancelCommits, Ends, LeaseEnds, RunStates
    <3>2. QED
      BY <1>0, <2>1, <3>1 DEF Granted
  <2>4. CASE run' = run
    BY <2>1, <2>4 DEF Granted
  <2>5. QED
    BY <1>2, <2>2, <2>3, <2>4
       DEF World, Cancel, RequestAgain, Drift, Clean, Crash
<1>3. QED
  BY <1>1, <1>2 DEF Next

\* A call is made by the worker that has claimed the attempt, and once.
CallsOnce ==
  /\ \A n \in DOMAIN attempts : attempts[n].calls <= 1
  /\ \A w \in Workers :
       worker[w].pc = "claimed" => attempts[worker[w].attempt].calls = 0

LEMMA CallsOfStep ==
  ASSUME TypeOK, NEW w \in Workers, WorkerStep(w), NEW n \in DOMAIN attempts
  PROVE  \/ attempts'[n].calls = attempts[n].calls
         \/ /\ worker[w].pc = "claimed" /\ worker'[w].pc # "claimed"
            /\ n = worker[w].attempt
            /\ attempts'[n].calls = attempts[n].calls + 1
<1> DEFINE Same == attempts'[n].calls = attempts[n].calls
<1>0. /\ attempts \in Seq(AttemptStates)
      /\ attempts[n] \in AttemptStates
      /\ worker[w] \in WorkerStates /\ worker \in [Workers -> WorkerStates]
  BY DEF TypeOK
<1>u. attempts' = attempts => Same
  OBVIOUS
<1>o. ASSUME NEW m, NEW objects,
             attempts' = [attempts EXCEPT ![m].objects = objects]
      PROVE  Same
  BY <1>0, <1>o DEF AttemptStates
<1>s. ASSUME NEW m, NEW status,
             attempts' = [attempts EXCEPT ![m].status = status]
      PROVE  Same
  BY <1>0, <1>s DEF AttemptStates
<1>r. Raises(w) => Same
  BY DEF Raises
<1>c. ASSUME NEW pc, Compensate(w, pc) PROVE Same
  BY <1>c, <1>o, <1>s DEF Compensate
<1>p. ASSUME NEW part, NEW pc, Put(w, part, pc) PROVE Same
  BY <1>p, <1>o DEF Put
<1>1. ASSUME Claim(w) PROVE Same
  BY <1>0, <1>1, RowAdded DEF Claim
<1>2. CASE Disclose(w)
  <2>1. CASE /\ worker[w].pc = "claimed" /\ Goes(w, "called")
             /\ attempts' = [attempts EXCEPT
                               ![worker[w].attempt].calls = @ + 1]
    <3>1. worker'[w].pc = "called"
      BY <1>0, <2>1 DEF Goes, WorkerStates
    <3>2. QED
      BY <1>0, <2>1, <3>1 DEF AttemptStates
  <2>2. CASE attempts' = attempts
    BY <2>2
  <2>3. QED
    BY <1>2, <2>1, <2>2 DEF Disclose, Raises
<1>3. ASSUME Publish(w) PROVE Same
  <2>1. CASE attempts' = [attempts EXCEPT
               ![worker[w].attempt].status = "succeeded",
               ![worker[w].attempt].objects = Published(@)]
    BY <1>0, <2>1 DEF AttemptStates
  <2>2. QED
    BY <1>3, <1>r, <2>1 DEF Publish
<1> HIDE DEF Same
<1>4. ASSUME \/ Deliver(w) \/ PreflightFailure(w) \/ ProviderAnswers(w)
             \/ Compose(w)
      PROVE  Same
  BY <1>4, <1>u, <1>r
     DEF Deliver, PreflightFailure, ProviderAnswers, Compose
<1>5. ASSUME \/ RecordProviderFailure(w) \/ ObjectFailure(w)
             \/ ExecutionFailure(w)
      PROVE  Same
  BY <1>5, <1>u, <1>r, <1>s
     DEF RecordProviderFailure, ObjectFailure, ExecutionFailure, AttemptEnds
<1>6. ASSUME PutLayer(w) \/ PutFinal(w) PROVE Same
  BY <1>6, <1>r, <1>p DEF PutLayer, PutFinal
<1>7. ASSUME RegisterLayer(w) \/ RegisterKeys(w) PROVE Same
  BY <1>7, <1>u, <1>r, <1>o DEF RegisterLayer, RegisterKeys
<1>8. ASSUME CompensatePut(w) \/ CompensateRun(w) PROVE Same
  BY <1>8, <1>u, <1>c DEF CompensatePut, CompensateRun, CompensateThrows
<1>9. QED
  BY <1>1, <1>2, <1>3, <1>4, <1>5, <1>6, <1>7, <1>8 DEF WorkerStep, Same

LEMMA CallsOnceStep ==
  ASSUME TypeOK, TypeOK', Apart, CallsOnce, Next
  PROVE  CallsOnce'
<1>0. /\ attempts \in Seq(AttemptStates)
      /\ attempts' \in Seq(AttemptStates)
      /\ worker \in [Workers -> WorkerStates]
      /\ \A n \in DOMAIN attempts : attempts[n].calls \in Nat
      /\ \A v \in Workers :
           worker[v].pc = "claimed" => worker[v].attempt \in DOMAIN attempts
  <2>1. \A n \in DOMAIN attempts : attempts[n] \in AttemptStates
    BY DEF TypeOK
  <2>2. QED
    BY <2>1 DEF TypeOK, AttemptStates
<1>1. ASSUME NEW w \in Workers, WorkerStep(w) PROVE CallsOnce'
  <2>1. \A v \in Workers : v # w => worker'[v] = worker[v]
    BY <1>1, WorkerSteps
  <2>2. CASE RowStep(w)
    <3>1. DOMAIN attempts' = DOMAIN attempts
      BY <1>0, <2>2, RowChanged DEF RowStep
    <3>2. /\ worker'[w].pc = "claimed"
               => worker'[w] = worker[w] /\ worker[w].pc = "claimed"
      <4>1. attempts' # Append(attempts, NewAttempt)
        BY <1>0, <3>1, RowAdded
      <4>2. QED
        BY <1>1, <4>1, WorkerSteps DEF Early
    <3>3. ASSUME NEW n \in DOMAIN attempts
          PROVE  \/ attempts'[n].calls = attempts[n].calls
                 \/ /\ worker[w].pc = "claimed" /\ worker'[w].pc # "claimed"
                    /\ n = worker[w].attempt
                    /\ attempts'[n].calls = attempts[n].calls + 1
      BY <1>1, CallsOfStep
    <3>4. \A n \in DOMAIN attempts' : attempts'[n].calls <= 1
      BY <1>0, <3>1, <3>3 DEF CallsOnce
    <3>5. ASSUME NEW v \in Workers, worker'[v].pc = "claimed"
          PROVE  attempts'[worker'[v].attempt].calls = 0
      <4>1. worker'[v] = worker[v] /\ worker[v].pc = "claimed"
        BY <2>1, <3>2, <3>5
      <4>2. worker[v].attempt \in DOMAIN attempts
        BY <1>0, <4>1
      <4>3. CASE v = w
        BY <3>3, <3>5, <4>1, <4>2, <4>3 DEF CallsOnce
      <4>4. CASE v # w
        <5>1. worker[v].attempt # 0
          BY <1>0, <4>2
        <5>2. worker[v].attempt # worker[w].attempt
          BY <4>4, <5>1 DEF Apart
        <5>3. QED
          BY <3>3, <4>1, <4>2, <5>2 DEF CallsOnce
      <4>5. QED
        BY <4>3, <4>4
    <3>6. QED
      BY <3>4, <3>5 DEF CallsOnce
  <2>3. CASE attempts' = Append(attempts, NewAttempt)
    <3>1. /\ \A n \in DOMAIN attempts : attempts'[n] = attempts[n]
          /\ attempts'[Len(attempts) + 1] = NewAttempt
          /\ DOMAIN attempts' = DOMAIN attempts \cup {Len(attempts) + 1}
      BY <1>0, <2>3, RowAdded
    <3>2. NewAttempt.calls = 0
      BY DEF NewAttempt
    <3>3. /\ worker'[w].pc = "claimed"
               => \/ worker'[w] = worker[w] /\ worker[w].pc = "claimed"
                  \/ worker'[w].attempt = Len(attempts) + 1
      BY <1>1, WorkerSteps DEF Early
    <3>4. QED
      BY <1>0, <2>1, <3>1, <3>2, <3>3 DEF CallsOnce
  <2>4. QED
    BY <1>1, <2>2, <2>3, WorkerRows
<1>2. ASSUME World PROVE CallsOnce'
  <2>1. DOMAIN attempts' = DOMAIN attempts
    BY <1>2, WorldRows
  <2>2. ASSUME NEW n \in DOMAIN attempts
        PROVE  attempts'[n].calls = attempts[n].calls
    <3>0. attempts[n] \in AttemptStates
      BY <1>0
    <3>1. CASE CancelCommits
      BY <1>0, <3>0, <3>1 DEF CancelCommits, AttemptStates
    <3>2. ASSUME NEW m, NEW part, Clean(m, part)
          PROVE  attempts'[n].calls = attempts[n].calls
      BY <1>0, <3>0, <3>2 DEF Clean, AttemptStates
    <3>3. CASE attempts' = attempts
      BY <3>3
    <3>4. QED
      BY <1>2, <3>1, <3>2, <3>3
         DEF World, Cancel, Retry, RequestAgain, Drift, LeaseEnds, Crash
  <2>3. ASSUME NEW v \in Workers, worker'[v].pc = "claimed"
        PROVE  worker'[v] = worker[v]
    <3>1. CASE \E w \in Workers : Crash(w)
      <4>1. PICK w \in Workers : Crash(w)
        BY <3>1
      <4>2. worker' = [worker EXCEPT ![w] = IdleWorker]
        BY <4>1 DEF Crash, Stops
      <4>3. QED
        BY <1>0, <2>3, <4>2 DEF IdleWorker
    <3>2. CASE worker' = worker
      BY <3>2
    <3>3. QED
      BY <1>2, <3>1, <3>2
         DEF World, Cancel, CancelCommits, Retry, RequestAgain, Drift,
             LeaseEnds, Clean
  <2>4. QED
    BY <1>0, <2>1, <2>2, <2>3 DEF CallsOnce
<1>3. QED
  BY <1>1, <1>2 DEF Next

---------------------------------------------------------------------------
(* Publications *)

Unpublished == {"claimed", "called", "erred", "drawn", "stored",
                "composing", "scanned", "publishing"}

\* Before a worker publishes, nobody has registered its cover.
FinalUnknown ==
  \A w \in Workers :
      worker[w].pc \in Unpublished
    => LET final == attempts[worker[w].attempt].objects["final"]
       IN  /\ final.managed = "none"
           /\ worker[w].pc = "publishing" => final.stored

Good(object) == object.stored /\ object.managed = "referenced"

\* The attempt of the worker that takes the step.
LEMMA OwnFinal ==
  ASSUME TypeOK, PublishedIsKept, FinalUnknown,
         NEW w \in Workers, WorkerStep(w), RowStep(w),
         worker[w].attempt \in DOMAIN attempts
  PROVE  LET n == worker[w].attempt
             final == attempts'[n].objects["final"]
         IN  /\ attempts'[n].status = "succeeded"
                  => Good(final)
             /\ worker'[w].pc \in Unpublished
                  => /\ final.managed = "none"
                     /\ worker'[w].pc = "publishing" => final.stored
<1> DEFINE n == worker[w].attempt
           row == attempts[n]
           new == attempts'[n]
           Fine == /\ new.status = "succeeded"
                        => Good(new.objects["final"])
                   /\ worker'[w].pc \in Unpublished
                        => /\ new.objects["final"].managed = "none"
                           /\ worker'[w].pc = "publishing"
                                => new.objects["final"].stored
<1>0. /\ attempts \in Seq(AttemptStates) /\ n \in DOMAIN attempts
      /\ row \in AttemptStates
      /\ row.objects \in [Parts -> ObjectStates]
      /\ worker \in [Workers -> WorkerStates] /\ worker[w] \in WorkerStates
      /\ "final" \in Parts /\ "layer" \in Parts
  <2>1. attempts \in Seq(AttemptStates) /\ n \in DOMAIN attempts
    BY DEF TypeOK
  <2>2. row \in AttemptStates
    BY <2>1
  <2>3. QED
    BY <2>1, <2>2 DEF TypeOK, AttemptStates, Parts
<1>1. /\ row.status = "succeeded" => Good(row.objects["final"])
      /\ worker[w].pc \in Unpublished
           => /\ row.objects["final"].managed = "none"
              /\ worker[w].pc = "publishing" => row.objects["final"].stored
  BY <1>0 DEF PublishedIsKept, FinalUnknown, Good
<1>g. ASSUME NEW pc, Goes(w, pc) PROVE worker'[w].pc = pc
  BY <1>0, <1>g DEF Goes, WorkerStates
<1>s. Stops(w) => worker'[w].pc = "idle"
  BY <1>0 DEF Stops, IdleWorker
<1>q. /\ {"idle", "received", "refused", "put-failed", "put-known",
          "put-settled", "failing", "known", "closing"} \cap Unpublished = {}
      /\ {"called", "erred", "drawn", "stored", "composing", "scanned"}
           \subseteq Unpublished \ {"publishing"}
  BY DEF Unpublished
\* The row stays, and the worker with it or out of the way.
<1>u. ASSUME new = row,
             \/ worker'[w].pc \notin Unpublished
             \/ worker[w].pc \in Unpublished /\ worker'[w].pc # "publishing"
      PROVE  Fine
  BY <1>1, <1>u
<1>c. ASSUME NEW status, status # "succeeded" \/ status = row.status,
             attempts' = [attempts EXCEPT ![n].status = status],
             worker'[w].pc \notin Unpublished
      PROVE  Fine
  BY <1>0, <1>1, <1>c DEF AttemptStates
<1>o. ASSUME NEW objects, objects["final"] = row.objects["final"],
             attempts' = [attempts EXCEPT ![n].objects = objects],
             \/ worker'[w].pc \notin Unpublished
             \/ worker[w].pc \in Unpublished /\ worker'[w].pc # "publishing"
      PROVE  Fine
  BY <1>0, <1>1, <1>o DEF AttemptStates
\* What may happen to the object of a cover when nothing is published.
<1>m. ASSUME NEW objects, worker'[w].pc \notin Unpublished,
             Good(row.objects["final"]) => Good(objects["final"]),
             attempts' = [attempts EXCEPT ![n].objects = objects]
      PROVE  Fine
  BY <1>0, <1>1, <1>m DEF AttemptStates
<1>a. /\ Stored(row.objects, "layer")["final"] = row.objects["final"]
      /\ Stored(row.objects, "final")["final"].managed
           = row.objects["final"].managed
      /\ Stored(row.objects, "final")["final"].stored
  <2>1. "final" # "layer"
    OBVIOUS
  <2>2. row.objects["final"] \in ObjectStates
    BY <1>0
  <2>3. Stored(row.objects, "layer")["final"] = row.objects["final"]
    BY <1>0, <2>1 DEF Stored
  <2>4. Stored(row.objects, "final")["final"]
          = [row.objects["final"] EXCEPT !.stored = TRUE]
    BY <1>0 DEF Stored
  <2>5. QED
    BY <2>2, <2>3, <2>4 DEF ObjectStates
<1>b. /\ Registered(row.objects, {"layer"}, "active")["final"]
           = row.objects["final"]
      /\ Good(row.objects["final"])
           => /\ Good(Registered(row.objects, worker[w].keys,
                                 "active")["final"])
              /\ Good(Scheduled(row.objects)["final"])
      /\ /\ row.objects["final"].managed = "none"
         /\ row.objects["final"].stored
         => Good(Published(row.objects)["final"])
  <2>1. Registered(row.objects, {"layer"}, "active")["final"]
          = row.objects["final"]
    BY <1>0 DEF Registered
  <2>2. ASSUME row.objects["final"].managed = "referenced"
        PROVE  /\ Registered(row.objects, worker[w].keys, "active")["final"]
                    = row.objects["final"]
               /\ Scheduled(row.objects)["final"] = row.objects["final"]
    BY <1>0, <2>2 DEF Registered, Scheduled, Due, Cleanable
  <2>3. ASSUME row.objects["final"].managed = "none",
               row.objects["final"].stored
        PROVE  Good(Published(row.objects)["final"])
    <3>1. row.objects["final"] \in ObjectStates
      BY <1>0
    <3>2. Published(row.objects)["final"]
            = [row.objects["final"] EXCEPT !.managed = "referenced"]
      BY <1>0, <2>3 DEF Published, Registered
    <3>3. QED
      BY <3>1, <3>2, <2>3 DEF ObjectStates, Good
  <2>4. QED
    BY <2>1, <2>2, <2>3 DEF Good
<1> HIDE DEF n, row, new, Fine
<1>r. ASSUME Raises(w) PROVE Fine
  BY <1>r, <1>u, <1>g, <1>q DEF Raises, row, new
<1>2. ASSUME Deliver(w) \/ Claim(w) \/ PreflightFailure(w) PROVE Fine
  <2>1. worker[w].pc \in Early
    BY <1>2 DEF Deliver, Claim, PreflightFailure, Early
  <2>2. n = 0
    BY <2>1 DEF TypeOK, Early, n
  <2>3. QED
    BY <1>0, <2>2
<1>3. ASSUME Disclose(w) PROVE Fine
  <2>1. ASSUME Goes(w, "called"), worker[w].pc = "claimed",
               attempts' = [attempts EXCEPT ![n].calls = @ + 1]
        PROVE  Fine
    <3>1. /\ new.status = row.status /\ new.objects = row.objects
          /\ worker'[w].pc = "called" /\ worker[w].pc \in Unpublished
      BY <1>0, <1>g, <2>1 DEF AttemptStates, row, new, Unpublished
    <3>2. QED
      BY <1>1, <3>1 DEF Fine
  <2>2. ASSUME Goes(w, "composing"), worker[w].pc = "claimed",
               attempts' = attempts
        PROVE  Fine
    BY <1>g, <1>u, <1>q, <2>2 DEF row, new, Unpublished
  <2>3. ASSUME Stops(w), attempts' = attempts PROVE Fine
    BY <1>s, <1>u, <1>q, <2>3 DEF row, new
  <2>4. QED
    BY <1>3, <1>r, <2>1, <2>2, <2>3 DEF Disclose, n
<1>4. ASSUME ProviderAnswers(w) \/ Compose(w) PROVE Fine
  <2>1. ASSUME NEW pc \in {"drawn", "erred", "scanned"}, Goes(w, pc),
               worker[w].pc \in Unpublished, attempts' = attempts
        PROVE  Fine
    BY <1>g, <1>u, <2>1 DEF row, new
  <2>2. QED
    BY <1>4, <1>r, <2>1 DEF ProviderAnswers, Compose, Unpublished
<1>5. ASSUME \/ RecordProviderFailure(w) \/ ObjectFailure(w)
             \/ ExecutionFailure(w)
      PROVE  Fine
  <2>1. ASSUME Stops(w), attempts' = attempts PROVE Fine
    BY <1>s, <1>u, <1>q, <2>1 DEF row, new
  <2>2. ASSUME Stops(w) \/ Goes(w, "failing"),
               NEW status \in {"failed", "unknown", "compensation"},
               AttemptEnds(n, status)
        PROVE  Fine
    BY <1>c, <1>s, <1>g, <1>q, <2>2 DEF AttemptEnds
  <2>3. QED
    BY <1>5, <1>r, <2>1, <2>2
       DEF RecordProviderFailure, ObjectFailure, ExecutionFailure, n
<1>6. ASSUME PutLayer(w) PROVE Fine
  <2>0. worker[w].pc \in Unpublished
    BY <1>6 DEF PutLayer, Unpublished
  <2>1. /\ \/ worker'[w].pc = "stored" \/ worker'[w].pc = "put-failed"
        /\ \/ attempts' = attempts
           \/ attempts' = [attempts EXCEPT ![n].objects = Stored(@, "layer")]
    BY <1>6, <1>0, <1>g DEF PutLayer, Put, WorkerStates, n
  <2>2. QED
    BY <1>a, <1>0, <1>o, <1>u, <2>0, <2>1 DEF row, new
<1>7. ASSUME PutFinal(w) PROVE Fine
  <2>0. worker[w].pc = "scanned" /\ worker[w].pc \in Unpublished
    BY <1>7 DEF PutFinal, Unpublished
  <2>1. CASE Raises(w)
    BY <1>r, <2>1
  <2>2. CASE attempts' = attempts /\ worker'[w].pc = "put-failed"
    BY <1>u, <1>q, <2>2 DEF row, new
  <2>3. CASE /\ attempts' = [attempts EXCEPT ![n].objects =
                               Stored(@, "final")]
             /\ worker'[w].pc \in {"put-failed", "publishing"}
    <3>1. /\ new.status = row.status
          /\ new.objects = Stored(row.objects, "final")
      BY <1>0, <2>3 DEF AttemptStates, row, new
    <3>2. QED
      BY <1>0, <1>1, <1>a, <2>0, <2>3, <3>1 DEF Fine, Good
  <2>4. QED
    BY <1>7, <1>0, <1>g, <2>1, <2>2, <2>3
       DEF PutFinal, Put, WorkerStates, n
<1>8. ASSUME RegisterLayer(w) PROVE Fine
  <2>1. ASSUME Goes(w, "composing"), worker[w].pc = "stored",
               attempts' = [attempts EXCEPT ![n].objects =
                              Registered(@, {"layer"}, "active")]
        PROVE  Fine
    BY <1>b, <1>o, <1>g, <2>1 DEF row, Unpublished
  <2>2. QED
    BY <1>8, <1>r, <2>1 DEF RegisterLayer, n
<1>9. ASSUME Publish(w) PROVE Fine
  <2>1. ASSUME attempts' = [attempts EXCEPT ![n].status = "succeeded",
                                            ![n].objects = Published(@)],
               Stops(w) \/ Goes(w, "failing"), worker[w].pc = "publishing"
        PROVE  Fine
    <3>1. new.objects = Published(row.objects)
      BY <1>0, <2>1 DEF AttemptStates, row, new
    <3>2. worker'[w].pc \notin Unpublished
      BY <1>g, <1>s, <1>q, <2>1
    <3>3. QED
      BY <1>1, <1>b, <2>1, <3>1, <3>2 DEF Fine, Unpublished
  <2>2. QED
    BY <1>9, <1>r, <2>1 DEF Publish, n
<1>10. ASSUME RegisterKeys(w) PROVE Fine
  <2>1. worker'[w].pc \notin Unpublished
    BY <1>10, <1>g, <1>q DEF RegisterKeys
  <2>2. \/ attempts' = attempts
        \/ attempts' = [attempts EXCEPT ![n].objects =
                          Registered(row.objects, worker[w].keys, "active")]
    BY <1>10 DEF RegisterKeys, n, row
  <2>3. QED
    BY <1>b, <1>m, <1>u, <2>1, <2>2 DEF row, new
<1>k. ASSUME NEW pc \in {"put-settled", "closing"}, Compensate(w, pc)
      PROVE  Fine
  <2>1. worker'[w].pc \notin Unpublished
    BY <1>k, <1>g, <1>q DEF Compensate
  <2>2. \/ attempts' = [attempts EXCEPT ![n].objects =
                          Scheduled(row.objects)]
        \/ \E status : /\ status # "succeeded" \/ status = row.status
                       /\ attempts' = [attempts EXCEPT ![n].status = status]
    BY <1>k DEF Compensate, n, row
  <2>3. QED
    BY <1>b, <1>m, <1>c, <2>1, <2>2
<1>11. ASSUME CompensatePut(w) \/ CompensateRun(w) PROVE Fine
  <2>1. ASSUME CompensateThrows(w), Stops(w) \/ Goes(w, "failing")
        PROVE  Fine
    BY <1>u, <1>s, <1>g, <1>q, <2>1 DEF CompensateThrows, row, new
  <2>2. QED
    BY <1>11, <1>k, <2>1 DEF CompensatePut, CompensateRun
<1>12. QED
  <2>1. Fine
    BY <1>2, <1>3, <1>4, <1>5, <1>6, <1>7, <1>8, <1>9, <1>10, <1>11
       DEF WorkerStep
  <2>2. QED
    BY <2>1 DEF Fine, n, new

LEMMA PublishedStep ==
  ASSUME TypeOK, TypeOK', Found, Apart, PublishedIsKept, FinalUnknown, Next
  PROVE  PublishedIsKept' /\ FinalUnknown'
<1>0. /\ attempts \in Seq(AttemptStates)
      /\ worker \in [Workers -> WorkerStates]
      /\ \A n \in DOMAIN attempts :
           attempts[n].objects \in [Parts -> ObjectStates]
      /\ \A v \in Workers :
           /\ worker[v].pc \in Unpublished
                => worker[v].attempt \in DOMAIN attempts
           /\ worker[v].attempt \in Nat
      /\ 0 \notin DOMAIN attempts
  <2>1. \A n \in DOMAIN attempts : attempts[n] \in AttemptStates
    BY DEF TypeOK
  <2>2. \A n \in DOMAIN attempts :
          attempts[n].objects \in [Parts -> ObjectStates]
    BY <2>1 DEF AttemptStates
  <2>3. ASSUME NEW v \in Workers
        PROVE  /\ worker[v].pc \in Unpublished
                    => worker[v].attempt \in DOMAIN attempts
               /\ worker[v].attempt \in Nat
    BY DEF TypeOK, WorkerStates, Unpublished
  <2>4. /\ attempts \in Seq(AttemptStates)
        /\ worker \in [Workers -> WorkerStates]
        /\ 0 \notin DOMAIN attempts
    BY DEF TypeOK
  <2>5. QED
    BY <2>2, <2>3, <2>4
<1>1. ASSUME NEW w \in Workers, WorkerStep(w)
      PROVE  PublishedIsKept' /\ FinalUnknown'
  <2> DEFINE m == worker[w].attempt
  <2>1. \A v \in Workers : v # w => worker'[v] = worker[v]
    BY <1>1, WorkerSteps
  <2>2. CASE RowStep(w)
    <3>1. /\ DOMAIN attempts' = DOMAIN attempts
          /\ \A n \in DOMAIN attempts : n # m => attempts'[n] = attempts[n]
      BY <1>0, <2>2, RowChanged DEF RowStep
    <3>2. m \in DOMAIN attempts
            => /\ attempts'[m].status = "succeeded"
                    => Good(attempts'[m].objects["final"])
               /\ worker'[w].pc \in Unpublished
                    => /\ attempts'[m].objects["final"].managed = "none"
                       /\ worker'[w].pc = "publishing"
                            => attempts'[m].objects["final"].stored
      BY <1>1, <2>2, OwnFinal
    <3>3. worker'[w].pc \in Unpublished
            => m \in DOMAIN attempts /\ worker'[w].attempt = m
      <4>1. attempts' # Append(attempts, NewAttempt)
        BY <1>0, <3>1, RowAdded
      <4>2. CASE worker'[w] = worker[w]
        BY <1>0, <4>2
      <4>3. CASE worker'[w].pc \in Early
        BY <4>3 DEF Early, Unpublished
      <4>4. CASE /\ worker[w].pc \notin Early
                 /\ worker'[w].attempt = m
        BY <4>4 DEF TypeOK, Early
      <4>5. QED
        BY <1>1, <4>1, <4>2, <4>3, <4>4, WorkerSteps
    <3>4. ASSUME NEW n \in DOMAIN attempts', attempts'[n].status = "succeeded"
          PROVE  Good(attempts'[n].objects["final"])
      <4>1. CASE n = m
        BY <3>1, <3>2, <3>4, <4>1
      <4>2. CASE n # m
        BY <3>1, <3>4, <4>2 DEF PublishedIsKept, Good
      <4>3. QED
        BY <4>1, <4>2
    <3>5. ASSUME NEW v \in Workers, worker'[v].pc \in Unpublished
          PROVE  LET final == attempts'[worker'[v].attempt].objects["final"]
                 IN  /\ final.managed = "none"
                     /\ worker'[v].pc = "publishing" => final.stored
      <4>1. CASE v = w
        BY <3>2, <3>3, <3>5, <4>1
      <4>2. CASE v # w
        <5>1. /\ worker'[v] = worker[v]
              /\ worker[v].attempt \in DOMAIN attempts
          BY <1>0, <2>1, <3>5, <4>2
        <5>2. worker[v].attempt # m
          BY <1>0, <4>2, <5>1 DEF Apart
        <5>3. QED
          BY <3>1, <3>5, <5>1, <5>2 DEF FinalUnknown
      <4>3. QED
        BY <4>1, <4>2
    <3>6. QED
      BY <3>4, <3>5 DEF PublishedIsKept, FinalUnknown, Good
  <2>3. CASE attempts' = Append(attempts, NewAttempt)
    <3>1. /\ \A n \in DOMAIN attempts : attempts'[n] = attempts[n]
          /\ attempts'[Len(attempts) + 1] = NewAttempt
          /\ DOMAIN attempts' = DOMAIN attempts \cup {Len(attempts) + 1}
      BY <1>0, <2>3, RowAdded
    <3>2. /\ NewAttempt.status = "working"
          /\ NewAttempt.objects["final"].managed = "none"
      BY DEF NewAttempt, NoObject, Parts
    <3>3. PublishedIsKept'
      BY <3>1, <3>2 DEF PublishedIsKept
    <3>4. worker'[w].pc \in Unpublished
            => worker'[w].pc = "claimed"
               /\ worker'[w].attempt = Len(attempts) + 1
      <4>1. Claim(w)
        BY <1>0, <1>1, <2>3, <3>1, RowChanged, WorkerRows DEF RowStep
      <4>2. worker[w].pc = "received"
        BY <4>1 DEF Claim
      <4>3. worker[w].pc \in Early /\ "received" \notin Unpublished
        BY <4>2 DEF Early, Unpublished
      <4>4. CASE worker'[w].pc \in Early
        BY <4>4 DEF Early, Unpublished
      <4>5. QED
        BY <1>1, <4>2, <4>3, <4>4, WorkerSteps
    <3>5. ASSUME NEW v \in Workers, worker'[v].pc \in Unpublished
          PROVE  LET final == attempts'[worker'[v].attempt].objects["final"]
                 IN  /\ final.managed = "none"
                     /\ worker'[v].pc = "publishing" => final.stored
      <4>1. CASE v = w
        BY <3>1, <3>2, <3>4, <3>5, <4>1
      <4>2. CASE v # w
        BY <1>0, <2>1, <3>1, <3>5, <4>2 DEF FinalUnknown
      <4>3. QED
        BY <4>1, <4>2
    <3>6. QED
      BY <3>3, <3>5 DEF FinalUnknown
  <2>4. QED
    BY <1>1, <2>2, <2>3, WorkerRows
<1>2. ASSUME World PROVE PublishedIsKept' /\ FinalUnknown'
  <2>1. DOMAIN attempts' = DOMAIN attempts
    BY <1>2, WorldRows
  <2>2. ASSUME NEW v \in Workers, worker'[v].pc \in Unpublished
        PROVE  worker'[v] = worker[v]
    <3>1. CASE \E w \in Workers : Crash(w)
      <4>1. PICK w \in Workers : Crash(w)
        BY <3>1
      <4>2. worker' = [worker EXCEPT ![w] = IdleWorker]
        BY <4>1 DEF Crash, Stops
      <4>3. QED
        BY <1>0, <2>2, <4>2 DEF IdleWorker, Unpublished
    <3>2. CASE worker' = worker
      BY <3>2
    <3>3. QED
      BY <1>2, <3>1, <3>2
         DEF World, Cancel, CancelCommits, Retry, RequestAgain, Drift,
             LeaseEnds, Clean
  <2> DEFINE Same(n) ==
        LET old == attempts[n]
            new == attempts'[n]
        IN  /\ new.status = "succeeded" => old.status = "succeeded"
            /\ \/ new.objects["final"] = old.objects["final"]
               \/ old.objects["final"].managed \in {"scheduled", "active"}
               \/ /\ old.objects["final"].managed = "deleted"
                  /\ old.status # "succeeded"
  <2>3. ASSUME NEW n \in DOMAIN attempts PROVE Same(n)
    <3>0. /\ attempts[n] \in AttemptStates
          /\ attempts[n].objects \in [Parts -> ObjectStates]
          /\ "final" \in Parts
      BY <1>0 DEF Parts
    <3>u. attempts'[n] = attempts[n] => Same(n)
      OBVIOUS
    <3>1. CASE CancelCommits
      <4>1. CASE attempts' = attempts
        BY <3>u, <4>1
      <4>2. CASE /\ attempts' = [attempts EXCEPT
                       ![Len(attempts)].status = "cancelled",
                       ![Len(attempts)].objects = Due(@, cancelling.parts)]
                 /\ n = Len(attempts)
        <5>1. /\ attempts'[n].status = "cancelled"
              /\ attempts'[n].objects = Due(attempts[n].objects,
                                          cancelling.parts)
          BY <1>0, <3>0, <4>2 DEF AttemptStates
        <5>2. \/ attempts'[n].objects["final"]
                   = attempts[n].objects["final"]
              \/ attempts[n].objects["final"].managed
                   \in {"scheduled", "active", "deleted"}
          <6>1. attempts[n].objects["final"].managed \in
                  {"none", "active", "scheduled", "referenced", "deleted"}
            BY <3>0 DEF ObjectStates
          <6>2. CASE "final" \notin cancelling.parts
            BY <3>0, <5>1, <6>2, ObjectsEach
          <6>3. CASE "final" \in cancelling.parts
            BY <3>1, <4>2, <6>1, <6>3 DEF Found, CancelCommits
          <6>4. QED
            BY <6>2, <6>3
        <5>3. attempts[n].status # "succeeded"
          BY <3>1, <4>2, <5>1 DEF CancelCommits
        <5>4. QED
          BY <5>1, <5>2, <5>3
      <4>3. CASE /\ attempts' = [attempts EXCEPT
                       ![Len(attempts)].status = "cancelled",
                       ![Len(attempts)].objects = Due(@, cancelling.parts)]
                 /\ n # Len(attempts)
        BY <1>0, <3>u, <4>3
      <4>4. QED
        BY <3>1, <4>1, <4>2, <4>3 DEF CancelCommits
    <3>2. ASSUME NEW k \in DOMAIN attempts, NEW part \in Parts,
                 Clean(k, part)
          PROVE  Same(n)
      <4>1. CASE k # n
        BY <1>0, <3>u, <3>2, <4>1 DEF Clean
      <4>2. CASE k = n
        <5>1. /\ attempts'[n].status = attempts[n].status
              /\ attempts'[n].objects =
                   [attempts[n].objects EXCEPT
                      ![part] = [stored |-> FALSE, managed |-> "deleted"]]
          BY <1>0, <3>0, <3>2, <4>2 DEF Clean, AttemptStates
        <5>2. attempts[n].objects[part].managed \in {"scheduled", "active"}
          BY <3>2, <4>2 DEF Clean
        <5>3. QED
          BY <3>0, <5>1, <5>2
      <4>3. QED
        BY <4>1, <4>2
    <3>3. CASE attempts' = attempts
      BY <3>u, <3>3
    <3> HIDE DEF Same
    <3>4. QED
      BY <1>2, <3>1, <3>2, <3>3
         DEF World, Cancel, Retry, RequestAgain, Drift, LeaseEnds, Crash
  <2>4. PublishedIsKept'
    BY <2>1, <2>3 DEF PublishedIsKept
  <2>5. FinalUnknown'
    BY <1>0, <2>2, <2>3 DEF FinalUnknown
  <2>6. QED
    BY <2>4, <2>5
<1>3. QED
  BY <1>1, <1>2 DEF Next

---------------------------------------------------------------------------
(* Hazards *)

PutPcs == {"put-failed", "put-known", "put-settled"}

\* What is not as it should be has been met.
HazardsMet ==
  /\ drifted => met["drift"] > 0
  /\ run.late => met["time"] > 0
  /\ \A w \in Workers :
       worker[w].pc \in PutPcs => met["put"] > 0 \/ met["half-put"] > 0

LEMMA PutFailsByHazard ==
  ASSUME TypeOK, NEW w \in Workers, WorkerStep(w),
         worker'[w].pc \in PutPcs, worker[w].pc \notin PutPcs
  PROVE  met'["put"] > 0 \/ met'["half-put"] > 0
<1>0. /\ worker \in [Workers -> WorkerStates] /\ worker[w] \in WorkerStates
      /\ met \in [Hazards -> Nat]
      /\ "put" \in Hazards /\ "half-put" \in Hazards
  BY DEF TypeOK, Hazards
<1>g. ASSUME NEW pc, Goes(w, pc) PROVE worker'[w].pc = pc
  BY <1>0, <1>g DEF Goes, WorkerStates
<1>s. ~Stops(w)
  BY <1>0 DEF Stops, IdleWorker, PutPcs
<1>n. ASSUME NEW pc, pc \notin PutPcs PROVE ~Goes(w, pc)
  BY <1>g, <1>n
<1>r. ~Raises(w)
  BY <1>n DEF Raises, PutPcs
<1>p. ASSUME NEW part, NEW pc \in {"stored", "publishing"},
             Put(w, part, pc)
      PROVE  met'["put"] > 0 \/ met'["half-put"] > 0
  <2>1. worker' # [worker EXCEPT ![w].pc = pc, ![w].keys = Counted(w, part)]
    BY <1>0 DEF WorkerStates, PutPcs
  <2>2. Meet("put") \/ Meet("half-put")
    BY <1>p, <2>1 DEF Put
  <2>3. QED
    BY <1>0, <2>2, MeetTyped
<1>1. ~Deliver(w) /\ ~PreflightFailure(w) /\ ~ExecutionFailure(w)
  <2>1. worker' # worker
    BY <1>0
  <2>2. QED
    BY <2>1, <1>s, <1>n
       DEF Deliver, PreflightFailure, ExecutionFailure, PutPcs
<1>2. ~Claim(w)
  <2>1. worker' # [worker EXCEPT ![w].pc = "claimed",
                                 ![w].attempt = Len(attempts) + 1]
    BY <1>0 DEF WorkerStates, PutPcs
  <2>2. QED
    BY <2>1, <1>n DEF Claim, PutPcs
<1>3. ~Disclose(w) /\ ~ProviderAnswers(w) /\ ~RecordProviderFailure(w)
  BY <1>r, <1>s, <1>n
     DEF Disclose, ProviderAnswers, RecordProviderFailure, PutPcs
<1>4. ~RegisterLayer(w) /\ ~Compose(w) /\ ~Publish(w)
  BY <1>r, <1>s, <1>n DEF RegisterLayer, Compose, Publish, PutPcs
<1>5. ~RegisterKeys(w)
  BY <1>n DEF RegisterKeys, PutPcs
<1>6. ~CompensatePut(w) /\ ~ObjectFailure(w)
  BY DEF CompensatePut, ObjectFailure, PutPcs
<1>7. ~CompensateRun(w)
  BY <1>n, <1>s DEF CompensateRun, Compensate, PutPcs
<1>8. CASE PutLayer(w) \/ PutFinal(w)
  BY <1>8, <1>p, <1>r DEF PutLayer, PutFinal
<1>9. QED
  BY <1>1, <1>2, <1>3, <1>4, <1>5, <1>6, <1>7, <1>8 DEF WorkerStep

LEMMA HazardsStep ==
  ASSUME TypeOK, HazardsMet, Next
  PROVE  HazardsMet'
<1>0. /\ worker \in [Workers -> WorkerStates]
      /\ run \in RunStates /\ met \in [Hazards -> Nat]
      /\ {"put", "half-put", "drift", "time"} \subseteq Hazards
  BY DEF TypeOK, Hazards
<1>m. /\ met' \in [Hazards -> Nat]
      /\ \A x \in Hazards : met[x] > 0 => met'[x] > 0
  BY <1>0, MetTyped
<1>1. ASSUME drifted' PROVE met'["drift"] > 0
  <2>1. CASE drifted
    BY <1>0, <1>m, <2>1 DEF HazardsMet
  <2>2. CASE Drift
    BY <1>0, <2>2, MeetTyped DEF Drift
  <2>3. ASSUME NEW w \in Workers, WorkerStep(w) PROVE drifted' = drifted
    BY <2>3 DEF WorkerStep, Deliver, Claim, PreflightFailure, Disclose,
                ProviderAnswers, RecordProviderFailure, PutLayer,
                RegisterLayer, Compose, PutFinal, Publish, RegisterKeys,
                CompensatePut, ObjectFailure, CompensateRun,
                ExecutionFailure
  <2>4. ASSUME World, ~Drift PROVE drifted' = drifted
    BY <2>4 DEF World, Cancel, CancelCommits, Retry, RequestAgain,
                LeaseEnds, Clean, Crash
  <2>5. QED
    BY <1>1, <2>1, <2>2, <2>3, <2>4 DEF Next
<1>2. ASSUME run'.late PROVE met'["time"] > 0
  <2>1. CASE run.late
    BY <1>0, <1>m, <2>1 DEF HazardsMet
  <2>2. CASE LeaseEnds
    BY <1>0, <2>2, MeetTyped DEF LeaseEnds
  <2>3. ASSUME NEW w \in Workers, WorkerStep(w) PROVE run'.late => run.late
    BY <1>0, <2>3, RunSteps DEF RunStep, RunStates
  <2>4. ASSUME World, ~LeaseEnds PROVE run'.late => run.late
    <3>1. CancelCommits => run'.late = FALSE
      BY <1>0 DEF CancelCommits, Ends, RunStates
    <3>2. Retry => run'.late = FALSE
      BY <1>0 DEF Retry, RunStates
    <3>3. QED
      BY <2>4, <3>1, <3>2 DEF World, Cancel, RequestAgain, Drift, Clean, Crash
  <2>5. QED
    BY <1>2, <2>1, <2>2, <2>3, <2>4 DEF Next
<1>3. ASSUME NEW v \in Workers, worker'[v].pc \in PutPcs
      PROVE  met'["put"] > 0 \/ met'["half-put"] > 0
  <2>1. CASE worker[v].pc \in PutPcs
    BY <1>0, <1>m, <2>1 DEF HazardsMet
  <2>2. CASE worker[v].pc \notin PutPcs
    <3>1. worker'[v] # worker[v]
      BY <1>3, <2>2
    <3>2. ASSUME NEW w \in Workers, WorkerStep(w)
          PROVE  met'["put"] > 0 \/ met'["half-put"] > 0
      BY <1>3, <2>2, <3>1, <3>2, WorkerSteps, PutFailsByHazard
    <3>3. ASSUME NEW w \in Workers, Crash(w) PROVE FALSE
      <4>1. worker' = [worker EXCEPT ![w] = IdleWorker]
        BY <3>3 DEF Crash, Stops
      <4>2. QED
        BY <1>0, <1>3, <3>1, <4>1 DEF IdleWorker, PutPcs
    <3>4. World => \E w \in Workers : Crash(w)
      BY <3>1
         DEF World, Cancel, CancelCommits, Retry, RequestAgain, Drift,
             LeaseEnds, Clean
    <3>5. QED
      BY <3>2, <3>3, <3>4 DEF Next
  <2>3. QED
    BY <2>1, <2>2
<1>4. QED
  BY <1>1, <1>2, <1>3 DEF HazardsMet

---------------------------------------------------------------------------
(* Runs at work *)

\* A run at work is held by a worker that is up, if its pictures were not
\* refused, and a worker that has read what another has changed does not hold
\* it.
Held ==
  /\ run.status = "working"
       => /\ run.claim \in DOMAIN attempts
          /\ \/ met["crash"] > 0 \/ met["time"] > 0 \/ run.refused
             \/ \E w \in Workers : worker[w].attempt = run.claim
  /\ \A w \in stale :
       run.status = "working" => run.claim # worker[w].attempt

\* A worker gives up a run at work only when it is overtaken or late, or the
\* pictures are refused.
LEMMA GivesUp ==
  ASSUME TypeOK, NEW w \in Workers, WorkerStep(w),
         run.status = "working", run' = run,
         worker[w].pc \notin Early, worker'[w].pc \in Early
  PROVE  \/ w \in stale \/ run.late \/ run.refused
         \/ run.claim # worker[w].attempt
<1>0. /\ worker \in [Workers -> WorkerStates] /\ worker[w] \in WorkerStates
      /\ run \in RunStates
  BY DEF TypeOK
<1>g. ASSUME NEW pc, pc \notin Early PROVE ~Goes(w, pc)
  BY <1>0, <1>g DEF Goes, WorkerStates
<1>r. ~Raises(w)
  BY <1>g DEF Raises, Early
<1>e. ASSUME NEW status \in Ended PROVE ~Ends(status)
  BY <1>0, <1>e DEF Ends, RunStates, Ended
<1>n. {"succeeded", "failed", "unknown"} \subseteq Ended
  BY DEF Ended
<1>1. ~Deliver(w) /\ ~Claim(w) /\ ~PreflightFailure(w)
  BY DEF Deliver, Claim, PreflightFailure, Early
<1>2. ~ProviderAnswers(w) /\ ~RegisterLayer(w) /\ ~Compose(w)
      /\ ~RegisterKeys(w) /\ ~ObjectFailure(w)
  BY <1>r, <1>g DEF ProviderAnswers, RegisterLayer, Compose, RegisterKeys,
                    ObjectFailure, Early
<1>d. Disclose(w) => run.refused
  BY <1>r, <1>g DEF Disclose, Early
<1>p. ASSUME NEW part, NEW pc \in {"stored", "publishing"}
      PROVE  ~Put(w, part, pc)
  <2>1. worker' # [worker EXCEPT ![w].pc = pc, ![w].keys = Counted(w, part)]
    BY <1>0 DEF WorkerStates, Early
  <2>2. QED
    BY <2>1, <1>g DEF Put, Early
<1>3. ~PutLayer(w) /\ ~PutFinal(w)
  BY <1>p, <1>r DEF PutLayer, PutFinal
<1>4. ~Publish(w)
  BY <1>r, <1>e, <1>n DEF Publish
<1>5. CASE RecordProviderFailure(w)
  BY <1>5, <1>r, <1>e, <1>n
     DEF RecordProviderFailure, Current, Ended
<1>6. ~CompensatePut(w)
  BY <1>g DEF CompensatePut, Compensate, Early
<1>7. CASE CompensateRun(w)
  BY <1>7, <1>g DEF CompensateRun, Compensate, CompensateThrows, Throws,
                    Early
<1>8. CASE ExecutionFailure(w)
  BY <1>8, <1>e, <1>n DEF ExecutionFailure, Throws, Closes, Ended
<1>9. QED
  BY <1>1, <1>2, <1>d, <1>3, <1>4, <1>5, <1>6, <1>7, <1>8 DEF WorkerStep

LEMMA HeldStep ==
  ASSUME TypeOK, TypeOK', Apart, HazardsMet, Held, Next
  PROVE  Held'
<1>0. /\ attempts \in Seq(AttemptStates)
      /\ 0 \notin DOMAIN attempts /\ Len(attempts) + 1 \notin DOMAIN attempts
      /\ run \in RunStates /\ stale \subseteq Workers
      /\ \A v \in Workers :
           worker[v].attempt \in DOMAIN attempts \cup {0}
  <2>1. attempts \in Seq(AttemptStates) /\ Len(attempts) \in Nat
    BY DEF TypeOK
  <2>2. 0 \notin DOMAIN attempts /\ Len(attempts) + 1 \notin DOMAIN attempts
    BY <2>1
  <2>3. run \in RunStates /\ stale \subseteq Workers
    BY DEF TypeOK
  <2>4. \A v \in Workers : worker[v].attempt \in DOMAIN attempts \cup {0}
    BY DEF TypeOK
  <2>5. QED
    BY <2>1, <2>2, <2>3, <2>4
<1>m. /\ met["crash"] > 0 => met'["crash"] > 0
      /\ met["time"] > 0 => met'["time"] > 0
  BY MetTyped DEF TypeOK, Hazards
<1>d. DOMAIN attempts \subseteq DOMAIN attempts'
  BY StepRows
<1>1. ASSUME NEW w \in Workers, WorkerStep(w) PROVE Held'
  <2>0. /\ \A v \in Workers : v # w => worker'[v] = worker[v]
        /\ \/ worker'[w] = worker[w]
           \/ worker'[w].pc \in Early /\ worker'[w].attempt = 0
           \/ worker'[w].attempt = worker[w].attempt
           \/ /\ worker'[w].attempt = Len(attempts) + 1
              /\ attempts' = Append(attempts, NewAttempt)
    BY <1>1, WorkerSteps
  <2>1. CASE run'.status # "working"
    BY <2>1 DEF Held
  <2>2. CASE /\ run' = run /\ run.status = "working"
             /\ \/ stale' = stale
                \/ stale' = stale \ {w}
                \/ Current(w) /\ Changes(w)
    <3>0. run.claim \in DOMAIN attempts /\ run.claim # 0
      BY <1>0, <2>2 DEF Held
    <3>1. ASSUME NEW v \in Workers, worker[v].attempt = run.claim
          PROVE  \/ met["time"] > 0 \/ run.refused
                 \/ worker'[v].attempt = run.claim
      <4>1. CASE v # w
        BY <2>0, <3>1, <4>1
      <4>2. CASE v = w
        <5>1. worker[w].pc \notin Early
          BY <3>0, <3>1, <4>2 DEF TypeOK, Early
        <5>2. CASE worker'[w].pc \in Early
          BY <1>1, <2>2, <3>1, <4>2, <5>1, <5>2, GivesUp
             DEF Held, HazardsMet
        <5>3. CASE worker'[w].pc \notin Early
          <6>1. worker'[w] = worker[w]
                \/ worker'[w].attempt = worker[w].attempt
            BY <1>1, <5>1, <5>3, WorkerSteps DEF Claim, Early
          <6>2. QED
            BY <3>1, <4>2, <6>1
        <5>4. QED
          BY <5>2, <5>3
      <4>3. QED
        BY <4>1, <4>2
    <3>2. ASSUME NEW v \in stale' PROVE run.claim # worker'[v].attempt
      <4>0. v \in Workers
        BY <3>2 DEF TypeOK
      <4>1. CASE v # w
        <5>1. CASE v \in stale
          BY <2>0, <2>2, <4>0, <4>1, <5>1 DEF Held
        <5>2. CASE Current(w)
          BY <2>0, <3>0, <4>0, <4>1, <5>2 DEF Current, Apart
        <5>3. QED
          BY <2>2, <3>2, <5>1, <5>2
      <4>2. CASE v = w
        <5>1. v \in stale
          BY <2>2, <3>2, <4>2 DEF Changes
        <5>2. run.claim # worker[w].attempt
          BY <2>2, <4>2, <5>1 DEF Held
        <5>3. QED
          BY <1>0, <2>0, <3>0, <4>2, <5>2
      <4>3. QED
        BY <4>1, <4>2
    <3>3. QED
      BY <1>d, <1>m, <2>2, <3>0, <3>1, <3>2 DEF Held
  <2>3. CASE /\ run' = [run EXCEPT !.status = "working", !.late = FALSE,
                                   !.claim = Len(attempts) + 1]
             /\ attempts' = Append(attempts, NewAttempt)
             /\ worker' = [worker EXCEPT ![w].pc = "claimed",
                                         ![w].attempt = Len(attempts) + 1]
             /\ Changes(w)
    <3>1. /\ run'.claim = Len(attempts) + 1
          /\ Len(attempts) + 1 \in DOMAIN attempts'
      BY <1>0, <2>3, RowAdded DEF RunStates
    <3>2. worker'[w].attempt = Len(attempts) + 1
      BY <2>3 DEF TypeOK, WorkerStates
    <3>3. ASSUME NEW v \in stale' PROVE run'.claim # worker'[v].attempt
      <4>1. v \in Workers /\ v # w
        BY <2>3, <3>3 DEF Changes, AtWork
      <4>2. QED
        BY <1>0, <2>0, <3>1, <4>1
    <3>4. QED
      BY <3>1, <3>2, <3>3 DEF Held
  <2>4. QED
    BY <1>0, <1>1, <2>1, <2>2, <2>3, RunSteps DEF RunStep, Ended
<1>2. CASE CancelCommits \/ Retry
  <2>1. run'.status # "working"
    BY <1>0, <1>2 DEF CancelCommits, Ends, Retry, RunStates
  <2>2. QED
    BY <2>1 DEF Held
<1>3. CASE LeaseEnds
  <2>1. /\ run'.status = run.status /\ run'.claim = run.claim
        /\ run'.refused = run.refused
        /\ stale' = stale /\ worker' = worker /\ attempts' = attempts
    BY <1>0, <1>3 DEF LeaseEnds, RunStates
  <2>2. QED
    BY <1>m, <2>1 DEF Held
<1>4. ASSUME NEW w \in Workers, Crash(w) PROVE Held'
  <2>1. /\ run' = run /\ stale' = stale \ {w} /\ attempts' = attempts
        /\ \A v \in Workers : v # w => worker'[v] = worker[v]
    BY <1>4 DEF Crash, Keeps, Stops, TypeOK
  <2>2. met'["crash"] > 0
    BY <1>4, MeetTyped DEF Crash, TypeOK, Hazards
  <2>3. QED
    BY <1>0, <2>1, <2>2 DEF Held
<1>5. ASSUME Cancel \/ RequestAgain \/ Drift
             \/ \E n \in DOMAIN attempts, part \in Parts : Clean(n, part)
      PROVE  Held'
  <2>1. run' = run /\ stale' = stale /\ worker' = worker
    BY <1>5 DEF Cancel, RequestAgain, Drift, Clean
  <2>2. QED
    BY <1>d, <1>m, <2>1 DEF Held
<1>6. QED
  BY <1>1, <1>2, <1>3, <1>4, <1>5 DEF Next, World

---------------------------------------------------------------------------
(* Objects *)

Empty == {"claimed", "called", "erred", "drawn"}
Composed == {"composing", "scanned", "publishing"}
Let == {"known", "closing"}

Blind == met["crash"] > 0 \/ met["half-put"] > 0 \/ met["unregistered"] > 0

\* What is deleted is not stored.
Gone ==
  \A n \in DOMAIN attempts, part \in Parts :
      attempts[n].objects[part].managed = "deleted"
    => ~attempts[n].objects[part].stored

\* A worker has nothing before it puts the layer, and composes a cover when
\* the layer is registered.
LayerKnown ==
  \A w \in Workers :
    LET layer == attempts[worker[w].attempt].objects["layer"]
    IN  /\ worker[w].pc \in Empty
             => worker[w].keys = {} /\ layer.managed = "none"
        /\ worker[w].pc \in Composed /\ "layer" \in worker[w].keys
             => layer.managed # "none"

\* What is stored and not registered is in the hands of a worker that will
\* register it.
InHand ==
  \A n \in DOMAIN attempts, part \in Parts :
      /\ attempts[n].objects[part].stored
      /\ attempts[n].objects[part].managed = "none"
    => \/ Blind
       \/ \E w \in Workers : /\ worker[w].attempt = n
                             /\ part \in worker[w].keys
                             /\ worker[w].pc \notin Let

\* The attempt of the worker that takes the step.
LEMMA OwnObjects ==
  ASSUME TypeOK, Apart, FinalUnknown, Gone, LayerKnown, InHand,
         NEW w \in Workers, WorkerStep(w), RowStep(w),
         worker[w].attempt \in DOMAIN attempts
  PROVE  LET n == worker[w].attempt
             new == attempts'[n].objects
             layer == new["layer"]
         IN  /\ \A part \in Parts :
                  /\ new[part].managed = "deleted" => ~new[part].stored
                  /\ new[part].stored /\ new[part].managed = "none"
                       => \/ Blind'
                          \/ /\ worker'[w].attempt = n
                             /\ part \in worker'[w].keys
                             /\ worker'[w].pc \notin Let
             /\ worker'[w].pc \in Empty
                  => worker'[w].keys = {} /\ layer.managed = "none"
             /\ worker'[w].pc \in Composed /\ "layer" \in worker'[w].keys
                  => layer.managed # "none"
<1> DEFINE n == worker[w].attempt
           row == attempts[n]
           old == row.objects
           new == attempts'[n].objects
           pc1 == worker[w].pc
           pc2 == worker'[w].pc
           keys1 == worker[w].keys
           keys2 == worker'[w].keys
           Holds == \A part \in Parts :
                      /\ new[part].managed = "deleted" => ~new[part].stored
                      /\ new[part].stored /\ new[part].managed = "none"
                           => \/ Blind'
                              \/ /\ worker'[w].attempt = n
                                 /\ part \in keys2 /\ pc2 \notin Let
           Layer == /\ pc2 \in Empty
                         => keys2 = {} /\ new["layer"].managed = "none"
                    /\ pc2 \in Composed /\ "layer" \in keys2
                         => new["layer"].managed # "none"
           Fine == Holds /\ Layer
<1>0. /\ attempts \in Seq(AttemptStates) /\ n \in DOMAIN attempts
      /\ row \in AttemptStates
      /\ old \in [Parts -> ObjectStates]
      /\ worker \in [Workers -> WorkerStates] /\ worker[w] \in WorkerStates
      /\ n # 0
      /\ "final" \in Parts /\ "layer" \in Parts
  <2>1. attempts \in Seq(AttemptStates) /\ n \in DOMAIN attempts
    BY DEF TypeOK
  <2>2. row \in AttemptStates /\ n # 0
    BY <2>1
  <2>3. old \in [Parts -> ObjectStates]
    BY <2>2 DEF AttemptStates
  <2>4. worker \in [Workers -> WorkerStates] /\ worker[w] \in WorkerStates
    BY DEF TypeOK
  <2>5. QED
    BY <2>1, <2>2, <2>3, <2>4 DEF Parts
<1>1. /\ \A part \in Parts :
           /\ old[part].managed = "deleted" => ~old[part].stored
           /\ old[part].stored /\ old[part].managed = "none"
                => Blind \/ (part \in keys1 /\ pc1 \notin Let)
      /\ pc1 \in Empty => keys1 = {} /\ old["layer"].managed = "none"
      /\ pc1 \in Composed /\ "layer" \in keys1
           => old["layer"].managed # "none"
      /\ pc1 \in Unpublished => old["final"].managed = "none"
  <2>1. ASSUME NEW part \in Parts, old[part].stored,
               old[part].managed = "none", ~Blind
        PROVE  part \in keys1 /\ pc1 \notin Let
    <3>1. PICK v \in Workers : /\ worker[v].attempt = n
                               /\ part \in worker[v].keys
                               /\ worker[v].pc \notin Let
      BY <1>0, <2>1 DEF InHand
    <3>2. v = w
      BY <1>0, <3>1 DEF Apart
    <3>3. QED
      BY <3>1, <3>2
  <2>2. \A part \in Parts :
          old[part].managed = "deleted" => ~old[part].stored
    BY <1>0 DEF Gone
  <2>3. /\ pc1 \in Empty => keys1 = {} /\ old["layer"].managed = "none"
        /\ pc1 \in Composed /\ "layer" \in keys1
             => old["layer"].managed # "none"
    BY <1>0 DEF LayerKnown
  <2>4. pc1 \in Unpublished => old["final"].managed = "none"
    BY <1>0 DEF FinalUnknown
  <2>5. QED
    BY <2>1, <2>2, <2>3, <2>4
<1>b. Blind => Blind'
  BY MetTyped DEF Blind, TypeOK, Hazards, Next
<1>g. ASSUME NEW pc, Goes(w, pc)
      PROVE  pc2 = pc /\ keys2 = keys1 /\ worker'[w].attempt = n
  BY <1>0, <1>g DEF Goes, WorkerStates
<1>s. Stops(w) => pc2 = "idle"
  BY <1>0 DEF Stops, IdleWorker
<1>q. /\ {"idle", "stored", "put-failed", "put-known", "put-settled",
          "failing", "known", "closing"} \cap (Empty \cup Composed) = {}
      /\ {"called", "erred", "drawn"} \subseteq Empty
      /\ {"composing", "scanned", "publishing"} \subseteq Composed
      /\ Empty \cap Composed = {}
      /\ (Empty \cup Composed) \cap Let = {}
      /\ {"stored", "put-failed", "put-known", "put-settled", "failing"}
           \cap Let = {}
      /\ {"known", "closing"} \subseteq Let
  BY DEF Empty, Composed, Let
<1>e. ASSUME NEW part \in Parts
      PROVE  /\ \A put \in Parts :
                  /\ Stored(old, put)[part].managed = old[part].managed
                  /\ part # put => Stored(old, put)[part] = old[part]
             /\ \A parts, state :
                  LET it == Registered(old, parts, state)[part]
                  IN  /\ it.stored = old[part].stored
                      /\ \/ /\ part \in parts /\ old[part].managed = "none"
                            /\ it.managed = state
                         \/ /\ part \notin parts \/ old[part].managed # "none"
                            /\ it.managed = old[part].managed
             /\ LET it == Scheduled(old)[part]
                IN  /\ it.stored = old[part].stored
                    /\ \/ it.managed = old[part].managed
                       \/ /\ old[part].managed # "none"
                          /\ it.managed = "scheduled"
  BY <1>0, ObjectsEach
<1>n. /\ \A objects : attempts' = [attempts EXCEPT ![n].objects = objects]
                        => new = objects
      /\ \A status : attempts' = [attempts EXCEPT ![n].status = status]
                        => new = old
      /\ attempts' = attempts => new = old
  BY <1>0 DEF AttemptStates
<1> HIDE DEF n, row, old, new, pc1, pc2, keys1, keys2, Fine, Holds, Layer
\* The objects stay, and so does what the worker has in its hands.
<1>u. ASSUME new = old, keys2 = keys1, worker'[w].attempt = n,
             pc2 \notin Let,
             \/ pc2 \notin Empty \cup Composed
             \/ pc1 \in Empty
             \/ pc1 \in Composed /\ pc2 \in Composed
      PROVE  Fine
  BY <1>1, <1>b, <1>u, <1>q DEF Fine, Holds, Layer
<1>r. ASSUME Raises(w) PROVE Fine
  BY <1>r, <1>u, <1>n, <1>g, <1>q DEF Raises
<1>2. ASSUME Deliver(w) \/ Claim(w) \/ PreflightFailure(w) PROVE Fine
  <2>1. worker[w].pc \in Early
    BY <1>2 DEF Deliver, Claim, PreflightFailure, Early
  <2>2. n = 0
    BY <2>1 DEF TypeOK, Early, n
  <2>3. QED
    BY <1>0, <2>2
<1>3. ASSUME Disclose(w) PROVE Fine
  <2>0. pc1 \in Empty
    BY <1>3 DEF Disclose, Empty, pc1
  <2>1. ASSUME Goes(w, "called"),
               attempts' = [attempts EXCEPT ![n].calls = @ + 1]
        PROVE  Fine
    <3>1. new = old
      BY <1>0, <2>1 DEF AttemptStates, new, old, row
    <3>2. QED
      BY <1>g, <1>u, <1>q, <2>0, <2>1, <3>1
  <2>2. ASSUME Goes(w, "composing"), attempts' = attempts PROVE Fine
    BY <1>g, <1>u, <1>n, <1>q, <2>0, <2>2
  <2>3. ASSUME Stops(w), attempts' = attempts PROVE Fine
    BY <1>1, <1>s, <1>n, <1>b, <1>q, <2>0, <2>3 DEF Fine, Holds, Layer
  <2>4. QED
    BY <1>3, <1>r, <2>1, <2>2, <2>3 DEF Disclose, n
<1>4. ASSUME ProviderAnswers(w) \/ Compose(w) PROVE Fine
  <2>1. ASSUME NEW pc \in {"drawn", "erred"}, Goes(w, pc),
               pc1 = "called", attempts' = attempts
        PROVE  Fine
    BY <1>g, <1>u, <1>n, <1>q, <2>1 DEF Empty
  <2>2. ASSUME Goes(w, "scanned"), pc1 = "composing", attempts' = attempts
        PROVE  Fine
    BY <1>g, <1>u, <1>n, <1>q, <2>2 DEF Composed
  <2>3. QED
    BY <1>4, <1>r, <2>1, <2>2 DEF ProviderAnswers, Compose, pc1
<1>5. ASSUME RecordProviderFailure(w) PROVE Fine
  <2>1. ASSUME Stops(w), new = old, pc1 = "erred" PROVE Fine
    BY <1>1, <1>s, <1>b, <1>q, <2>1 DEF Fine, Holds, Layer
  <2>2. ASSUME NEW status, AttemptEnds(worker[w].attempt, status)
        PROVE  new = old
    BY <1>n, <2>2 DEF AttemptEnds, n
  <2>3. QED
    BY <1>5, <1>r, <1>n, <2>1, <2>2 DEF RecordProviderFailure, pc1
<1>6. ASSUME ObjectFailure(w) PROVE Fine
  <2>1. ASSUME NEW status, AttemptEnds(n, status), Goes(w, "failing")
        PROVE  Fine
    BY <1>u, <1>n, <1>g, <1>q, <2>1 DEF AttemptEnds
  <2>2. QED
    BY <1>6, <1>r, <2>1 DEF ObjectFailure, n
<1>l. ASSUME pc1 \in Let, new = old, pc2 = "idle" PROVE Fine
  BY <1>1, <1>b, <1>q, <1>l DEF Fine, Holds, Layer
<1>7. ASSUME ExecutionFailure(w) PROVE Fine
  <2>1. new = old
    BY <1>7, <1>n DEF ExecutionFailure, AttemptEnds, n
  <2>2. QED
    BY <1>7, <1>s, <1>l, <1>q, <2>1 DEF ExecutionFailure, pc1
<1>p. ASSUME NEW part \in Parts, old[part].managed = "none",
             NEW pc \in {"stored", "publishing"}, Put(w, part, pc),
             pc = "publishing" => pc1 \in Composed /\ part = "final"
      PROVE  Fine
  <2>1. CASE Goes(w, "put-failed") /\ attempts' = attempts
    BY <1>u, <1>n, <1>g, <1>q, <2>1
  <2>2. CASE /\ Goes(w, "put-failed") /\ Meet("half-put")
             /\ attempts' = [attempts EXCEPT ![n].objects = Stored(@, part)]
    <3>1. Blind'
      BY <2>2, MeetTyped DEF Blind, TypeOK, Hazards
    <3>2. new = Stored(old, part)
      BY <1>n, <2>2 DEF old, row
    <3>3. pc2 \notin Empty \cup Composed
      BY <1>g, <1>q, <2>2
    <3>4. QED
      BY <1>1, <1>e, <1>p, <3>1, <3>2, <3>3 DEF Fine, Holds, Layer
  <2>3. CASE /\ worker' = [worker EXCEPT ![w].pc = pc,
                                         ![w].keys = Counted(w, part)]
             /\ attempts' = [attempts EXCEPT ![n].objects = Stored(@, part)]
    <3>1. pc2 = pc /\ keys2 = keys1 \cup {part} /\ worker'[w].attempt = n
      BY <1>0, <2>3 DEF WorkerStates, Counted, pc2, keys2, keys1, n
    <3>2. new = Stored(old, part)
      BY <1>n, <2>3 DEF old, row
    <3>3. Holds
      <4>1. pc2 \notin Let
        BY <1>p, <1>q, <3>1
      <4>2. ASSUME NEW it \in Parts
            PROVE  /\ new[it].managed = "deleted" => ~new[it].stored
                   /\ new[it].stored /\ new[it].managed = "none"
                        => Blind' \/ it \in keys2
        <5>1. CASE it = part
          BY <1>e, <1>p, <3>1, <3>2, <5>1
        <5>2. CASE it # part
          BY <1>1, <1>b, <1>e, <3>1, <3>2, <5>2
        <5>3. QED
          BY <5>1, <5>2
      <4>3. QED
        BY <3>1, <4>1, <4>2 DEF Holds
    <3>4. Layer
      <4>1. CASE pc = "stored"
        BY <1>q, <3>1, <4>1 DEF Layer
      <4>2. CASE pc = "publishing"
        BY <1>0, <1>1, <1>e, <1>p, <1>q, <3>1, <3>2, <4>2 DEF Layer
      <4>3. QED
        BY <1>p, <4>1, <4>2
    <3>5. QED
      BY <3>3, <3>4 DEF Fine
  <2>4. QED
    BY <1>p, <2>1, <2>2, <2>3 DEF Put, n
<1>8. ASSUME PutLayer(w) PROVE Fine
  BY <1>8, <1>0, <1>1, <1>p DEF PutLayer, Empty, pc1
<1>9. ASSUME PutFinal(w) PROVE Fine
  BY <1>9, <1>0, <1>1, <1>p, <1>r DEF PutFinal, Composed, Unpublished, pc1
<1>10. ASSUME RegisterLayer(w) PROVE Fine
  <2>1. ASSUME Goes(w, "composing"),
               attempts' = [attempts EXCEPT ![n].objects =
                              Registered(@, {"layer"}, "active")]
        PROVE  Fine
    <3>1. new = Registered(old, {"layer"}, "active")
      BY <1>n, <2>1 DEF old, row
    <3>2. /\ keys2 = keys1 /\ worker'[w].attempt = n
          /\ pc2 \in Composed /\ pc2 \notin Empty \cup Let
      BY <1>g, <1>q, <2>1
    <3>3. Holds
      BY <1>1, <1>b, <1>e, <3>1, <3>2 DEF Holds
    <3>4. new["layer"].managed # "none"
      BY <1>0, <1>e, <3>1
    <3>5. QED
      BY <3>2, <3>3, <3>4 DEF Fine, Layer
  <2>2. QED
    BY <1>10, <1>r, <2>1 DEF RegisterLayer, n
<1>11. ASSUME Publish(w) PROVE Fine
  <2>1. ASSUME attempts' = [attempts EXCEPT ![n].status = "succeeded",
                                            ![n].objects = Published(@)],
               Stops(w) \/ Goes(w, "failing"), pc1 = "publishing"
        PROVE  Fine
    <3>1. new = Registered(old, {"final"}, "referenced")
      BY <1>0, <2>1 DEF AttemptStates, Published, new, old, row
    <3>2. pc2 \notin Empty \cup Composed
      BY <1>g, <1>s, <1>q, <2>1
    <3>3. ASSUME NEW part \in Parts
          PROVE  /\ new[part].managed = "deleted" => ~new[part].stored
                 /\ new[part].stored /\ new[part].managed = "none" => Blind'
      <4>1. CASE part = "final"
        BY <1>1, <1>e, <2>1, <3>1, <4>1 DEF Unpublished
      <4>2. CASE part = "layer"
        BY <1>1, <1>b, <1>e, <1>q, <2>1, <3>1, <4>2
      <4>3. QED
        BY <4>1, <4>2 DEF Parts
    <3>4. QED
      BY <3>2, <3>3 DEF Fine, Holds, Layer
  <2>2. QED
    BY <1>11, <1>r, <2>1 DEF Publish, n, pc1
<1>12. ASSUME RegisterKeys(w) PROVE Fine
  <2>1. /\ pc2 \notin Empty \cup Composed
    BY <1>12, <1>g, <1>q DEF RegisterKeys
  <2>2. CASE Meet("unregistered") /\ attempts' = attempts
    <3>1. Blind'
      BY <2>2, MeetTyped DEF Blind, TypeOK, Hazards
    <3>2. QED
      BY <1>1, <1>n, <2>1, <2>2, <3>1 DEF Fine, Holds, Layer
  <2>3. CASE attempts' = [attempts EXCEPT ![n].objects =
                            Registered(@, keys1, "active")]
    <3>1. new = Registered(old, keys1, "active")
      BY <1>n, <2>3 DEF old, row
    <3>2. Holds
      BY <1>1, <1>b, <1>e, <3>1 DEF Holds
    <3>3. QED
      BY <2>1, <3>2 DEF Fine, Layer
  <2>4. QED
    BY <1>12, <2>2, <2>3 DEF RegisterKeys, n, keys1
<1>k. ASSUME NEW pc, Compensate(w, pc)
      PROVE  /\ \A part \in Parts :
                  /\ new[part].stored = old[part].stored
                  /\ \/ new[part].managed = old[part].managed
                     \/ /\ old[part].managed # "none"
                        /\ new[part].managed = "scheduled"
             /\ pc2 = pc /\ keys2 = keys1 /\ worker'[w].attempt = n
  <2>1. new = Scheduled(old) \/ new = old
    BY <1>k, <1>n DEF Compensate, n, old, row
  <2>2. pc2 = pc /\ keys2 = keys1 /\ worker'[w].attempt = n
    BY <1>k, <1>g DEF Compensate
  <2>3. QED
    BY <1>e, <2>1, <2>2
<1>13. ASSUME CompensatePut(w) PROVE Fine
  <2>1. ASSUME Compensate(w, "put-settled") PROVE Fine
    <3>1. Holds
      BY <1>1, <1>b, <1>k, <1>q, <2>1 DEF Holds
    <3>2. QED
      BY <1>k, <1>q, <2>1, <3>1 DEF Fine, Layer
  <2>2. ASSUME CompensateThrows(w), Goes(w, "failing") PROVE Fine
    BY <1>u, <1>n, <1>g, <1>q, <2>2 DEF CompensateThrows
  <2>3. QED
    BY <1>13, <2>1, <2>2 DEF CompensatePut
<1>14. ASSUME CompensateRun(w) PROVE Fine
  <2>0. pc1 \in Let
    BY <1>14, <1>q DEF CompensateRun, pc1
  <2>1. ASSUME Compensate(w, "closing") PROVE Fine
    <3>1. Holds
      BY <1>1, <1>b, <1>k, <2>0, <2>1 DEF Holds
    <3>2. QED
      BY <1>k, <1>q, <2>1, <3>1 DEF Fine, Layer
  <2>2. ASSUME CompensateThrows(w), Stops(w) PROVE Fine
    BY <1>l, <1>n, <1>s, <2>0, <2>2 DEF CompensateThrows
  <2>3. QED
    BY <1>14, <2>1, <2>2 DEF CompensateRun
<1>15. QED
  <2>1. Fine
    BY <1>2, <1>3, <1>4, <1>5, <1>6, <1>7, <1>8, <1>9, <1>10, <1>11,
       <1>12, <1>13, <1>14 DEF WorkerStep
  <2>2. QED
    BY <2>1 DEF Fine, Holds, Layer, n, new, pc2, keys2

\* A worker that has no attempt has nothing in its hands.
EmptyHanded ==
  \A w \in Workers : worker[w].pc \in Early => worker[w].keys = {}

LEMMA EmptyHandedStep ==
  ASSUME TypeOK, EmptyHanded, Next
  PROVE  EmptyHanded'
<1>0. worker \in [Workers -> WorkerStates]
  BY DEF TypeOK
<1>1. ASSUME NEW w \in Workers, WorkerStep(w) \/ Crash(w)
      PROVE  worker'[w].pc \in Early => worker'[w].keys = {}
  <2> DEFINE Fine == worker'[w].pc \in Early => worker'[w].keys = {}
  <2> SUFFICES Fine
    OBVIOUS
  <2>0. worker[w] \in WorkerStates
    BY <1>0
  <2>s. Stops(w) => Fine
    BY <1>0 DEF Stops, IdleWorker
  <2>g. ASSUME NEW pc, Goes(w, pc), pc \notin Early \/ worker[w].pc \in Early
        PROVE  Fine
    BY <1>0, <2>0, <2>g DEF Goes, WorkerStates, EmptyHanded
  <2>u. worker' = worker => Fine
    BY DEF EmptyHanded
  <2>e. Early = {"idle", "received", "refused"}
    BY DEF Early
  <2>r. Raises(w) => Fine
    BY <2>g, <2>e DEF Raises
  <2>p. ASSUME NEW part, NEW next \in {"stored", "publishing"},
               Put(w, part, next)
        PROVE  Fine
    <3>1. CASE worker' = [worker EXCEPT ![w].pc = next,
                                        ![w].keys = Counted(w, part)]
      BY <1>0, <2>0, <2>e, <3>1 DEF WorkerStates
    <3>2. CASE Goes(w, "put-failed")
      BY <2>g, <2>e, <3>2
    <3>3. QED
      BY <2>p, <3>1, <3>2 DEF Put
  <2>c. ASSUME NEW next \in {"put-settled", "closing"}, Compensate(w, next)
        PROVE  Fine
    BY <2>g, <2>e, <2>c DEF Compensate
  <2>1. CASE Deliver(w) \/ PreflightFailure(w) \/ Crash(w)
    BY <2>1, <2>s, <2>g, <2>u, <2>e DEF Deliver, PreflightFailure, Crash
  <2>2. CASE Claim(w)
    <3>1. CASE worker' = [worker EXCEPT ![w].pc = "claimed",
                                        ![w].attempt = Len(attempts) + 1]
      BY <1>0, <2>0, <2>e, <3>1 DEF WorkerStates
    <3>2. CASE Goes(w, "refused")
      BY <2>2, <2>g, <2>e, <3>2 DEF Claim
    <3>3. QED
      BY <2>2, <3>1, <3>2 DEF Claim
  <2> HIDE DEF Fine
  <2>3. CASE \/ Disclose(w) \/ ProviderAnswers(w) \/ RecordProviderFailure(w)
             \/ RegisterLayer(w) \/ Compose(w) \/ Publish(w)
    BY <2>3, <2>s, <2>g, <2>r, <2>e
       DEF Disclose, ProviderAnswers, RecordProviderFailure, RegisterLayer,
           Compose, Publish
  <2>4. CASE PutLayer(w) \/ PutFinal(w)
    BY <2>4, <2>p, <2>r DEF PutLayer, PutFinal
  <2>5. CASE \/ RegisterKeys(w) \/ CompensatePut(w) \/ ObjectFailure(w)
             \/ CompensateRun(w) \/ ExecutionFailure(w)
    BY <2>5, <2>s, <2>g, <2>r, <2>c, <2>e
       DEF RegisterKeys, CompensatePut, ObjectFailure, CompensateRun,
           ExecutionFailure
  <2>6. QED
    BY <1>1, <2>1, <2>2, <2>3, <2>4, <2>5 DEF WorkerStep
<1>2. ASSUME NEW w \in Workers, WorkerStep(w) \/ Crash(w)
      PROVE  EmptyHanded'
  BY <1>1, <1>2, WorkerSteps DEF EmptyHanded
<1>3. CASE worker' = worker
  BY <1>3 DEF EmptyHanded
<1>4. QED
  BY <1>2, <1>3
     DEF Next, World, Cancel, CancelCommits, Retry, RequestAgain, Drift,
         LeaseEnds, Clean

\* What the world does to an object: it is registered no more and no less,
\* nothing is written, and what is deleted is not stored.
LEMMA WorldObjects ==
  ASSUME TypeOK, Found, World, NEW n \in DOMAIN attempts, NEW part \in Parts
  PROVE  LET old == attempts[n].objects[part]
             new == attempts'[n].objects[part]
         IN  /\ new.managed = "none" <=> old.managed = "none"
             /\ new.stored => old.stored
             /\ new.managed = "deleted"
                  => ~new.stored \/ old.managed = "deleted"
<1> DEFINE old == attempts[n].objects[part]
           new == attempts'[n].objects[part]
           Fine == /\ new.managed = "none" <=> old.managed = "none"
                   /\ new.stored => old.stored
                   /\ new.managed = "deleted"
                        => ~new.stored \/ old.managed = "deleted"
<1>0. /\ attempts \in Seq(AttemptStates)
      /\ attempts[n] \in AttemptStates
      /\ attempts[n].objects \in [Parts -> ObjectStates]
  <2>1. attempts \in Seq(AttemptStates)
    BY DEF TypeOK
  <2>2. attempts[n] \in AttemptStates
    BY <2>1
  <2>3. QED
    BY <2>1, <2>2 DEF AttemptStates
<1>u. attempts'[n] = attempts[n] => Fine
  OBVIOUS
<1>1. ASSUME CancelCommits PROVE Fine
  <2>1. CASE attempts' = attempts
    BY <1>u, <2>1
  <2>2. CASE /\ attempts' = [attempts EXCEPT
                   ![Len(attempts)].status = "cancelled",
                   ![Len(attempts)].objects = Due(@, cancelling.parts)]
             /\ n = Len(attempts)
    <3>1. attempts'[n].objects = Due(attempts[n].objects, cancelling.parts)
      BY <1>0, <2>2 DEF AttemptStates
    <3>2. CASE part \notin cancelling.parts
      BY <1>0, <3>1, <3>2, ObjectsEach
    <3>3. CASE part \in cancelling.parts
      <4>1. old.managed \notin {"none", "referenced"}
        BY <1>1, <2>2, <3>3 DEF Found, CancelCommits
      <4>2. new.managed = "scheduled" /\ new.stored = old.stored
        BY <1>0, <3>1, <3>3, ObjectsEach
      <4> QED BY <4>1, <4>2
    <3>4. QED
      BY <3>2, <3>3
  <2>3. CASE /\ attempts' = [attempts EXCEPT
                   ![Len(attempts)].status = "cancelled",
                   ![Len(attempts)].objects = Due(@, cancelling.parts)]
             /\ n # Len(attempts)
    BY <1>0, <1>u, <2>3
  <2>4. QED
    BY <1>1, <2>1, <2>2, <2>3 DEF CancelCommits
<1>2. ASSUME NEW k \in DOMAIN attempts, NEW it \in Parts, Clean(k, it)
      PROVE  Fine
  <2>1. CASE k # n
    BY <1>0, <1>u, <1>2, <2>1 DEF Clean
  <2>2. CASE k = n
    <3>1. attempts'[n].objects =
            [attempts[n].objects EXCEPT
               ![it] = [stored |-> FALSE, managed |-> "deleted"]]
      BY <1>0, <1>2, <2>2 DEF Clean, AttemptStates
    <3>2. attempts[n].objects[it].managed \in {"scheduled", "active"}
      BY <1>2, <2>2 DEF Clean
    <3>3. QED
      BY <1>0, <3>1, <3>2
  <2>3. QED
    BY <2>1, <2>2
<1>3. ASSUME attempts' = attempts PROVE Fine
  BY <1>u, <1>3
<1> HIDE DEF Fine, old, new
<1>4. QED
  <2>1. \/ CancelCommits \/ attempts' = attempts
        \/ \E k \in DOMAIN attempts, it \in Parts : Clean(k, it)
    BY DEF World, Cancel, Retry, RequestAgain, Drift, LeaseEnds, Crash
  <2>2. Fine
    BY <1>1, <1>2, <1>3, <2>1
  <2>3. QED
    BY <2>2 DEF Fine, old, new

LEMMA ObjectsStep ==
  ASSUME TypeOK, Found, Apart, FinalUnknown, Gone, LayerKnown, InHand,
         EmptyHanded, Next
  PROVE  Gone' /\ LayerKnown' /\ InHand'
<1>0. /\ attempts \in Seq(AttemptStates)
      /\ worker \in [Workers -> WorkerStates]
      /\ \A v \in Workers :
           worker[v].pc \in Empty \cup Composed
             => worker[v].attempt \in DOMAIN attempts
      /\ 0 \notin DOMAIN attempts
      /\ "layer" \in Parts
  <2>1. attempts \in Seq(AttemptStates) /\ 0 \notin DOMAIN attempts
    BY DEF TypeOK
  <2>2. ASSUME NEW v \in Workers, worker[v].pc \in Empty \cup Composed
        PROVE  worker[v].attempt \in DOMAIN attempts
    BY <2>2 DEF TypeOK, Empty, Composed
  <2>3. worker \in [Workers -> WorkerStates]
    BY DEF TypeOK
  <2>4. "layer" \in Parts
    BY DEF Parts
  <2>5. QED
    BY <2>1, <2>2, <2>3, <2>4
<1>b. Blind => Blind'
  BY MetTyped DEF Blind, TypeOK, Hazards
<1>1. ASSUME NEW w \in Workers, WorkerStep(w)
      PROVE  Gone' /\ LayerKnown' /\ InHand'
  <2> DEFINE m == worker[w].attempt
  <2>1. \A v \in Workers : v # w => worker'[v] = worker[v]
    BY <1>1, WorkerSteps
  <2>2. CASE RowStep(w)
    <3> DEFINE new == attempts'[m].objects
    <3>1. /\ DOMAIN attempts' = DOMAIN attempts
          /\ \A n \in DOMAIN attempts : n # m => attempts'[n] = attempts[n]
      BY <1>0, <2>2, RowChanged DEF RowStep
    <3>2. m \in DOMAIN attempts
            => /\ \A part \in Parts :
                    /\ new[part].managed = "deleted" => ~new[part].stored
                    /\ new[part].stored /\ new[part].managed = "none"
                         => \/ Blind'
                            \/ /\ worker'[w].attempt = m
                               /\ part \in worker'[w].keys
                               /\ worker'[w].pc \notin Let
               /\ worker'[w].pc \in Empty
                    => worker'[w].keys = {} /\ new["layer"].managed = "none"
               /\ worker'[w].pc \in Composed /\ "layer" \in worker'[w].keys
                    => new["layer"].managed # "none"
      BY <1>1, <2>2, OwnObjects
    <3>3. worker'[w].pc \in Empty \cup Composed
            => m \in DOMAIN attempts /\ worker'[w].attempt = m
      <4>1. attempts' # Append(attempts, NewAttempt)
        BY <1>0, <3>1, RowAdded
      <4>2. CASE worker'[w] = worker[w]
        BY <1>0, <4>2
      <4>3. CASE worker'[w].pc \in Early
        BY <4>3 DEF Early, Empty, Composed
      <4>4. CASE worker[w].pc \notin Early /\ worker'[w].attempt = m
        BY <4>4 DEF TypeOK, Early
      <4>5. QED
        BY <1>1, <4>1, <4>2, <4>3, <4>4, WorkerSteps
    <3> HIDE DEF new
    <3>4. Gone'
      <4>1. ASSUME NEW n \in DOMAIN attempts', NEW part \in Parts,
                   attempts'[n].objects[part].managed = "deleted"
            PROVE  ~attempts'[n].objects[part].stored
        <5>1. CASE n = m
          BY <3>1, <3>2, <4>1, <5>1 DEF new
        <5>2. CASE n # m
          BY <3>1, <4>1, <5>2 DEF Gone
        <5>3. QED
          BY <5>1, <5>2
      <4>2. QED
        BY <4>1 DEF Gone
    <3>5. LayerKnown'
      <4>1. ASSUME NEW v \in Workers,
                   worker'[v].pc \in Empty \cup Composed
            PROVE  LET layer == attempts'[worker'[v].attempt].objects["layer"]
                   IN  /\ worker'[v].pc \in Empty
                            => worker'[v].keys = {} /\ layer.managed = "none"
                       /\ worker'[v].pc \in Composed
                            /\ "layer" \in worker'[v].keys
                            => layer.managed # "none"
        <5>1. CASE v = w
          BY <3>2, <3>3, <4>1, <5>1 DEF new
        <5>2. CASE v # w
          <6>1. /\ worker'[v] = worker[v]
                /\ worker[v].attempt \in DOMAIN attempts
            BY <1>0, <2>1, <4>1, <5>2
          <6>2. worker[v].attempt # m
            BY <1>0, <5>2, <6>1 DEF Apart
          <6>3. QED
            BY <3>1, <6>1, <6>2 DEF LayerKnown
        <5>3. QED
          BY <5>1, <5>2
      <4>2. QED
        BY <4>1 DEF LayerKnown
    <3>6. InHand'
      <4>1. ASSUME NEW n \in DOMAIN attempts', NEW part \in Parts,
                   attempts'[n].objects[part].stored,
                   attempts'[n].objects[part].managed = "none", ~Blind'
            PROVE  \E v \in Workers : /\ worker'[v].attempt = n
                                      /\ part \in worker'[v].keys
                                      /\ worker'[v].pc \notin Let
        <5>1. CASE n = m
          BY <3>1, <3>2, <4>1, <5>1 DEF new
        <5>2. CASE n # m
          <6>1. PICK v \in Workers : /\ worker[v].attempt = n
                                     /\ part \in worker[v].keys
                                     /\ worker[v].pc \notin Let
            BY <1>b, <3>1, <4>1, <5>2 DEF InHand
          <6>2. v # w
            BY <5>2, <6>1
          <6>3. QED
            BY <2>1, <6>1, <6>2
        <5>3. QED
          BY <5>1, <5>2
      <4>2. QED
        BY <4>1 DEF InHand
    <3>7. QED
      BY <3>4, <3>5, <3>6
  <2>3. CASE attempts' = Append(attempts, NewAttempt)
    <3>1. /\ \A n \in DOMAIN attempts : attempts'[n] = attempts[n]
          /\ attempts'[Len(attempts) + 1] = NewAttempt
          /\ DOMAIN attempts' = DOMAIN attempts \cup {Len(attempts) + 1}
      BY <1>0, <2>3, RowAdded
    <3>2. \A part \in Parts : /\ NewAttempt.objects[part].managed = "none"
                              /\ ~NewAttempt.objects[part].stored
      BY DEF NewAttempt, NoObject
    <3>3. Claim(w)
      BY <1>0, <1>1, <2>3, <3>1, RowChanged, WorkerRows DEF RowStep
    <3>4. worker[w].pc = "received" /\ worker[w].keys = {} /\ m = 0
      BY <3>3 DEF Claim, EmptyHanded, Early, TypeOK
    <3>5. /\ worker'[w].keys = {}
          /\ worker'[w].pc \in Empty \cup Composed
               => worker'[w].attempt = Len(attempts) + 1
                  /\ worker'[w].pc = "claimed"
      <4>1. CASE worker' = [worker EXCEPT ![w].pc = "claimed",
                                   ![w].attempt = Len(attempts) + 1]
        BY <1>0, <3>4, <4>1 DEF WorkerStates
      <4>2. CASE Goes(w, "refused")
        <5>1. worker'[w].pc = "refused" /\ worker'[w].keys = {}
          BY <1>0, <3>4, <4>2 DEF Goes, WorkerStates
        <5>2. QED
          BY <5>1 DEF Empty, Composed
      <4>3. QED
        BY <3>3, <4>1, <4>2 DEF Claim
    <3>6. Gone'
      BY <3>1, <3>2 DEF Gone
    <3>7. LayerKnown'
      <4>1. ASSUME NEW v \in Workers,
                   worker'[v].pc \in Empty \cup Composed
            PROVE  LET layer == attempts'[worker'[v].attempt].objects["layer"]
                   IN  /\ worker'[v].pc \in Empty
                            => worker'[v].keys = {} /\ layer.managed = "none"
                       /\ worker'[v].pc \in Composed
                            /\ "layer" \in worker'[v].keys
                            => layer.managed # "none"
        <5>1. CASE v = w
          BY <1>0, <3>1, <3>2, <3>5, <4>1, <5>1
        <5>2. CASE v # w
          <6>1. /\ worker'[v] = worker[v]
                /\ worker[v].attempt \in DOMAIN attempts
            BY <1>0, <2>1, <4>1, <5>2
          <6>2. QED
            BY <3>1, <6>1 DEF LayerKnown
        <5>3. QED
          BY <5>1, <5>2
      <4>2. QED
        BY <4>1 DEF LayerKnown
    <3>8. InHand'
      <4>1. ASSUME NEW n \in DOMAIN attempts', NEW part \in Parts,
                   attempts'[n].objects[part].stored,
                   attempts'[n].objects[part].managed = "none", ~Blind'
            PROVE  \E v \in Workers : /\ worker'[v].attempt = n
                                      /\ part \in worker'[v].keys
                                      /\ worker'[v].pc \notin Let
        <5>1. n \in DOMAIN attempts
          BY <3>1, <3>2, <4>1
        <5>2. PICK v \in Workers : /\ worker[v].attempt = n
                                   /\ part \in worker[v].keys
                                   /\ worker[v].pc \notin Let
          BY <1>b, <3>1, <4>1, <5>1 DEF InHand
        <5>3. v # w
          BY <3>4, <5>2
        <5>4. QED
          BY <2>1, <5>2, <5>3
      <4>2. QED
        BY <4>1 DEF InHand
    <3>9. QED
      BY <3>6, <3>7, <3>8
  <2>4. QED
    BY <1>1, <2>2, <2>3, WorkerRows
<1>2. ASSUME World PROVE Gone' /\ LayerKnown' /\ InHand'
  <2>1. DOMAIN attempts' = DOMAIN attempts
    BY <1>2, WorldRows
  <2>2. ASSUME NEW n \in DOMAIN attempts, NEW part \in Parts
        PROVE  LET old == attempts[n].objects[part]
                   new == attempts'[n].objects[part]
               IN  /\ new.managed = "none" <=> old.managed = "none"
                   /\ new.stored => old.stored
                   /\ new.managed = "deleted"
                        => ~new.stored \/ old.managed = "deleted"
    BY <1>2, <2>2, WorldObjects
  <2>3. \/ worker' = worker
        \/ \E w \in Workers : Crash(w)
    BY <1>2 DEF World, Cancel, CancelCommits, Retry, RequestAgain, Drift,
                LeaseEnds, Clean
  <2>4. Gone'
    BY <2>1, <2>2 DEF Gone
  <2>5. LayerKnown'
    <3>1. ASSUME NEW v \in Workers, worker'[v].pc \in Empty \cup Composed
          PROVE  worker'[v] = worker[v]
      <4>1. ASSUME NEW w \in Workers, Crash(w) PROVE worker'[v] = worker[v]
        <5>1. worker' = [worker EXCEPT ![w] = IdleWorker]
          BY <4>1 DEF Crash, Stops
        <5>2. QED
          BY <1>0, <3>1, <5>1 DEF IdleWorker, Empty, Composed
      <4>2. QED
        BY <2>3, <4>1
    <3>2. QED
      BY <1>0, <2>2, <3>1 DEF LayerKnown
  <2>6. InHand'
    <3>1. ASSUME NEW w \in Workers, Crash(w) PROVE Blind'
      BY <3>1, MeetTyped DEF Crash, Blind, TypeOK, Hazards
    <3>2. CASE worker' = worker
      BY <1>b, <2>1, <2>2, <3>2 DEF InHand
    <3>3. QED
      BY <2>3, <3>1, <3>2 DEF InHand
  <2>7. QED
    BY <2>4, <2>5, <2>6
<1>3. QED
  BY <1>1, <1>2 DEF Next

---------------------------------------------------------------------------
(* The inductive invariant and the theorems *)

Inv ==
  /\ TypeOK
  /\ Found
  /\ Apart
  /\ Granted
  /\ CallsOnce
  /\ PublishedIsKept
  /\ FinalUnknown
  /\ HazardsMet
  /\ Held
  /\ EmptyHanded
  /\ Gone
  /\ LayerKnown
  /\ InHand

LEMMA InvInit == Init => Inv
<1> SUFFICES ASSUME Init PROVE Inv
  OBVIOUS
<1>1. /\ attempts = <<>> /\ Len(attempts) = 0 /\ DOMAIN attempts = {}
      /\ run.status = "queued" /\ run.retries = 0
      /\ \A w \in Workers : worker[w].pc = "idle" /\ worker[w].attempt = 0
  BY DEF Init, IdleWorker
<1>2. Granted
  BY <1>1 DEF Granted
<1>3. Apart /\ CallsOnce /\ PublishedIsKept /\ FinalUnknown
  BY <1>1 DEF Apart, CallsOnce, PublishedIsKept, FinalUnknown, Unpublished
<1>4. Held
  BY <1>1 DEF Init, Held
<1>5. ~drifted /\ ~run.late
  BY DEF Init
<1>6. HazardsMet
  BY <1>1, <1>5 DEF HazardsMet, PutPcs
<1>7. EmptyHanded
  BY DEF Init, IdleWorker, EmptyHanded
<1>8. Gone /\ LayerKnown /\ InHand
  BY <1>1 DEF Gone, LayerKnown, InHand, Empty, Composed
<1>9. Found
  BY DEF Init, NoCancel, Found
<1>10. QED
  BY <1>2, <1>3, <1>4, <1>6, <1>7, <1>8, <1>9, TypeInit DEF Inv

LEMMA InvStep == Inv /\ [Next]_vars => Inv'
<1> SUFFICES ASSUME Inv, [Next]_vars PROVE Inv'
  OBVIOUS
<1>1. CASE UNCHANGED vars
  BY <1>1 DEF Inv, TypeOK, Found, Apart, Granted, CallsOnce, PublishedIsKept,
              FinalUnknown, HazardsMet, Held, EmptyHanded, Gone, LayerKnown,
              InHand, Blind, vars
<1>2. CASE Next
  BY <1>2, TypeStep, FoundStep, ApartStep, GrantedStep, CallsOnceStep,
     PublishedStep, HazardsStep, HeldStep, EmptyHandedStep, ObjectsStep DEF Inv
<1>3. QED
  BY <1>1, <1>2

LEMMA InvAlways == Spec => []Inv
BY InvInit, InvStep, PTL DEF Spec

\* However often a message is delivered, and whoever is overtaken or dies,
\* the provider is called at most once for each claim, and there is at most
\* one claim for the request and one for each manual retry.
THEOREM CoverCalledOncePerGrant == Spec => []CalledOncePerGrant
<1>1. Inv => CalledOncePerGrant
  BY DEF Inv, Granted, CallsOnce, CalledOncePerGrant, TypeOK, RunStates
<1>2. QED
  BY <1>1, InvAlways, PTL

\* The cover of an attempt that succeeded is never cleaned away.
THEOREM CoverPublishedIsKept == Spec => []PublishedIsKept
<1>1. Inv => PublishedIsKept
  BY DEF Inv
<1>2. QED
  BY <1>1, InvAlways, PTL

\* What is written is known to the cleaner once no worker is at it: what a
\* worker has in its hands it registers before it lets go of it.
THEOREM CoverObjectsKnown == Spec => []ObjectsKnown
<1>1. ASSUME Inv, AtWork = {},
             Unmet({"crash", "half-put", "unregistered"}),
             NEW n \in DOMAIN attempts, NEW part \in Parts,
             attempts[n].objects[part].stored
      PROVE  attempts[n].objects[part].managed \notin {"none", "deleted"}
  <2>1. ~Blind
    BY <1>1 DEF Unmet, Blind
  <2>2. \A w \in Workers : worker[w].keys = {}
    BY <1>1 DEF Inv, AtWork, EmptyHanded, Early
  <2>3. attempts[n].objects[part].managed # "none"
    BY <1>1, <2>1, <2>2 DEF Inv, InHand
  <2>4. attempts[n].objects[part].managed # "deleted"
    BY <1>1 DEF Inv, Gone
  <2>5. QED
    BY <2>3, <2>4
<1>2. Inv => ObjectsKnown
  BY <1>1 DEF ObjectsKnown
<1>3. QED
  BY <1>2, InvAlways, PTL

\* Only a changed binding and a failed write of an overtaken worker undo a
\* success.
THEOREM CoverSuccessIsFinal == Spec => SuccessIsFinal
<1>1. ASSUME Inv, [Next]_vars, run.status = "succeeded",
             Unmet({"drift", "put", "half-put"})
      PROVE  run'.status = "succeeded"
  <2>0. /\ met["drift"] = 0 /\ met["put"] = 0 /\ met["half-put"] = 0
        /\ run \in RunStates
    BY <1>1 DEF Inv, TypeOK, Unmet
  <2>1. ~drifted /\ \A w \in Workers : worker[w].pc # "put-settled"
    BY <1>1, <2>0 DEF Inv, HazardsMet, PutPcs
  <2>2. ASSUME NEW w \in Workers, WorkerStep(w)
        PROVE  run'.status = "succeeded"
    <3>1. RunStep(w)
      BY <1>1, <2>2, RunSteps DEF Inv
    <3>2. \/ run' = run \/ run.status = "queued"
          \/ run.status = "succeeded"
               => \/ run'.status = "succeeded" \/ drifted
                  \/ worker[w].pc = "put-settled"
      BY <3>1, Zenon DEF RunStep
    <3>3. QED
      BY <1>1, <2>1, <2>2, <3>2
  <2>3. ASSUME World PROVE run'.status = "succeeded"
    <3>1. LeaseEnds => run'.status = run.status
      BY <2>0 DEF LeaseEnds, RunStates
    <3>2. ~CancelCommits /\ ~Retry
      <4>1. ~cancelling.open
        BY <1>1 DEF Inv, Found
      <4> QED BY <1>1, <4>1 DEF CancelCommits, Retry, Retryable
    <3>3. QED
      BY <1>1, <2>3, <3>1, <3>2
         DEF World, Cancel, RequestAgain, Drift, Clean, Crash
  <2>4. CASE UNCHANGED vars
    BY <1>1, <2>4 DEF vars
  <2>5. QED
    BY <1>1, <2>2, <2>3, <2>4 DEF Next
<1>2. Inv /\ [Next]_vars
        => (run.status = "succeeded" /\ Unmet({"drift", "put", "half-put"})
              => run'.status = "succeeded")
  BY <1>1
<1>3. QED
  BY <1>2, InvAlways, PTL DEF Spec, SuccessIsFinal

\* A run is at work only while a worker is at it, unless one died or was late
\* or its pictures are refused.
THEOREM CoverNoWorkLeftOpen == Spec => []NoWorkLeftOpen
<1>1. ASSUME Inv, AtWork = {}, Unmet({"crash", "time"}), ~run.refused,
             run.status = "working"
      PROVE  FALSE
  <2>1. /\ met["crash"] = 0 /\ met["time"] = 0
        /\ attempts \in Seq(AttemptStates)
    BY <1>1 DEF Inv, TypeOK, Unmet
  <2>2. PICK w \in Workers : worker[w].attempt = run.claim
    BY <1>1, <2>1 DEF Inv, Held
  <2>3. worker[w].attempt # 0
    BY <1>1, <2>1, <2>2 DEF Inv, Held
  <2>4. worker[w].pc = "idle"
    BY <1>1 DEF AtWork
  <2>5. QED
    BY <1>1, <2>3, <2>4 DEF Inv, TypeOK
<1>2. Inv => NoWorkLeftOpen
  BY <1>1 DEF NoWorkLeftOpen
<1>3. QED
  BY <1>2, InvAlways, PTL

---------------------------------------------------------------------------
(* Cancelled runs *)

\* When a run is cancelled, what its latest attempt stored and the cleaner
\* does not take at once is left to a worker that is at the attempt, and will
\* find the run cancelled: from "known" on nothing but a change of the run
\* keeps it from scheduling its objects, which takes an overlap with the
\* cancel.
Waits(object) == object.stored /\ object.managed \notin {"scheduled",
                                                         "referenced"}
Lost == Blind \/ (met["overlap"] > 0 /\ met["conflict"] > 0)

Settles(w) ==
  /\ worker[w].pc # "closing"
  /\ worker[w].pc = "known" => w \notin stale \/ met["overlap"] > 0

CancelHeld ==
  LET n == Len(attempts)
  IN  run.status = "cancelled" /\ n > 0 /\ attempts[n].status # "succeeded"
    => \A part \in Parts :
         Waits(attempts[n].objects[part])
           => Lost \/ \E w \in Workers : worker[w].attempt = n /\ Settles(w)

\* What a cancel under way has not found, and the cleaner does not take at
\* once, was registered meanwhile by a worker that has yet to compensate it.
Missed ==
  LET n == Len(attempts)
  IN  cancelling.open /\ n > 0 /\ attempts[n].status # "succeeded"
    => \A part \in Parts \ cancelling.parts :
         /\ Waits(attempts[n].objects[part])
         /\ attempts[n].objects[part].managed # "none"
         => \/ Lost
            \/ /\ met["overlap"] > 0
               /\ \E w \in Workers : /\ worker[w].attempt = n
                                     /\ part \in worker[w].keys
                                     /\ worker[w].pc # "closing"

\* No worker cancels a run, or changes one that is cancelled and leaves it so.
LEMMA CancelledStays ==
  ASSUME TypeOK, NEW w \in Workers, WorkerStep(w), run'.status = "cancelled"
  PROVE  run' = run /\ stale' \subseteq stale
<1> DEFINE Fine == run' = run /\ stale' \subseteq stale
<1> SUFFICES Fine
  OBVIOUS
<1>0. run \in RunStates
  BY DEF TypeOK
<1>e. \A status : Ends(status) => status = "cancelled"
  BY <1>0 DEF Ends, RunStates
<1>c. run' = run => ~Current(w)
  BY DEF Current, Ended
<1>k. run' = run /\ (stale' = stale \/ Keeps(w)) => Fine
  BY DEF Keeps
<1>r. Raises(w) => Fine
  BY <1>k DEF Raises
<1>1. CASE Deliver(w)
  <2>1. run' # Invalidated
    BY <1>0 DEF Invalidated, RunStates
  <2> QED BY <1>1, <1>k, <2>1 DEF Deliver
<1>2. CASE Claim(w) \/ PreflightFailure(w)
  <2>1. CASE run' = run
    BY <1>2, <1>k, <2>1 DEF Claim, PreflightFailure, Claimable
  <2>2. CASE run' # run
    BY <1>0, <1>2, <2>2 DEF Claim, PreflightFailure, RunStates
  <2> QED BY <2>1, <2>2
<1>3. CASE Disclose(w) \/ ProviderAnswers(w) \/ Compose(w)
  BY <1>3, <1>c, <1>k, <1>r DEF Disclose, ProviderAnswers, Compose
<1>4. CASE RecordProviderFailure(w) \/ Publish(w)
  BY <1>4, <1>e, <1>k, <1>r DEF RecordProviderFailure, Publish
<1>5. CASE PutLayer(w) \/ RegisterLayer(w) \/ PutFinal(w) \/ RegisterKeys(w)
  BY <1>5, <1>k, <1>r DEF PutLayer, RegisterLayer, PutFinal, RegisterKeys
<1>6. ASSUME NEW next, Compensate(w, next) PROVE Fine
  BY <1>6, <1>e, <1>k DEF Compensate
<1>7. CASE CompensatePut(w) \/ CompensateRun(w)
  BY <1>6, <1>7, <1>k DEF CompensatePut, CompensateRun, CompensateThrows
<1>8. CASE ObjectFailure(w) \/ ExecutionFailure(w)
  <2>1. ~Ends("failed") /\ ~Ends("compensation")
    BY <1>e
  <2> QED BY <1>8, <1>k, <1>r, <2>1 DEF ObjectFailure, ExecutionFailure
<1> QED BY <1>1, <1>2, <1>3, <1>4, <1>5, <1>7, <1>8 DEF WorkerStep

\* The worker that is at the attempt goes on, or has nothing left to
\* schedule.
LEMMA OwnSettled ==
  ASSUME TypeOK, Apart, FinalUnknown, LayerKnown, InHand, ~Lost',
         NEW w \in Workers, WorkerStep(w),
         worker[w].attempt \in DOMAIN attempts,
         run' = run, stale' \subseteq stale, run.status = "cancelled",
         NEW part \in Parts,
         LET n == worker[w].attempt
         IN  /\ Waits(attempts[n].objects[part]) => Settles(w)
             /\ Waits(attempts'[n].objects[part])
  PROVE  worker'[w].attempt = worker[w].attempt /\ Settles(w)'
<1> DEFINE n == worker[w].attempt
           old == attempts[n].objects
           new == attempts'[n].objects
           Fine == worker'[w].attempt = n /\ Settles(w)'
<1> SUFFICES Fine
  OBVIOUS
<1>0. /\ attempts \in Seq(AttemptStates) /\ n \in DOMAIN attempts
      /\ attempts[n] \in AttemptStates
      /\ old \in [Parts -> ObjectStates]
      /\ worker \in [Workers -> WorkerStates] /\ worker[w] \in WorkerStates
      /\ n # 0
  <2>1. attempts \in Seq(AttemptStates) /\ n \in DOMAIN attempts
    BY DEF TypeOK
  <2>2. attempts[n] \in AttemptStates /\ n # 0
    BY <2>1
  <2> QED BY <2>1, <2>2 DEF TypeOK, AttemptStates
<1>b. ~Blind
  BY MetTyped DEF Lost, Blind, TypeOK, Hazards, Next
\* What is stored and not registered is in the worker's hands.
<1>h. old[part].stored /\ old[part].managed = "none"
        => part \in worker[w].keys /\ worker[w].pc \notin Let
  <2> SUFFICES ASSUME old[part].stored, old[part].managed = "none"
               PROVE  part \in worker[w].keys /\ worker[w].pc \notin Let
    OBVIOUS
  <2>1. PICK v \in Workers : /\ worker[v].attempt = n
                             /\ part \in worker[v].keys
                             /\ worker[v].pc \notin Let
    BY <1>0, <1>b DEF InHand
  <2>2. v = w
    BY <1>0, <2>1 DEF Apart
  <2> QED BY <2>1, <2>2
<1>c. ~Current(w)
  BY DEF Current, Ended
<1>g. ASSUME NEW pc, Goes(w, pc), pc # "closing",
             pc = "known" => w \notin stale'
      PROVE  Fine
  BY <1>0, <1>g DEF Goes, WorkerStates, Settles
<1>r. Raises(w) => Fine
  BY <1>g DEF Raises
<1>s. attempts' = attempts => Waits(old[part]) /\ Settles(w)
  OBVIOUS
<1>e. \A status : Ends(status) => status = "cancelled"
  BY DEF Ends, TypeOK, RunStates
<1> HIDE DEF Fine
<1>1. CASE Deliver(w) \/ Claim(w) \/ PreflightFailure(w)
  BY <1>0, <1>1 DEF Deliver, Claim, PreflightFailure, TypeOK
\* A worker that has written nothing yet has nothing to schedule.
<1>n. ASSUME worker[w].pc \in {"claimed", "erred"}, attempts' = attempts
      PROVE  FALSE
  <2>1. worker[w].keys = {} /\ old["layer"].managed = "none"
    BY <1>n DEF LayerKnown, Empty
  <2>2. old["final"].managed = "none"
    BY <1>n DEF FinalUnknown, Unpublished
  <2>3. old[part].managed = "none" /\ old[part].stored
    BY <1>s, <1>n, <2>1, <2>2 DEF Parts, Waits
  <2> QED BY <1>h, <2>1, <2>3
<1>2. CASE Disclose(w) \/ ProviderAnswers(w) \/ Compose(w) \/ Publish(w)
  <2>1. CASE Disclose(w)
    BY <1>c, <1>n, <1>r, <2>1 DEF Disclose
  <2> QED BY <1>2, <1>c, <1>g, <1>r, <2>1 DEF ProviderAnswers, Compose, Publish
<1>3. CASE RecordProviderFailure(w)
  BY <1>3, <1>c, <1>n, <1>r DEF RecordProviderFailure
<1>p. ASSUME NEW put, NEW pc \in {"stored", "publishing"}, Put(w, put, pc)
      PROVE  Fine
  <2>1. CASE worker' = [worker EXCEPT ![w].pc = pc,
                                      ![w].keys = Counted(w, put)]
    BY <1>0, <1>p, <2>1 DEF WorkerStates, Settles, Fine
  <2> QED BY <1>p, <1>g, <2>1 DEF Put
<1>4. CASE PutLayer(w) \/ PutFinal(w)
  BY <1>4, <1>p, <1>r DEF PutLayer, PutFinal
<1>5. CASE RegisterLayer(w)
  BY <1>5, <1>g, <1>r DEF RegisterLayer
<1>6. CASE RegisterKeys(w)
  <2>1. w \notin stale'
    BY <1>6 DEF RegisterKeys, Keeps
  <2> QED BY <1>6, <1>g, <2>1 DEF RegisterKeys
<1>7. CASE CompensatePut(w) \/ ObjectFailure(w)
  BY <1>7, <1>g, <1>r DEF CompensatePut, Compensate, ObjectFailure
<1>8. CASE CompensateRun(w)
  <2>0. worker[w].pc = "known"
    BY <1>8 DEF CompensateRun
  <2>1. CASE Compensate(w, "closing")
    <3>1. attempts' = [attempts EXCEPT ![n].objects = Scheduled(@)]
      BY <2>1 DEF Compensate
    <3>2. new = Scheduled(old)
      BY <1>0, <3>1 DEF AttemptStates
    <3>3. /\ old[part].managed = "none"
          /\ old[part].stored
      BY <1>0, <3>2 DEF Scheduled, Due, Cleanable, Waits, ObjectStates
    <3> QED BY <1>h, <2>0, <3>3 DEF Let
  <2>2. CASE CompensateThrows(w)
    <3>1. w \in stale /\ Meet("conflict") /\ attempts' = attempts
      BY <2>2 DEF CompensateThrows, Throws
    <3>2. met["overlap"] > 0
      BY <1>s, <2>0, <3>1 DEF Settles
    <3>3. met'["conflict"] > 0 /\ met'["overlap"] > 0
      BY <3>1, <3>2, MeetTyped DEF TypeOK, Hazards
    <3> QED BY <3>3 DEF Lost
  <2> QED BY <1>8, <2>1, <2>2 DEF CompensateRun
<1>9. CASE ExecutionFailure(w)
  <2>1. attempts' = attempts /\ worker[w].pc = "closing"
    BY <1>9 DEF ExecutionFailure, Closes, Ended
  <2> QED BY <1>s, <2>1 DEF Settles
<1> QED BY <1>1, <1>2, <1>3, <1>4, <1>5, <1>6, <1>7, <1>8, <1>9
        DEF WorkerStep

\* An attempt that succeeded stays so while its run is cancelled, or is to be.
LEMMA SuccessKept ==
  ASSUME TypeOK, NEW w \in Workers, WorkerStep(w),
         worker[w].attempt \in DOMAIN attempts, run' = run,
         run.status = "cancelled" \/ cancelling.open,
         attempts'[worker[w].attempt].status # "succeeded"
  PROVE  attempts[worker[w].attempt].status # "succeeded"
<1> DEFINE n == worker[w].attempt
           Fine == attempts[n].status = "succeeded"
                     => attempts'[n].status = "succeeded"
<1> SUFFICES Fine
  OBVIOUS
<1>0. /\ attempts \in Seq(AttemptStates) /\ n \in DOMAIN attempts
      /\ attempts[n] \in AttemptStates
  <2>1. attempts \in Seq(AttemptStates)
    BY DEF TypeOK
  <2> QED BY <2>1
<1>u. attempts' = attempts => Fine
  OBVIOUS
<1>o. ASSUME NEW objects, attempts' = [attempts EXCEPT ![n].objects = objects]
      PROVE  Fine
  BY <1>0, <1>o DEF AttemptStates
<1>e. ASSUME NEW status \in {"failed", "unknown", "compensation", "succeeded"}
      PROVE  ~(Ends(status) /\ Changes(w))
  BY <1>e DEF Ends, Changes, TypeOK, RunStates
<1> HIDE DEF Fine
<1>r. Raises(w) => Fine
  BY <1>u DEF Raises
<1>1. CASE Deliver(w) \/ Claim(w) \/ PreflightFailure(w)
  BY <1>1, <1>u DEF Deliver, Claim, PreflightFailure, Claimable, Changes
<1>2. CASE Disclose(w) \/ ProviderAnswers(w) \/ Compose(w)
  <2>1. CASE attempts' = [attempts EXCEPT ![n].calls = @ + 1]
    BY <1>0, <2>1 DEF Fine, AttemptStates
  <2> QED BY <1>2, <1>r, <1>u, <2>1 DEF Disclose, ProviderAnswers, Compose
<1>3. CASE Publish(w) \/ RecordProviderFailure(w)
  BY <1>3, <1>e, <1>r, <1>u DEF Publish, RecordProviderFailure
<1>p. ASSUME NEW put, NEW pc, Put(w, put, pc) PROVE Fine
  BY <1>p, <1>u, <1>o DEF Put
<1>4. CASE PutLayer(w) \/ PutFinal(w)
  BY <1>4, <1>p, <1>r DEF PutLayer, PutFinal
<1>5. CASE RegisterLayer(w) \/ RegisterKeys(w)
  BY <1>5, <1>o, <1>r, <1>u DEF RegisterLayer, RegisterKeys
<1>6. ASSUME NEW pc, Compensate(w, pc) PROVE Fine
  <2>1. CASE run.status = "cancelled"
    BY <1>6, <1>o, <2>1 DEF Compensate
  <2>2. CASE run.status # "cancelled"
    BY <1>0, <1>6, <2>2 DEF Compensate, Fine, AttemptStates
  <2> QED BY <2>1, <2>2
<1>7. CASE CompensatePut(w) \/ CompensateRun(w)
  BY <1>6, <1>7, <1>u DEF CompensatePut, CompensateRun, CompensateThrows
<1>8. CASE ObjectFailure(w) \/ ExecutionFailure(w)
  BY <1>8, <1>e, <1>r, <1>u DEF ObjectFailure, ExecutionFailure
<1> QED BY <1>1, <1>2, <1>3, <1>4, <1>5, <1>7, <1>8 DEF WorkerStep

\* The cleaner leaves what it does not delete.
LEMMA CleanKeeps ==
  ASSUME TypeOK, NEW m \in DOMAIN attempts, NEW it \in Parts, Clean(m, it),
         NEW n \in DOMAIN attempts, NEW part \in Parts,
         Waits(attempts'[n].objects[part])
  PROVE  /\ attempts'[n].status = attempts[n].status
         /\ attempts'[n].objects[part] = attempts[n].objects[part]
<1>0. attempts \in Seq(AttemptStates)
  BY DEF TypeOK
<1>r. attempts[n] \in AttemptStates
  BY <1>0
<1>3. attempts[n].objects \in [Parts -> ObjectStates]
  BY <1>r DEF AttemptStates
<1>4. CASE m # n
  BY <1>0, <1>4 DEF Clean
<1>5. CASE m = n
  <2>1. attempts'[n] = [attempts[n] EXCEPT !.objects =
          [attempts[n].objects EXCEPT
             ![it] = [stored |-> FALSE, managed |-> "deleted"]]]
    BY <1>0, <1>5 DEF Clean
  <2>2. /\ attempts'[n].status = attempts[n].status
        /\ attempts'[n].objects =
             [attempts[n].objects EXCEPT
                ![it] = [stored |-> FALSE, managed |-> "deleted"]]
    BY <1>r, <2>1 DEF AttemptStates
  <2>3. part # it
    BY <1>3, <2>2 DEF Waits
  <2> QED BY <1>3, <2>2, <2>3
<1> QED BY <1>4, <1>5

\* The worker that registers what a cancel under way has not found still has
\* it in its hands.
LEMMA OwnMissed ==
  ASSUME TypeOK, Found, Apart, FinalUnknown, LayerKnown, InHand, ~Lost',
         cancelling.open,
         NEW w \in Workers, WorkerStep(w),
         worker[w].attempt = Len(attempts), Len(attempts) > 0,
         NEW part \in Parts,
         LET n == Len(attempts)
             old == attempts[n].objects[part]
             new == attempts'[n].objects[part]
         IN  /\ Waits(old) /\ old.managed # "none"
                  => /\ met["overlap"] > 0
                     /\ part \in worker[w].keys /\ worker[w].pc # "closing"
             /\ Waits(new) /\ new.managed # "none"
  PROVE  /\ met'["overlap"] > 0
         /\ worker'[w].attempt = Len(attempts)
         /\ part \in worker'[w].keys
         /\ worker'[w].pc # "closing"
<1> DEFINE n == Len(attempts)
           old == attempts[n].objects
           new == attempts'[n].objects
           Hands == /\ worker'[w].attempt = n
                    /\ part \in worker'[w].keys
                    /\ worker'[w].pc # "closing"
           Fine == met'["overlap"] > 0 /\ Hands
<1> SUFFICES Fine
  OBVIOUS
<1>0. /\ attempts \in Seq(AttemptStates) /\ n \in DOMAIN attempts
      /\ attempts[n] \in AttemptStates
      /\ old \in [Parts -> ObjectStates]
      /\ worker \in [Workers -> WorkerStates] /\ worker[w] \in WorkerStates
      /\ worker[w].attempt = n /\ n # 0
  <2>1. attempts \in Seq(AttemptStates) /\ n \in DOMAIN attempts
    BY DEF TypeOK
  <2>2. attempts[n] \in AttemptStates
    BY <2>1
  <2> QED BY <2>1, <2>2 DEF TypeOK, AttemptStates
<1>m. /\ met["overlap"] > 0 => met'["overlap"] > 0
      /\ ~Blind
  BY MetTyped DEF Lost, Blind, TypeOK, Hazards, Next
<1>l. ~Changes(w)
  BY DEF Changes
<1>w. Waits(new[part]) /\ new[part].managed # "none"
  OBVIOUS
<1>a. Waits(old[part]) /\ old[part].managed # "none"
        => /\ met["overlap"] > 0
           /\ part \in worker[w].keys /\ worker[w].pc # "closing"
  OBVIOUS
<1>s. new[part] = old[part]
        => /\ met'["overlap"] > 0
           /\ part \in worker[w].keys /\ worker[w].pc # "closing"
  BY <1>a, <1>m, <1>w
<1>h. old[part].stored /\ old[part].managed = "none"
        => part \in worker[w].keys
  <2> SUFFICES ASSUME old[part].stored, old[part].managed = "none"
               PROVE  part \in worker[w].keys
    OBVIOUS
  <2>1. PICK v \in Workers : /\ worker[v].attempt = n
                             /\ part \in worker[v].keys
    BY <1>0, <1>m DEF InHand
  <2>2. v = w
    BY <1>0, <2>1 DEF Apart
  <2> QED BY <2>1, <2>2
<1>g. ASSUME NEW pc, Goes(w, pc), pc # "closing", part \in worker[w].keys
      PROVE  Hands
  BY <1>0, <1>g DEF Goes, WorkerStates
\* The object stays as it is, and the worker does not close.
<1>u. ASSUME new[part] = old[part], NEW pc, Goes(w, pc), pc # "closing"
      PROVE  Fine
  BY <1>g, <1>s, <1>u
<1>o. ASSUME NEW objects, attempts' = [attempts EXCEPT ![n].objects = objects]
      PROVE  new = objects
  BY <1>0, <1>o DEF AttemptStates
<1>x. ASSUME NEW status, attempts' = [attempts EXCEPT ![n].status = status]
      PROVE  new = old
  BY <1>0, <1>x DEF AttemptStates
<1> HIDE DEF Fine, Hands
<1>r. Raises(w) => Fine
  BY <1>u DEF Raises
<1>n. ASSUME worker[w].pc \in {"claimed", "erred"}, attempts' = attempts
      PROVE  FALSE
  <2>1. worker[w].keys = {}
    BY <1>n DEF LayerKnown, Empty
  <2> QED BY <1>n, <1>s, <2>1
<1>1. CASE Deliver(w) \/ Claim(w) \/ PreflightFailure(w)
  BY <1>0, <1>1 DEF Deliver, Claim, PreflightFailure, TypeOK
<1>2. CASE Disclose(w)
  BY <1>2, <1>l, <1>u, <1>n, <1>r DEF Disclose
<1>3. CASE ProviderAnswers(w) \/ Compose(w) \/ Publish(w)
  BY <1>3, <1>u, <1>l, <1>r DEF ProviderAnswers, Compose, Publish
<1>4. CASE RecordProviderFailure(w)
  BY <1>4, <1>l, <1>n, <1>r DEF RecordProviderFailure
\* What is put was not registered, and is not yet.
<1>p. ASSUME NEW put \in Parts, NEW pc \in {"stored", "publishing"},
             Put(w, put, pc), old[put].managed = "none"
      PROVE  Fine
  <2>1. new[part] = old[part]
    <3>1. CASE attempts' = [attempts EXCEPT ![n].objects = Stored(@, put)]
      <4>1. new = Stored(old, put)
        BY <1>o, <3>1
      <4>2. part # put
        BY <1>0, <1>p, <1>w, <4>1, ObjectsEach
      <4> QED BY <1>0, <1>p, <4>1, <4>2, ObjectsEach
    <3> QED BY <1>0, <1>p, <3>1 DEF Put
  <2>2. CASE worker' = [worker EXCEPT ![w].pc = pc,
                                      ![w].keys = Counted(w, put)]
    <3>1. /\ worker'[w].attempt = n /\ worker'[w].pc = pc
          /\ worker'[w].keys = worker[w].keys \cup {put}
      BY <1>0, <2>2 DEF WorkerStates, Counted
    <3> QED BY <1>s, <2>1, <3>1 DEF Fine, Hands
  <2> QED BY <1>p, <1>u, <2>1, <2>2 DEF Put
<1>5. CASE PutLayer(w)
  <2>1. old["layer"].managed = "none"
    BY <1>0, <1>5 DEF PutLayer, LayerKnown, Empty
  <2> QED BY <1>5, <1>p, <2>1 DEF PutLayer, Parts
<1>6. CASE PutFinal(w)
  <2>1. old["final"].managed = "none"
    BY <1>0, <1>6 DEF PutFinal, FinalUnknown, Unpublished
  <2> QED BY <1>6, <1>p, <1>r, <2>1 DEF PutFinal, Parts
<1>k. ASSUME NEW parts, NEW pc, pc # "closing", Goes(w, pc),
             attempts' = [attempts EXCEPT ![n].objects =
                            Registered(@, parts, "active")],
             IF Overlaps(w) THEN Meet("overlap") ELSE UNCHANGED met
      PROVE  Fine
  <2>1. new = Registered(old, parts, "active")
    BY <1>k, <1>o
  <2>2. /\ new[part].stored = old[part].stored
        /\ \/ old[part].managed = "none"
           \/ new[part].managed = old[part].managed
    BY <1>0, <2>1, ObjectsEach
  <2>3. CASE old[part].managed = "none"
    <3>1. part \in worker[w].keys
      BY <1>h, <1>w, <2>2, <2>3 DEF Waits
    <3>2. Meet("overlap")
      BY <1>0, <1>k, <3>1 DEF Overlaps
    <3>3. met'["overlap"] > 0
      BY <3>2, MeetTyped DEF TypeOK, Hazards
    <3> QED BY <1>g, <1>k, <3>1, <3>3 DEF Fine
  <2>4. CASE new[part].managed = old[part].managed
    <3>1. Waits(old[part]) /\ old[part].managed # "none"
      BY <1>w, <2>2, <2>4 DEF Waits
    <3> QED BY <1>a, <1>g, <1>k, <1>m, <3>1 DEF Fine
  <2> QED BY <2>2, <2>3, <2>4
<1>7. CASE RegisterLayer(w)
  BY <1>0, <1>7, <1>k, <1>r DEF RegisterLayer
<1>8. CASE RegisterKeys(w)
  BY <1>0, <1>8, <1>k, <1>u DEF RegisterKeys
\* A compensation finds the run cancelled, or has to wait for the cancel.
<1>c. ASSUME NEW pc, Compensate(w, pc), pc = "closing" \/ pc = "put-settled"
      PROVE  Fine
  <2>1. CASE run.status = "cancelled"
    <3>1. attempts' = [attempts EXCEPT ![n].objects = Scheduled(@)]
      BY <1>0, <1>c, <2>1 DEF Compensate
    <3>2. new = Scheduled(old)
      BY <1>o, <3>1
    <3>3. old[part].managed = "none" /\ new[part].managed = "none"
      BY <1>0, <1>w, <3>2 DEF Scheduled, Due, Cleanable, Waits, ObjectStates
    <3> QED BY <1>w, <3>3
  <2>2. CASE run.status # "cancelled"
    <3>1. worker[w].keys = {}
      BY <1>c, <1>l, <2>2 DEF Compensate, Compensable, Found
    <3>2. new = old
      BY <1>0, <1>c, <1>x, <2>2 DEF Compensate
    <3> QED BY <1>s, <3>1, <3>2
  <2> QED BY <2>1, <2>2
<1>9. CASE CompensatePut(w)
  BY <1>9, <1>c, <1>u DEF CompensatePut, CompensateThrows
<1>10. CASE CompensateRun(w)
  <2>1. CASE CompensateThrows(w)
    <3>1. Meet("conflict") /\ attempts' = attempts
      BY <2>1 DEF CompensateThrows, Throws
    <3>2. met'["conflict"] > 0 /\ met'["overlap"] > 0
      BY <1>s, <3>1, MeetTyped DEF TypeOK, Hazards
    <3> QED BY <3>2 DEF Lost
  <2> QED BY <1>10, <1>c, <2>1 DEF CompensateRun
<1>11. CASE ObjectFailure(w)
  BY <1>11, <1>l, <1>r DEF ObjectFailure
<1>12. CASE ExecutionFailure(w)
  <2>1. attempts' = attempts /\ worker[w].pc = "closing"
    BY <1>12, <1>l DEF ExecutionFailure
  <2> QED BY <1>s, <2>1
<1> QED BY <1>1, <1>2, <1>3, <1>4, <1>5, <1>6, <1>7, <1>8, <1>9, <1>10,
           <1>11, <1>12 DEF WorkerStep

LEMMA MissedStep ==
  ASSUME TypeOK, Found, Apart, FinalUnknown, LayerKnown, InHand, Missed, Next
  PROVE  Missed'
<1> DEFINE n == Len(attempts)
           Hand(part) == \E w \in Workers : /\ worker[w].attempt = n
                                           /\ part \in worker[w].keys
                                           /\ worker[w].pc # "closing"
<1> SUFFICES ASSUME cancelling'.open, Len(attempts') > 0,
                    attempts'[Len(attempts')].status # "succeeded",
                    NEW part \in Parts, part \notin cancelling'.parts,
                    Waits(attempts'[Len(attempts')].objects[part]),
                    attempts'[Len(attempts')].objects[part].managed # "none",
                    ~Lost'
             PROVE  /\ met'["overlap"] > 0
                    /\ \E w \in Workers :
                         /\ worker'[w].attempt = Len(attempts')
                         /\ part \in worker'[w].keys
                         /\ worker'[w].pc # "closing"
  BY DEF Missed, Waits, Lost, Blind
<1>0. attempts \in Seq(AttemptStates) /\ n \in Nat
  BY DEF TypeOK
<1>b. /\ ~Lost
      /\ met["overlap"] > 0 => met'["overlap"] > 0
  BY MetTyped DEF Lost, Blind, TypeOK, Hazards
\* The attempt, its objects and who is at it are what they were.
<1>u. ASSUME UNCHANGED <<worker, cancelling>>, Len(attempts') = n,
             attempts'[n].status = attempts[n].status,
             attempts'[n].objects[part] = attempts[n].objects[part]
      PROVE  /\ met'["overlap"] > 0
             /\ \E w \in Workers : /\ worker'[w].attempt = Len(attempts')
                                   /\ part \in worker'[w].keys
                                   /\ worker'[w].pc # "closing"
  BY <1>0, <1>b, <1>u DEF Missed
<1>1. ASSUME NEW w \in Workers, WorkerStep(w)
      PROVE  /\ met'["overlap"] > 0
             /\ \E v \in Workers : /\ worker'[v].attempt = Len(attempts')
                                   /\ part \in worker'[v].keys
                                   /\ worker'[v].pc # "closing"
  <2>1. cancelling' = cancelling /\ cancelling.open
    BY <1>1, CancelLeft
  <2>2. run' = run /\ RowStep(w)
    BY <1>1, <2>1, Locked
  <2>3. /\ Len(attempts') = n /\ n \in DOMAIN attempts /\ n > 0
        /\ \A m \in DOMAIN attempts :
             m # worker[w].attempt => attempts'[m] = attempts[m]
    BY <1>0, <2>2, RowChanged DEF RowStep
  <2>4. \A v \in Workers : v # w => worker'[v] = worker[v]
    BY <1>1, WorkerSteps
  <2>5. attempts[n].status # "succeeded"
          => (/\ Waits(attempts[n].objects[part])
              /\ attempts[n].objects[part].managed # "none"
              => met["overlap"] > 0 /\ Hand(part))
    BY <1>b, <2>1, <2>3 DEF Missed
  <2>6. CASE worker[w].attempt = n
    <3>1. attempts[n].status # "succeeded"
      BY <1>1, <2>1, <2>2, <2>3, <2>6, SuccessKept
    <3>2. /\ Waits(attempts[n].objects[part])
          /\ attempts[n].objects[part].managed # "none"
          => /\ met["overlap"] > 0
             /\ part \in worker[w].keys /\ worker[w].pc # "closing"
      BY <1>0, <2>3, <2>5, <2>6, <3>1 DEF Apart
    <3>3. /\ met'["overlap"] > 0
          /\ worker'[w].attempt = n
          /\ part \in worker'[w].keys
          /\ worker'[w].pc # "closing"
      BY <1>1, <2>1, <2>3, <2>6, <3>2, OwnMissed
    <3> QED BY <2>3, <3>3
  <2>7. CASE worker[w].attempt # n
    <3>1. attempts'[n] = attempts[n]
      BY <2>3, <2>7
    <3>2. met["overlap"] > 0 /\ Hand(part)
      BY <2>3, <2>5, <3>1
    <3>3. PICK v \in Workers : /\ worker[v].attempt = n
                               /\ part \in worker[v].keys
                               /\ worker[v].pc # "closing"
      BY <3>2
    <3>4. worker'[v] = worker[v]
      BY <2>4, <2>7, <3>3
    <3> QED BY <1>b, <2>3, <3>2, <3>3, <3>4
  <2> QED BY <2>6, <2>7
<1>2. CASE Cancel
  <2> DEFINE found == IF n = 0 THEN {} ELSE Cleanable(attempts[n].objects)
  <2>1. /\ attempts' = attempts
        /\ cancelling' = [open |-> TRUE, parts |-> found]
    BY <1>2, Zenon DEF Cancel
  <2>2. part \in found
    BY <1>0, <2>1 DEF Cleanable, Waits
  <2> HIDE DEF found
  <2> QED BY <2>1, <2>2
<1>3. CASE CancelCommits \/ Retry
  BY <1>3 DEF CancelCommits, NoCancel, Retry
<1>4. ASSUME NEW m \in DOMAIN attempts, NEW it \in Parts, Clean(m, it)
      PROVE  /\ UNCHANGED <<worker, cancelling>>
             /\ Len(attempts') = n
             /\ attempts'[n].status = attempts[n].status
             /\ attempts'[n].objects[part] = attempts[n].objects[part]
  <2>1. Len(attempts') = n /\ n \in DOMAIN attempts
    BY <1>0, <1>4, WorldRows DEF World
  <2>2. Waits(attempts'[n].objects[part])
    BY <2>1
  <2> QED BY <1>4, <2>1, <2>2, CleanKeeps DEF Clean
<1>5. CASE \E w \in Workers : Crash(w)
  BY <1>5, MeetTyped DEF Crash, Lost, Blind, TypeOK, Hazards
<1>6. CASE RequestAgain \/ Drift \/ LeaseEnds
  BY <1>6, <1>u DEF RequestAgain, Drift, LeaseEnds
<1> QED BY <1>1, <1>2, <1>3, <1>4, <1>5, <1>6, <1>u DEF Next, World

LEMMA CancelHeldStep ==
  ASSUME TypeOK, Apart, FinalUnknown, EmptyHanded, Gone, LayerKnown, InHand,
         CancelHeld, Missed, Next
  PROVE  CancelHeld'
<1> DEFINE n == Len(attempts)
<1> SUFFICES ASSUME run'.status = "cancelled", Len(attempts') > 0,
                    attempts'[Len(attempts')].status # "succeeded",
                    NEW part \in Parts,
                    Waits(attempts'[Len(attempts')].objects[part]), ~Lost'
             PROVE  \E w \in Workers :
                      worker'[w].attempt = Len(attempts') /\ Settles(w)'
  BY DEF CancelHeld, Waits, Lost, Blind
<1>0. /\ attempts \in Seq(AttemptStates) /\ n \in Nat
      /\ worker \in [Workers -> WorkerStates]
      /\ run \in RunStates
  BY DEF TypeOK
<1>b. /\ ~Lost /\ ~Blind
      /\ met["overlap"] > 0 => met'["overlap"] > 0
  BY MetTyped DEF Lost, Blind, TypeOK, Hazards
<1>1. ASSUME NEW w \in Workers, WorkerStep(w)
      PROVE  \E v \in Workers :
               worker'[v].attempt = Len(attempts') /\ Settles(v)'
  <2>1. run' = run /\ stale' \subseteq stale
    BY <1>1, CancelledStays
  <2>2. RowStep(w)
    BY <1>1, WorkerRows
  <2>3. /\ Len(attempts') = n /\ n \in DOMAIN attempts
        /\ \A m \in DOMAIN attempts :
             m # worker[w].attempt => attempts'[m] = attempts[m]
    BY <1>0, <2>2, RowChanged DEF RowStep
  <2>4. \A v \in Workers : v # w => worker'[v] = worker[v]
    BY <1>1, WorkerSteps
  <2>5. attempts[n].status # "succeeded" =>
          \A it \in Parts : Waits(attempts[n].objects[it])
            => \E v \in Workers : worker[v].attempt = n /\ Settles(v)
    BY <1>0, <1>b, <2>1, <2>3 DEF CancelHeld
  <2>6. CASE worker[w].attempt = n
    <3>1. attempts[n].status # "succeeded"
      BY <1>1, <2>1, <2>3, <2>6, SuccessKept
    <3>2. Waits(attempts[n].objects[part]) => Settles(w)
      BY <1>0, <2>3, <2>5, <2>6, <3>1 DEF Apart
    <3> QED BY <1>1, <2>1, <2>3, <2>6, <3>2, OwnSettled
  <2>7. CASE worker[w].attempt # n
    <3>1. attempts'[n] = attempts[n]
      BY <2>3, <2>7
    <3>2. PICK v \in Workers : worker[v].attempt = n /\ Settles(v)
      BY <2>3, <2>5, <3>1
    <3>3. worker'[v] = worker[v]
      BY <2>4, <2>7, <3>2
    <3> QED BY <1>b, <2>1, <2>3, <3>2, <3>3 DEF Settles
  <2> QED BY <2>6, <2>7
<1>2. CASE CancelCommits
  <2>1. UNCHANGED worker /\ cancelling.open
    BY <1>2 DEF CancelCommits
  <2>2. Len(attempts') = n /\ n \in DOMAIN attempts
    BY <1>0, <1>2, WorldRows DEF World
  <2>r. attempts[n] \in AttemptStates
    BY <1>0, <2>2
  <2>3. attempts[n].objects \in [Parts -> ObjectStates]
    BY <2>r DEF AttemptStates
  <2>4. /\ attempts[n].status # "succeeded"
        /\ attempts'[n].objects = Due(attempts[n].objects, cancelling.parts)
    <3>1. /\ attempts[n].status # "succeeded"
          /\ attempts' = [attempts EXCEPT
                            ![n].status = "cancelled",
                            ![n].objects = Due(@, cancelling.parts)]
      BY <1>0, <1>2, <2>2 DEF CancelCommits
    <3>2. attempts'[n] = [attempts[n] EXCEPT !.status = "cancelled",
                            !.objects = Due(attempts[n].objects,
                                            cancelling.parts)]
      BY <1>0, <2>2, <3>1
    <3> QED BY <2>r, <3>1, <3>2 DEF AttemptStates
  <2>5. /\ part \notin cancelling.parts
        /\ Waits(attempts[n].objects[part])
    <3>1. part \notin cancelling.parts
      BY <2>2, <2>3, <2>4, ObjectsEach DEF Waits
    <3>2. attempts'[n].objects[part] = attempts[n].objects[part]
      BY <2>3, <2>4, <3>1, ObjectsEach
    <3> QED BY <2>2, <3>1, <3>2
  <2>6. CASE attempts[n].objects[part].managed = "none"
    <3>1. PICK w \in Workers : /\ worker[w].attempt = n
                               /\ worker[w].pc \notin Let
      BY <1>b, <2>2, <2>5, <2>6 DEF InHand, Waits
    <3> QED BY <2>1, <2>2, <3>1 DEF Settles, Let
  <2>7. CASE attempts[n].objects[part].managed # "none"
    <3>1. /\ met["overlap"] > 0
          /\ \E w \in Workers : /\ worker[w].attempt = n
                                /\ worker[w].pc # "closing"
      BY <1>0, <1>b, <2>1, <2>2, <2>4, <2>5, <2>7 DEF Missed
    <3> QED BY <1>b, <2>1, <2>2, <3>1 DEF Settles
  <2> QED BY <2>6, <2>7
<1>3. ASSUME NEW m \in DOMAIN attempts, NEW it \in Parts, Clean(m, it)
      PROVE  \E w \in Workers :
               worker'[w].attempt = Len(attempts') /\ Settles(w)'
  <2>1. UNCHANGED <<run, worker, stale>>
    BY <1>3 DEF Clean
  <2>2. Len(attempts') = n /\ n \in DOMAIN attempts
    BY <1>0, <1>3, WorldRows DEF World
  <2>4. /\ attempts'[n].status = attempts[n].status
        /\ attempts'[n].objects[part] = attempts[n].objects[part]
    BY <1>3, <2>2, CleanKeeps
  <2>5. PICK w \in Workers : worker[w].attempt = n /\ Settles(w)
    BY <1>0, <1>b, <2>1, <2>2, <2>4 DEF CancelHeld
  <2> QED BY <1>b, <2>1, <2>2, <2>5 DEF Settles
<1>4. CASE \E w \in Workers : Crash(w)
  BY <1>4, MeetTyped DEF Crash, Lost, Blind, TypeOK, Hazards
<1>5. CASE Cancel \/ RequestAgain \/ Drift \/ LeaseEnds
  <2>1. UNCHANGED <<attempts, worker, stale>> /\ run.status = "cancelled"
    BY <1>0, <1>5 DEF Cancel, RequestAgain, Drift, LeaseEnds, RunStates
  <2>2. PICK w \in Workers : worker[w].attempt = n /\ Settles(w)
    BY <1>b, <2>1 DEF CancelHeld
  <2> QED BY <1>b, <2>1, <2>2 DEF Settles
<1>6. CASE Retry
  BY <1>0, <1>6 DEF Retry, RunStates
<1> QED BY <1>1, <1>2, <1>3, <1>4, <1>5, <1>6 DEF Next, World

\* When a run is cancelled and no worker is at it, what its latest attempt
\* wrote and did not publish is due at once: the cancel has found it, or its
\* worker has found the run cancelled (cover_service.py, cancel and
\* _register_compensation).
THEOREM CoverCancelSchedules == Spec => []CancelSchedules
<1>1. Init => CancelHeld /\ Missed
  BY DEF Init, CancelHeld, Missed, NoCancel
<1>2. Inv /\ CancelHeld /\ Missed /\ [Next]_vars => CancelHeld' /\ Missed'
  <2>1. CASE UNCHANGED vars
    BY <2>1 DEF CancelHeld, Missed, Settles, Lost, Blind, vars
  <2> QED BY <2>1, CancelHeldStep, MissedStep DEF Inv
<1>3. Inv /\ CancelHeld => CancelSchedules
  <2> SUFFICES ASSUME Inv, CancelHeld, AtWork = {},
                      Unmet({"crash", "half-put", "unregistered"}),
                      Unmet({"overlap"}) \/ Unmet({"conflict"}),
                      run.status = "cancelled", Len(attempts) > 0,
                      attempts[Len(attempts)].status # "succeeded",
                      NEW part \in Parts,
                      attempts[Len(attempts)].objects[part].stored
               PROVE  attempts[Len(attempts)].objects[part].managed
                        \in {"scheduled", "referenced"}
    BY DEF CancelSchedules
  <2>1. ~Lost
    BY DEF Unmet, Lost, Blind
  <2>2. \A w \in Workers : worker[w].attempt = 0
    BY DEF Inv, TypeOK, AtWork
  <2> QED BY <2>1, <2>2 DEF CancelHeld, Waits
<1> QED BY <1>1, <1>2, <1>3, InvAlways, PTL DEF Spec
=============================================================================

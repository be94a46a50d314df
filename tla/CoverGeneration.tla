--------------------------- MODULE CoverGeneration ---------------------------
(***************************************************************************)
(* How one cover is generated: a run that is requested once and delivered  *)
(* to workers by messages, the attempts at it, the provider's billed call, *)
(* the objects that are written to the storage and registered for its      *)
(* cleaner, and the coordinator's cancel and retry.                        *)
(*                                                                         *)
(* Rows are read without a lock and written under an optimistic version:   *)
(* a step below is one transaction, with the call before it.  It may find  *)
(* the row as others have left it meanwhile, or have read it before that   *)
(* and fail when it commits.  The statuses a run has while a worker is at  *)
(* it are one, "working", for nothing tells them apart.  The token of a    *)
(* claim is the number of the attempt it is for; 0 is none.                *)
(*                                                                         *)
(* One transaction is two steps, the cancel: it locks the run's row when   *)
(* it writes it, then looks for the objects, and commits later.            *)
(***************************************************************************)
EXTENDS Integers, Sequences, FiniteSets

CONSTANTS
  Workers,
  MaxRetries,  \* manual retries
  MaxMessages, \* messages under way
  Limits,      \* how often each hazard is met
  Kinds        \* how many kinds of hazards meet in one behaviour

Hazards == {"conflict", "cancel", "drift", "time", "crash", "step",
            "provider", "put", "half-put", "unregistered", "overlap",
            "commit", "day"}

ASSUME BoundsAssumption == MaxRetries \in Nat /\ MaxMessages \in Nat
ASSUME LimitsAssumption == Limits \in [Hazards -> Nat] /\ Kinds \in Nat

VARIABLES
  run,      \* the run's row
  attempts, \* the rows of its attempts, each with its objects and, for the
            \* record, the calls of the provider made for it
  worker,   \* what each worker does, for which attempt, and what it stored
  stale,    \* workers during whose step the run's row was changed
  cancelling, \* is there a cancel that has not committed, and the objects
              \* it has found
  messages, \* messages of the task under way
  drifted,  \* the member, the content or the model are not what they were
  met       \* how often each hazard was met

vars == <<run, attempts, worker, stale, cancelling, messages, drifted, met>>

Parts == {"layer", "final"}
Ended == {"succeeded", "failed", "cancelled", "unknown", "compensation"}
NoClaim == 0

\* A run is refused if the pictures it refers to, which may be uploaded, are
\* such that sanitize_reference_image does not take them.
RunStates == [visual: BOOLEAN, refused: BOOLEAN,
              status: Ended \cup {"queued", "working"},
              claim: Nat, late: BOOLEAN, retries: Nat]
ObjectStates == [stored: BOOLEAN,
                 managed: {"none", "active", "scheduled", "referenced",
                           "deleted"}]
AttemptStates == [status: Ended \cup {"working"}, calls: Nat,
                  objects: [Parts -> ObjectStates]]
WorkerStates == [pc: {"idle", "received", "refused", "claimed", "called",
                      "erred", "drawn", "stored", "composing", "scanned",
                      "publishing", "put-failed", "put-known", "put-settled",
                      "failing", "known", "closing"},
                 attempt: Nat, keys: SUBSET Parts]

IdleWorker == [pc |-> "idle", attempt |-> 0, keys |-> {}]
NoObject == [stored |-> FALSE, managed |-> "none"]
NoCancel == [open |-> FALSE, parts |-> {}]
NewAttempt == [status |-> "working", calls |-> 0,
               objects |-> [part \in Parts |-> NoObject]]

\* A worker past its claim has an attempt; no claim is for an attempt that
\* has not been made.
TypeOK ==
  /\ run \in RunStates
  /\ attempts \in Seq(AttemptStates)
  /\ worker \in [Workers -> WorkerStates]
  /\ stale \subseteq Workers
  /\ cancelling \in [open: BOOLEAN, parts: SUBSET Parts]
  /\ messages \in Nat
  /\ drifted \in BOOLEAN
  /\ met \in [Hazards -> Nat]
  /\ run.claim \in 0..Len(attempts)
  /\ \A w \in Workers :
       worker[w].attempt \in
         IF worker[w].pc \in {"idle", "received", "refused"} THEN {0}
         ELSE DOMAIN attempts

\* The run has been requested, and its message sent.
Init ==
  /\ run \in [visual: BOOLEAN, refused: BOOLEAN, status: {"queued"},
              claim: {NoClaim}, late: {FALSE}, retries: {0}]
  /\ attempts = <<>>
  /\ worker = [w \in Workers |-> IdleWorker]
  /\ stale = {}
  /\ cancelling = NoCancel
  /\ messages = 1
  /\ drifted = FALSE
  /\ met = [h \in Hazards |-> 0]

\* A conflict is not a kind of its own: it takes a change by another; nor is
\* an overlap, which takes a cancel.
Meet(hazard) ==
  /\ met[hazard] < Limits[hazard]
  /\ LET met_before == {h \in Hazards : met[h] > 0}
     IN  Cardinality(({hazard} \cup met_before) \ {"conflict", "overlap"})
           <= Kinds
  /\ met' = [met EXCEPT ![hazard] = @ + 1]

---------------------------------------------------------------------------
(* Transactions.                                                           *)

AtWork == {w \in Workers : worker[w].pc # "idle"}

\* The run's row is changed, which nobody can while a cancel has it locked:
\* whoever has read it will not commit.
Changes(w) == ~cancelling.open /\ stale' = AtWork \ {w}
Keeps(w) == stale' = stale \ {w}

\* The transaction is refused, or does not commit.
Throws(w, refused) ==
  \/ refused /\ UNCHANGED met
  \/ w \in stale /\ Meet("conflict")

Goes(w, pc) == worker' = [worker EXCEPT ![w].pc = pc]

\* Mutant of Stops: what the worker was at outlives its step.
StopsKeeping(w) == worker' = [worker EXCEPT ![w].pc = "idle"]

Stops(w) == worker' = [worker EXCEPT ![w] = IdleWorker]

Ends(status) ==
  run' = [run EXCEPT !.status = status, !.claim = NoClaim, !.late = FALSE]

\* _current_claim: an overtaken worker, or one that is late, gets no further.
Current(w) ==
  /\ run.claim = worker[w].attempt
  /\ ~run.late
  /\ run.status \notin Ended \ {"compensation"}

\* What an attempt's rows and objects become.
AttemptEnds(n, status) == attempts' = [attempts EXCEPT ![n].status = status]

Stored(objects, part) == [objects EXCEPT ![part].stored = TRUE]

\* An object is registered once; what is registered stays as it is.
Registered(objects, parts, state) ==
  [part \in Parts |->
     IF part \in parts /\ objects[part].managed = "none"
     THEN [objects[part] EXCEPT !.managed = state] ELSE objects[part]]

\* Mutant of Scheduled: the provider's layer is forgotten.
ScheduledFinal(objects) ==
  [objects EXCEPT !["final"].managed =
     IF @ \in {"none", "referenced"} THEN @ ELSE "scheduled"]

\* Every registered object that no business row refers to is due at once.
Cleanable(objects) ==
  {part \in Parts : objects[part].managed \notin {"none", "referenced"}}

Due(objects, parts) ==
  [part \in Parts |->
     IF part \in parts THEN [objects[part] EXCEPT !.managed = "scheduled"]
     ELSE objects[part]]

Scheduled(objects) == Due(objects, Cleanable(objects))

\* What is registered while a cancel is to commit, the cancel has not found.
Overlaps(w) ==
  cancelling.open /\ worker[w].attempt = Len(attempts) /\ worker[w].keys # {}

---------------------------------------------------------------------------
(* The task, up to the claim.                                              *)

\* Mutant of Invalidated: the delivery is dropped and the run left as it is.
LeftAsItIs == run

Invalidated == [run EXCEPT !.status = "failed"]

\* A delivery that finds the member, the content or the model changed fails
\* the run, whatever it is at.
Deliver(w) ==
  /\ worker[w].pc = "idle"
  /\ messages > 0
  /\ messages' = messages - 1
  /\ \/ /\ ~drifted
        /\ Goes(w, "received")
        /\ UNCHANGED <<run, stale>>
     \/ /\ drifted
        /\ run' = Invalidated
        /\ Changes(w)
        /\ UNCHANGED worker
  /\ UNCHANGED <<attempts, cancelling, drifted, met>>

\* Mutant of Claimable: a run whose lease is over may be claimed again.
ClaimableAfterLease == run.status = "queued" \/ run.late

Claimable == run.status = "queued"

Claim(w) ==
  /\ worker[w].pc = "received"
  /\ \/ /\ Claimable
        /\ run' = [run EXCEPT !.status = "working",
                              !.claim = Len(attempts) + 1, !.late = FALSE]
        /\ attempts' = Append(attempts, NewAttempt)
        /\ worker' = [worker EXCEPT ![w].pc = "claimed",
                                    ![w].attempt = Len(attempts) + 1]
        /\ Changes(w)
        /\ UNCHANGED met
     \/ /\ Throws(w, ~Claimable \/ drifted)
        /\ Goes(w, "refused")
        /\ Keeps(w)
        /\ UNCHANGED <<run, attempts>>
  /\ UNCHANGED <<cancelling, messages, drifted>>

\* A run that could not be claimed is failed, if it is still queued.
PreflightFailure(w) ==
  /\ worker[w].pc = "refused"
  /\ Stops(w)
  /\ \/ /\ run.status = "queued"
        /\ run' = [run EXCEPT !.status = "failed"]
        /\ Changes(w)
        /\ UNCHANGED met
     \/ /\ Throws(w, run.status # "queued")
        /\ Keeps(w)
        /\ UNCHANGED run
  /\ UNCHANGED <<attempts, cancelling, messages, drifted>>

---------------------------------------------------------------------------
(* The coordinator's run, from the claim to the publication.               *)

\* An exception of any step but the provider's own.
Raises(w) ==
  /\ Goes(w, "failing")
  /\ Keeps(w)
  /\ UNCHANGED <<run, attempts>>

\* The assets are read, sanitized and looked at again, the disclosure is
\* recorded, and the provider is called. A template needs no provider. A
\* picture that is refused raises the error of a provider, of which nothing
\* is recorded.
Disclose(w) ==
  /\ worker[w].pc = "claimed"
  /\ \/ /\ ~run.refused /\ Current(w) /\ run.visual
        /\ Goes(w, "called")
        /\ attempts' = [attempts EXCEPT ![worker[w].attempt].calls = @ + 1]
        /\ Changes(w)
        /\ UNCHANGED <<run, met>>
     \/ /\ ~run.refused /\ Current(w) /\ ~run.visual
        /\ Goes(w, "composing")
        /\ Keeps(w)
        /\ UNCHANGED <<run, attempts, met>>
     \/ ~run.refused /\ Throws(w, ~Current(w) \/ drifted) /\ Raises(w)
     \/ Meet("step") /\ Raises(w)
     \/ /\ run.refused
        /\ Stops(w)
        /\ Keeps(w)
        /\ UNCHANGED <<run, attempts, met>>
  /\ UNCHANGED <<cancelling, messages, drifted>>

\* The provider's picture, or its error; what it did may be unknown.
ProviderAnswers(w) ==
  /\ worker[w].pc = "called"
  /\ \/ /\ Current(w)
        /\ Goes(w, "drawn")
        /\ Changes(w)
        /\ UNCHANGED <<run, attempts, met>>
     \/ (Throws(w, ~Current(w)) \/ Meet("step")) /\ Raises(w)
     \/ /\ Meet("provider")
        /\ Goes(w, "erred")
        /\ UNCHANGED <<run, attempts, stale>>
  /\ UNCHANGED <<cancelling, messages, drifted>>

RecordProviderFailure(w) ==
  /\ worker[w].pc = "erred"
  /\ \/ /\ Current(w)
        /\ \E status \in {"failed", "unknown"} :
             Ends(status) /\ AttemptEnds(worker[w].attempt, status)
        /\ Stops(w)
        /\ Changes(w)
        /\ UNCHANGED met
     \/ /\ ~Current(w)
        /\ Stops(w)
        /\ Keeps(w)
        /\ UNCHANGED <<run, attempts, met>>
     \/ Throws(w, FALSE) /\ Raises(w)
  /\ UNCHANGED <<cancelling, messages, drifted>>

\* Mutant of Counted: the key is counted once the object is published.
Uncounted(w, part) == worker[w].keys

Counted(w, part) == worker[w].keys \cup {part}

\* An object is written. When that fails it may have been written all the
\* same, and the worker does not count it among its own.
Put(w, part, next) ==
  LET n == worker[w].attempt
      Written == attempts' = [attempts EXCEPT ![n].objects =
                                Stored(@, part)]
  IN  \/ /\ Written
         /\ worker' = [worker EXCEPT ![w].pc = next,
                                     ![w].keys = Counted(w, part)]
         /\ UNCHANGED met
      \/ Meet("put") /\ Goes(w, "put-failed") /\ UNCHANGED attempts
      \/ Meet("half-put") /\ Goes(w, "put-failed") /\ Written

PutLayer(w) ==
  /\ worker[w].pc = "drawn"
  /\ Put(w, "layer", "stored")
  /\ UNCHANGED <<run, stale, cancelling, messages, drifted>>

\* The layer is registered for the cleaner, whoever has the claim by now.
RegisterLayer(w) ==
  /\ worker[w].pc = "stored"
  /\ \/ /\ attempts' = [attempts EXCEPT ![worker[w].attempt].objects =
                           Registered(@, {"layer"}, "active")]
        /\ IF Overlaps(w) THEN Meet("overlap") ELSE UNCHANGED met
        /\ Goes(w, "composing")
        /\ Keeps(w)
        /\ UNCHANGED run
     \/ Meet("step") /\ Raises(w)
  /\ UNCHANGED <<cancelling, messages, drifted>>

Compose(w) ==
  /\ worker[w].pc = "composing"
  /\ \/ /\ Current(w)
        /\ Goes(w, "scanned")
        /\ Changes(w)
        /\ UNCHANGED <<run, attempts, met>>
     \/ (Throws(w, ~Current(w)) \/ Meet("step")) /\ Raises(w)
  /\ UNCHANGED <<cancelling, messages, drifted>>

\* The cover is scanned and written; nobody asks for the claim before.
PutFinal(w) ==
  /\ worker[w].pc = "scanned"
  /\ \/ Put(w, "final", "publishing") /\ UNCHANGED <<run, stale>>
     \/ Meet("step") /\ Raises(w)
  /\ UNCHANGED <<cancelling, messages, drifted>>

\* Mutant of Published: the object is registered as any other.
PublishedUnreferenced(objects) == Registered(objects, {"final"}, "active")

Published(objects) == Registered(objects, {"final"}, "referenced")

\* One transaction, whose answer may be lost.
Publish(w) ==
  LET n == worker[w].attempt
  IN  /\ worker[w].pc = "publishing"
      /\ \/ /\ Current(w)
            /\ Ends("succeeded")
            /\ attempts' = [attempts EXCEPT
                              ![n].status = "succeeded",
                              ![n].objects = Published(@)]
            /\ Changes(w)
            /\ \/ Stops(w) /\ UNCHANGED met
               \/ Meet("commit") /\ Goes(w, "failing")
         \/ (Throws(w, ~Current(w)) \/ Meet("step")) /\ Raises(w)
      /\ UNCHANGED <<cancelling, messages, drifted>>

---------------------------------------------------------------------------
(* The coordinator's run, when it fails.                                   *)

\* Mutant of Compensable: a run that succeeded is not excepted.
CompensableAnyRun(w) == worker[w].keys # {}

\* Does the compensation end the run? It does not ask for the claim.
Compensable(w) == worker[w].keys # {} /\ run.status # "succeeded"

\* What the worker has stored is registered, as far as it can be.
RegisterKeys(w) ==
  LET n == worker[w].attempt
  IN  /\ \/ worker[w].pc = "put-failed" /\ Goes(w, "put-known")
         \/ worker[w].pc = "failing" /\ Goes(w, "known")
      /\ \/ /\ attempts' = [attempts EXCEPT ![n].objects =
                              Registered(@, worker[w].keys, "active")]
            /\ IF Overlaps(w) THEN Meet("overlap") ELSE UNCHANGED met
         \/ /\ worker[w].keys # {}
            /\ Meet("unregistered")
            /\ UNCHANGED attempts
      /\ Keeps(w)
      /\ UNCHANGED <<run, cancelling, messages, drifted>>

\* The objects of a cancelled run are due at once; another run is ended.
Compensate(w, next) ==
  LET n == worker[w].attempt
  IN  /\ Goes(w, next)
      /\ \/ /\ run.status = "cancelled"
            /\ attempts' = [attempts EXCEPT ![n].objects = Scheduled(@)]
            /\ Keeps(w)
            /\ UNCHANGED run
         \/ /\ run.status # "cancelled"
            /\ attempts' = [attempts EXCEPT ![n].status =
                              IF worker[w].keys = {}
                                 \/ @ \in {"succeeded", "cancelled"} THEN @
                              ELSE "compensation"]
            /\ IF Compensable(w) THEN Ends("compensation") /\ Changes(w)
               ELSE UNCHANGED run /\ Keeps(w)
      /\ UNCHANGED met

\* The exception of the compensation itself.
CompensateThrows(w) ==
  /\ worker[w].keys # {}
  /\ Throws(w, FALSE)
  /\ Keeps(w)
  /\ UNCHANGED <<run, attempts>>

\* The failure of a put is recorded: a compensation of its own,
CompensatePut(w) ==
  /\ worker[w].pc = "put-known"
  /\ \/ Compensate(w, "put-settled")
     \/ CompensateThrows(w) /\ Goes(w, "failing")
  /\ UNCHANGED <<cancelling, messages, drifted>>

\* and then the outcome, of a run that is not cancelled, whoever has it.
ObjectFailure(w) ==
  LET status == IF worker[w].keys = {} THEN "failed" ELSE "compensation"
  IN  /\ worker[w].pc = "put-settled"
      /\ \/ /\ run.status # "cancelled"
            /\ Ends(status)
            /\ AttemptEnds(worker[w].attempt, status)
            /\ Goes(w, "failing")
            /\ Changes(w)
            /\ UNCHANGED met
         \/ Throws(w, run.status = "cancelled") /\ Raises(w)
      /\ UNCHANGED <<cancelling, messages, drifted>>

CompensateRun(w) ==
  /\ worker[w].pc = "known"
  /\ \/ Compensate(w, "closing")
     \/ CompensateThrows(w) /\ Stops(w)
  /\ UNCHANGED <<cancelling, messages, drifted>>

\* Mutant of Closes: the failure of a step is left to somebody else.
ClosesNothing(w) == FALSE

Closes(w) == run.status \notin Ended

ExecutionFailure(w) ==
  /\ worker[w].pc = "closing"
  /\ Stops(w)
  /\ \/ /\ Closes(w)
        /\ Ends("failed")
        /\ AttemptEnds(worker[w].attempt, "failed")
        /\ Changes(w)
        /\ UNCHANGED met
     \/ /\ Throws(w, ~Closes(w))
        /\ Keeps(w)
        /\ UNCHANGED <<run, attempts>>
  /\ UNCHANGED <<cancelling, messages, drifted>>

---------------------------------------------------------------------------
(* The user, the cleaner, time and failures.                               *)

\* The run's row is written, and locked so, and the objects of the latest
\* attempt are looked for.
Cancel ==
  LET n == Len(attempts)
  IN  /\ ~cancelling.open
      /\ run.status # "succeeded"
      /\ Meet("cancel")
      /\ cancelling' = [open |-> TRUE,
                        parts |-> IF n = 0 THEN {}
                                  ELSE Cleanable(attempts[n].objects)]
      /\ UNCHANGED <<run, attempts, worker, stale, messages, drifted>>

\* What the cancel has found is due at once, whatever became of it meanwhile.
CancelCommits ==
  LET n == Len(attempts)
  IN  /\ cancelling.open
      /\ cancelling' = NoCancel
      /\ Ends("cancelled")
      /\ attempts' =
           IF n = 0 \/ attempts[n].status = "succeeded" THEN attempts
           ELSE [attempts EXCEPT ![n].status = "cancelled",
                                 ![n].objects = Due(@, cancelling.parts)]
      /\ stale' = AtWork
      /\ UNCHANGED <<worker, messages, drifted, met>>

Retryable == run.status \in Ended \ {"succeeded"}

\* It sends no message.
Retry ==
  /\ Retryable
  /\ ~cancelling.open
  /\ run.retries < MaxRetries
  /\ run' = [run EXCEPT !.status = "queued", !.claim = NoClaim,
                        !.late = FALSE, !.retries = @ + 1]
  /\ stale' = AtWork
  /\ UNCHANGED <<attempts, worker, cancelling, messages, drifted, met>>

\* The same request, under the same key, finds the run and sends a message.
RequestAgain ==
  /\ messages < MaxMessages
  /\ messages' = messages + 1
  /\ UNCHANGED <<run, attempts, worker, stale, cancelling, drifted, met>>

\* What is due is deleted: scheduled objects, and those that were
\* registered a day ago, when no lease of theirs can be valid.
Clean(n, part) ==
  LET object == attempts[n].objects[part]
  IN  /\ \/ object.managed = "scheduled" /\ UNCHANGED met
         \/ /\ object.managed = "active"
            /\ run.claim = n => run.late
            /\ Meet("day")
      /\ attempts' = [attempts EXCEPT ![n].objects[part] =
                        [stored |-> FALSE, managed |-> "deleted"]]
      /\ UNCHANGED <<run, worker, stale, cancelling, messages, drifted>>

\* The member or the content goes, or the model is configured anew.
Drift ==
  /\ ~drifted
  /\ Meet("drift")
  /\ drifted' = TRUE
  /\ UNCHANGED <<run, attempts, worker, stale, cancelling, messages>>

LeaseEnds ==
  /\ run.claim # NoClaim /\ ~run.late
  /\ Meet("time")
  /\ run' = [run EXCEPT !.late = TRUE]
  /\ UNCHANGED <<attempts, worker, stale, cancelling, messages, drifted>>

\* The message was taken when it was delivered: nobody else gets it. A
\* message that is lost is one whose worker crashes when it has received it.
Crash(w) ==
  /\ worker[w].pc # "idle"
  /\ Meet("crash")
  /\ Stops(w)
  /\ Keeps(w)
  /\ UNCHANGED <<run, attempts, cancelling, messages, drifted>>

---------------------------------------------------------------------------
WorkerStep(w) ==
  \/ Deliver(w) \/ Claim(w) \/ PreflightFailure(w)
  \/ Disclose(w) \/ ProviderAnswers(w) \/ RecordProviderFailure(w)
  \/ PutLayer(w) \/ RegisterLayer(w) \/ Compose(w) \/ PutFinal(w)
  \/ Publish(w)
  \/ RegisterKeys(w) \/ CompensatePut(w) \/ ObjectFailure(w)
  \/ CompensateRun(w) \/ ExecutionFailure(w)

World ==
  \/ Cancel \/ CancelCommits \/ Retry \/ RequestAgain
  \/ Drift \/ LeaseEnds
  \/ \E n \in DOMAIN attempts, part \in Parts : Clean(n, part)
  \/ \E w \in Workers : Crash(w)

Next ==
  \/ \E w \in Workers : WorkerStep(w)
  \/ World

Spec == Init /\ [][Next]_vars

\* A worker that is up goes on, and takes the messages there are; a cancel
\* that has begun commits.
Fairness ==
  /\ \A w \in Workers : WF_vars(WorkerStep(w))
  /\ WF_vars(CancelCommits)

FairSpec == Spec /\ Fairness

---------------------------------------------------------------------------
Unmet(hazards) == \A h \in hazards : met[h] = 0

\* Every call of the provider is paid for: there is at most one for the
\* request and one for each manual retry, however often the message is
\* delivered (cover_service.py, _claim).
CalledOncePerGrant ==
  /\ Len(attempts) <= 1 + run.retries
  /\ \A n \in DOMAIN attempts : attempts[n].calls <= 1

\* The cover of an attempt that succeeded is in the storage and stays there,
\* whatever its worker, a late worker, the user and the cleaner do
\* (cover_service.py, _publish and _register_compensation).
PublishedIsKept ==
  \A n \in DOMAIN attempts :
      attempts[n].status = "succeeded"
    => /\ attempts[n].objects["final"].stored
       /\ attempts[n].objects["final"].managed = "referenced"

\* A run that succeeded stays so, whatever overtaken workers do. Two things
\* undo it: a delivery that finds its member, content or model changed, and
\* an overtaken worker whose write of an object fails
\* (tasks.py, generate_cover_task and cover_service.py, run).
SuccessIsFinal ==
  [][run.status = "succeeded" /\ Unmet({"drift", "put", "half-put"})
       => run'.status = "succeeded"]_vars

\* When no worker is at it, nothing written is unknown to the cleaner,
\* unless a worker died, the storage did not say what it wrote, or the
\* database refused the registration (cover_service.py,
\* _register_compensation).
ObjectsKnown ==
  AtWork = {} /\ Unmet({"crash", "half-put", "unregistered"})
    => \A n \in DOMAIN attempts, part \in Parts :
         attempts[n].objects[part].stored
           => attempts[n].objects[part].managed \notin {"none", "deleted"}

\* When a run is cancelled and no worker is at it, nothing that its latest
\* attempt wrote and did not publish waits longer for the cleaner, whatever
\* the worker did when it was cancelled. What it registers between the
\* cancel's look at the objects and its commit is left to its compensation,
\* and only if that loses against the run's version as well is it forgotten
\* (cover_service.py, cancel and _register_compensation).
CancelSchedules ==
  LET n == Len(attempts)
  IN  /\ AtWork = {} /\ Unmet({"crash", "half-put", "unregistered"})
      /\ Unmet({"overlap"}) \/ Unmet({"conflict"})
      /\ run.status = "cancelled"
      /\ n > 0 /\ attempts[n].status # "succeeded"
    => \A part \in Parts :
         attempts[n].objects[part].stored
           => attempts[n].objects[part].managed \in {"scheduled",
                                                     "referenced"}

\* When no worker is at it, the run is not left working, so that it can be
\* retried, unless a worker died or outlived its lease, or its pictures are
\* refused: then nothing is recorded and the run stays as it is, for nobody
\* claims or retries it (cover_service.py, run and
\* _record_execution_failure).
NoWorkLeftOpen ==
  AtWork = {} /\ Unmet({"crash", "time"}) /\ ~run.refused
    => run.status # "working"

\* Every run that is asked for, whose message arrives and whose pictures are
\* not refused gets an outcome (tasks.py, generate_cover_task).
RunEnds ==
  run.status = "queued" /\ messages > 0 /\ ~run.refused
    ~> run.status \in Ended \/ ~Unmet({"crash", "time"})
=============================================================================

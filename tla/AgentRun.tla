----------------------------- MODULE AgentRun -----------------------------
(***************************************************************************)
(* One run of an approved operations-agent plan, from the API call that    *)
(* creates it to its last step: the AgentRun row with its steps and its    *)
(* confirmations, the broker that carries execute_run messages, the Celery *)
(* workers that claim, execute and publish one step per message, the beat  *)
(* task that recovers expired claims, and the user who cancels, decides    *)
(* and retries.                                                            *)
(*                                                                         *)
(* Every handler of executor.py is one database transaction that holds the *)
(* run's row lock, so it is one action.  What happens between two          *)
(* transactions (the tool call, the message still to be sent) is a value   *)
(* of a process's pc, and a process may die there.  In particular the      *)
(* claim is validated in one transaction and the tool called after it:     *)
(* whatever commits in between does not stop the call.                     *)
(***************************************************************************)
EXTENDS Integers

CONSTANTS
  Starters,   \* concurrent POST /plans/{id}/runs requests
  Workers,    \* Celery worker slots running execute_run
  Beats,      \* concurrent executions of recover_pending
  NSteps,     \* number of steps of the plan
  Policy,     \* retry_policy of the tool of each step
  Protected,  \* steps whose tool has the risk PROTECTED_WRITE
  Limits      \* bounds of the environment: crashes, expiries, ...

Steps == 0 .. NSteps - 1
Hazards == {"workerCrash", "otherCrash", "expiry", "context", "retry"}

ASSUME StepsAssumption == NSteps \in Nat \ {0}
ASSUME PolicyAssumption == Policy \in [Steps -> {"safe", "manual", "never"}]
ASSUME ProtectedAssumption == Protected \subseteq Steps
ASSUME LimitsAssumption == Limits \in [Hazards -> Nat]

VARIABLES
  run,          \* the AgentRun row: status, index, token, lease
  stepStatus,   \* AgentRunStep.status of each step
  attempts,     \* AgentRunStep.attempt_count of each step
  confirmation, \* AgentConfirmation.status of each step's confirmation
  current,      \* is the member, role, tool and approval context current?
  messages,     \* execute_run messages in the broker
  starter,      \* pc of each start request
  worker,       \* pc of each worker
  held,         \* the StepClaim each worker carries
  beat,         \* pc of each recover_pending execution
  budget,       \* what is left of Limits
  retries,      \* history: accepted manual retries of each step
  calls,        \* history: tool invocations begun for each step
  resultOf      \* history: the attempt whose result a step carries

row == <<run, stepStatus, attempts, confirmation>>
history == <<retries, calls, resultOf>>
vars == <<run, stepStatus, attempts, confirmation, current, messages,
          starter, worker, held, beat, budget, retries, calls, resultOf>>

RunStatus == {"ABSENT", "QUEUED", "RUNNING", "AWAITING", "SUCCEEDED",
              "REJECTED", "CANCELLED", "FAILED", "UNKNOWN"}
StepStatus == {"PENDING", "RUNNING", "AWAITING", "SUCCEEDED", "REJECTED",
               "CANCELLED", "FAILED", "UNKNOWN"}
ConfirmationStatus == {"NONE", "PENDING", "APPROVED", "REJECTED",
                       "EXPIRED", "INVALIDATED"}

\* The statuses cancel() returns from, and those no transition leaves.
Terminal == {"SUCCEEDED", "REJECTED", "CANCELLED", "FAILED", "UNKNOWN"}
Final == Terminal \ {"FAILED"}

\* A claim token is unique, so it is named by the step and its attempt.
NoToken == <<-1, 0>>
Token == (Steps \X Nat) \cup {NoToken}

StarterPc == {"new", "creating", "enqueueing", "done"}
WorkerPc == {"idle", "received", "claimInvalid", "claimed", "validated",
             "denied", "invoking", "execInvalid", "enqueueing"}
BeatPc == {"idle", "recovering", "marking", "markingFound", "enqueueing"}

TypeOK ==
  /\ run \in [status: RunStatus, index: Steps, token: Token,
              lease: {"none", "live", "expired"}]
  /\ stepStatus \in [Steps -> StepStatus]
  /\ attempts \in [Steps -> Nat]
  /\ confirmation \in [Steps -> ConfirmationStatus]
  /\ current \in BOOLEAN
  /\ messages \in Nat
  /\ starter \in [Starters -> StarterPc]
  /\ worker \in [Workers -> WorkerPc]
  /\ held \in [Workers -> Token]
  /\ beat \in [Beats -> BeatPc]
  /\ budget \in [Hazards -> Nat]
  /\ retries \in [Steps -> Nat]
  /\ calls \in [Steps -> Nat]
  /\ resultOf \in [Steps -> Nat]

Init ==
  /\ run = [status |-> "ABSENT", index |-> 0, token |-> NoToken,
            lease |-> "none"]
  /\ stepStatus = [s \in Steps |-> "PENDING"]
  /\ attempts = [s \in Steps |-> 0]
  /\ confirmation = [s \in Steps |-> "NONE"]
  /\ current = TRUE
  /\ messages = 0
  /\ starter = [a \in Starters |-> "new"]
  /\ worker = [w \in Workers |-> "idle"]
  /\ held = [w \in Workers |-> NoToken]
  /\ beat = [b \in Beats |-> "idle"]
  /\ budget = Limits
  /\ retries = [s \in Steps |-> 0]
  /\ calls = [s \in Steps |-> 0]
  /\ resultOf = [s \in Steps |-> 0]

Spend(hazard) ==
  /\ budget[hazard] > 0
  /\ budget' = [budget EXCEPT ![hazard] = @ - 1]

\* Mutant of Settle: the claim stays in the row.
SettleKeepingClaim(runTo, stepTo) ==
  /\ run' = [run EXCEPT !.status = runTo]
  /\ stepStatus' = [stepStatus EXCEPT ![run.index] = stepTo]

\* Both rows leave their status together and the claim is cleared.
Settle(runTo, stepTo) ==
  /\ run' = [run EXCEPT !.status = runTo, !.token = NoToken, !.lease = "none"]
  /\ stepStatus' = [stepStatus EXCEPT ![run.index] = stepTo]

---------------------------------------------------------------------------
(* POST /plans/{id}/runs: look for a run, create one, then enqueue it.     *)

\* The route answers with the existing run, and does not enqueue it again.
FindExistingRun(a) ==
  /\ starter[a] = "new"
  /\ starter' = [starter EXCEPT ![a] =
                   IF run.status = "ABSENT" THEN "creating" ELSE "done"]
  /\ UNCHANGED <<row, history, current, messages, worker, held, beat, budget>>

\* create_run takes the plan's lock, so of two requests that both found no
\* run the second gets the first one's, and goes on to enqueue it as well.
CreateRun(a) ==
  /\ starter[a] = "creating"
  /\ IF current
       THEN /\ run' = [run EXCEPT !.status =
                         IF @ = "ABSENT" THEN "QUEUED" ELSE @]
            /\ starter' = [starter EXCEPT ![a] = "enqueueing"]
       ELSE /\ starter' = [starter EXCEPT ![a] = "done"]
            /\ UNCHANGED run
  /\ UNCHANGED <<stepStatus, attempts, confirmation, history, current,
                 messages, worker, held, beat, budget>>

EnqueueRun(a) ==
  /\ starter[a] = "enqueueing"
  /\ starter' = [starter EXCEPT ![a] = "done"]
  /\ messages' = messages + 1
  /\ UNCHANGED <<row, history, current, worker, held, beat, budget>>

---------------------------------------------------------------------------
(* execute_run: one message, one step.                                     *)

Goto(w, pc) == worker' = [worker EXCEPT ![w] = pc]

\* The worker returns from the task: it drops its claim object.
Finish(w, pc) ==
  /\ Goto(w, pc)
  /\ held' = [held EXCEPT ![w] = NoToken]

\* The broker acknowledges on delivery: from here the message is the worker's.
ReceiveMessage(w) ==
  /\ worker[w] = "idle"
  /\ messages > 0
  /\ messages' = messages - 1
  /\ Goto(w, "received")
  /\ UNCHANGED <<row, history, current, starter, held, beat, budget>>

Claimable ==
  /\ run.status \in {"QUEUED", "RUNNING"}
  /\ run.token = NoToken

ClaimNextStep(w) ==
  /\ worker[w] = "received"
  /\ Claimable
  /\ stepStatus[run.index] = "PENDING"
  /\ current
  /\ LET token == <<run.index, attempts[run.index] + 1>> IN
       /\ run' = [run EXCEPT !.status = "RUNNING", !.token = token,
                             !.lease = "live"]
       /\ held' = [held EXCEPT ![w] = token]
  /\ stepStatus' = [stepStatus EXCEPT ![run.index] = "RUNNING"]
  /\ attempts' = [attempts EXCEPT ![run.index] = @ + 1]
  /\ Goto(w, "claimed")
  /\ UNCHANGED <<confirmation, history, current, messages, starter, beat,
                 budget>>

\* AgentClaimUnavailable ends the task; AgentExecutionInvalidated leads to
\* fail_invalidated without a claim, in a transaction of its own.
ClaimUnavailable ==
  ~Claimable \/ (current /\ stepStatus[run.index] # "PENDING")

ClaimRefused(w) ==
  /\ worker[w] = "received"
  /\ \/ ClaimUnavailable /\ Goto(w, "idle")
     \/ Claimable /\ ~current /\ Goto(w, "claimInvalid")
  /\ UNCHANGED <<row, history, current, messages, starter, held, beat, budget>>

\* Mutant of ClaimValid: the claim token is not compared.
ClaimValidForAnyToken(w) ==
  /\ held[w] # NoToken
  /\ run.status = "RUNNING"
  /\ stepStatus[held[w][1]] = "RUNNING"
  /\ run.lease = "live"

\* _validated_claim, without the context checks.  operation_version moves
\* with every write of the row, and every write while a claim is open ends
\* the claim, so it is equal whenever the token is.
ClaimValid(w) ==
  /\ held[w] # NoToken
  /\ run.status = "RUNNING"
  /\ stepStatus[held[w][1]] = "RUNNING"
  /\ run.token = held[w]
  /\ run.lease = "live"

\* Mutant of NeedsConfirmation: only the first attempt asks.
NeedsConfirmationOnce(s) == s \in Protected /\ attempts[s] = 1

NeedsConfirmation(s) == s \in Protected /\ confirmation[s] # "APPROVED"

\* The first transaction of execute_claim when it raises.
ExecuteClaimRefused(w) ==
  /\ worker[w] = "claimed"
  /\ \/ ~ClaimValid(w) /\ Finish(w, "idle")
     \/ ClaimValid(w) /\ ~current /\ Goto(w, "execInvalid") /\ UNCHANGED held
  /\ UNCHANGED <<row, history, current, messages, starter, beat, budget>>

\* A protected step asks for a confirmation instead of calling its tool.
AwaitConfirmation(w) ==
  /\ worker[w] = "claimed"
  /\ ClaimValid(w)
  /\ current
  /\ NeedsConfirmation(held[w][1])
  /\ confirmation' = [confirmation EXCEPT ![held[w][1]] =
                        IF @ = "NONE" THEN "PENDING" ELSE @]
  /\ Settle("AWAITING", "AWAITING")
  /\ Finish(w, "idle")
  /\ UNCHANGED <<attempts, history, current, messages, starter, beat, budget>>

\* The first transaction of execute_claim when it lets the worker through to
\* the tool.  It commits here and gives up every lock.
ValidateClaim(w) ==
  /\ worker[w] = "claimed"
  /\ ClaimValid(w)
  /\ current
  /\ ~NeedsConfirmation(held[w][1])
  /\ Goto(w, "validated")
  /\ UNCHANGED <<row, history, current, messages, starter, held, beat, budget>>

\* The tool runner looks at the member, the role, the account and the content,
\* never at the run or the claim.
InvokeTool(w) ==
  /\ worker[w] = "validated"
  /\ calls' = [calls EXCEPT ![held[w][1]] = @ + 1]
  /\ Goto(w, "invoking")
  /\ UNCHANGED <<row, retries, resultOf, current, messages, starter, held,
                 beat, budget>>

\* Not every change of the context is one the tool runner denies.
ToolDenied(w) ==
  /\ worker[w] = "validated"
  /\ ~current
  /\ Goto(w, "denied")
  /\ UNCHANGED <<row, history, current, messages, starter, held, beat, budget>>

\* publish_result when _validated_claim raises.
PublishRefused(w) ==
  /\ worker[w] \in {"invoking", "denied"}
  /\ \/ ~ClaimValid(w) /\ Finish(w, "idle")
     \/ ClaimValid(w) /\ ~current /\ Goto(w, "execInvalid") /\ UNCHANGED held
  /\ UNCHANGED <<row, history, current, messages, starter, beat, budget>>

\* The result of the invocation enters the rows; an exception of the tool and
\* a denial are the outcome FAILED.
PublishFailure(w) ==
  /\ worker[w] \in {"invoking", "denied"}
  /\ ClaimValid(w)
  /\ current
  /\ \E outcome \in {"UNKNOWN", "CANCELLED", "FAILED"} :
       /\ worker[w] = "denied" => outcome = "FAILED"
       /\ Settle(outcome, outcome)
  /\ resultOf' = [resultOf EXCEPT ![held[w][1]] = held[w][2]]
  /\ Finish(w, "idle")
  /\ UNCHANGED <<attempts, confirmation, retries, calls, current, messages,
                 starter, beat, budget>>

\* Mutants of HasNext: one step too many, one too few.
HasNextAlways(s) == s \in Steps
HasNextEarly(s) == s + 2 \in Steps

HasNext(s) == s + 1 \in Steps

\* Mutant of MarkSucceeded: the step keeps its status.
MarkResultOnly(s, attempt) ==
  /\ resultOf' = [resultOf EXCEPT ![s] = attempt]
  /\ UNCHANGED stepStatus

MarkSucceeded(s, attempt) ==
  /\ stepStatus' = [stepStatus EXCEPT ![s] = "SUCCEEDED"]
  /\ resultOf' = [resultOf EXCEPT ![s] = attempt]

PublishSuccess(w) ==
  /\ worker[w] = "invoking"
  /\ ClaimValid(w)
  /\ current
  /\ LET s == held[w][1] IN
       /\ MarkSucceeded(s, held[w][2])
       /\ \/ /\ HasNext(s)
             /\ run' = [run EXCEPT !.index = s + 1, !.token = NoToken,
                                   !.lease = "none"]
             /\ Finish(w, "enqueueing")
          \/ /\ ~HasNext(s)
             /\ run' = [run EXCEPT !.status = "SUCCEEDED", !.token = NoToken,
                                   !.lease = "none"]
             /\ Finish(w, "idle")
  /\ UNCHANGED <<attempts, confirmation, retries, calls, current, messages,
                 starter, beat, budget>>

\* execute_run.delay after a result that leaves the run RUNNING.
EnqueueNextStep(w) ==
  /\ worker[w] = "enqueueing"
  /\ messages' = messages + 1
  /\ Goto(w, "idle")
  /\ UNCHANGED <<row, history, current, starter, held, beat, budget>>

\* Mutant of Invalidates: an AWAITING step counts as open, too.
InvalidatesAwaiting(w) ==
  /\ worker[w] = "execInvalid" => run.token = held[w]
  /\ stepStatus[run.index] \in {"PENDING", "RUNNING", "AWAITING"}

\* fail_invalidated: with the claim after execute_claim, without one after
\* claim_next_step.
Invalidates(w) ==
  /\ run.status \in {"QUEUED", "RUNNING"}
  /\ worker[w] = "execInvalid" => run.token = held[w]
  /\ stepStatus[run.index] \in {"PENDING", "RUNNING"}

FailInvalidated(w) ==
  /\ worker[w] \in {"claimInvalid", "execInvalid"}
  /\ \/ Invalidates(w) /\ Settle("FAILED", "FAILED")
     \/ ~Invalidates(w) /\ UNCHANGED <<run, stepStatus>>
  /\ Finish(w, "idle")
  /\ UNCHANGED <<attempts, confirmation, history, current, messages, starter,
                 beat, budget>>

---------------------------------------------------------------------------
(* recover_pending, every 30 seconds.                                      *)

\* Mutants of Expired: the policy is not looked at; only safe steps are.
ExpiredOfAnyTool(policy) ==
  run.lease = "expired" /\ stepStatus[run.index] = "RUNNING"
ExpiredSafeOnly(policy) ==
  /\ run.lease = "expired" /\ stepStatus[run.index] = "RUNNING"
  /\ policy = "safe" /\ Policy[run.index] = "safe"

Expired(policy) ==
  /\ run.status = "RUNNING"
  /\ run.lease = "expired"
  /\ stepStatus[run.index] = "RUNNING"
  /\ Policy[run.index] = policy

\* find_recoverable_steps reads without a lock.
FindRecoverable(b) ==
  /\ beat[b] = "idle"
  /\ beat' = [beat EXCEPT ![b] =
                IF Expired("safe") THEN "recovering" ELSE "marking"]
  /\ UNCHANGED <<row, history, current, messages, starter, worker, held,
                 budget>>

\* The recheck under the lock; the step goes straight back to PENDING.
RecoverExpired(b) ==
  /\ beat[b] = "recovering"
  /\ \/ /\ Expired("safe")
        /\ Settle("RUNNING", "PENDING")
        /\ beat' = [beat EXCEPT ![b] = "markingFound"]
     \/ /\ ~Expired("safe")
        /\ beat' = [beat EXCEPT ![b] = "marking"]
        /\ UNCHANGED <<run, stepStatus>>
  /\ UNCHANGED <<attempts, confirmation, history, current, messages, starter,
                 worker, held, budget>>

MarkManualUnknown(b) ==
  /\ beat[b] \in {"marking", "markingFound"}
  /\ \/ Expired("manual") /\ Settle("UNKNOWN", "UNKNOWN")
     \/ ~Expired("manual") /\ UNCHANGED <<run, stepStatus>>
  /\ beat' = [beat EXCEPT ![b] = IF @ = "marking" THEN "idle"
                                                  ELSE "enqueueing"]
  /\ UNCHANGED <<attempts, confirmation, history, current, messages, starter,
                 worker, held, budget>>

\* Mutant of EnqueueRecovered: the message is forgotten.
EnqueueForgotten(b) ==
  /\ beat[b] = "enqueueing"
  /\ beat' = [beat EXCEPT ![b] = "idle"]
  /\ UNCHANGED <<row, history, current, messages, starter, worker, held,
                 budget>>

EnqueueRecovered(b) ==
  /\ beat[b] = "enqueueing"
  /\ messages' = messages + 1
  /\ beat' = [beat EXCEPT ![b] = "idle"]
  /\ UNCHANGED <<row, history, current, starter, worker, held, budget>>

---------------------------------------------------------------------------
(* The user.                                                               *)

\* Mutant of Cancellable: only what succeeded is terminal.
CancellableUnlessDone == run.status \notin {"ABSENT", "SUCCEEDED"}

Cancellable == run.status \notin Terminal \cup {"ABSENT"}

Cancel ==
  /\ Cancellable
  /\ run' = [run EXCEPT !.status = "CANCELLED", !.token = NoToken,
                        !.lease = "none"]
  /\ stepStatus' = [stepStatus EXCEPT ![run.index] =
       IF @ \in {"PENDING", "RUNNING", "AWAITING"} THEN "CANCELLED" ELSE @]
  /\ UNCHANGED <<attempts, confirmation, history, current, messages, starter,
                 worker, held, beat, budget>>

\* decide_confirmation on the confirmation of step s.  "late": ten minutes
\* have passed; "other": another fingerprint, member or role than the one
\* the confirmation was bound to.
Decide(s, decision, request) ==
  LET stale == \/ s # run.index
               \/ stepStatus[run.index] # "AWAITING"
               \/ request # "valid"
               \/ ~current
  IN
  /\ confirmation[s] = "PENDING"
  /\ \/ /\ stale
        /\ confirmation' = [confirmation EXCEPT ![s] =
             IF request = "late" THEN "EXPIRED" ELSE "INVALIDATED"]
        /\ run' = [run EXCEPT !.token = NoToken, !.lease = "none"]
        /\ UNCHANGED stepStatus
     \/ /\ ~stale
        /\ decision = "reject"
        /\ confirmation' = [confirmation EXCEPT ![s] = "REJECTED"]
        /\ Settle("REJECTED", "REJECTED")
     \/ /\ ~stale
        /\ decision = "approve"
        /\ confirmation' = [confirmation EXCEPT ![s] = "APPROVED"]
        /\ Settle("QUEUED", "PENDING")
  /\ UNCHANGED <<attempts, history, current, messages, starter, worker, held,
                 beat, budget>>

DecideConfirmation ==
  \E s \in Steps, decision \in {"approve", "reject"},
     request \in {"valid", "late", "other"} : Decide(s, decision, request)

\* Mutant of Retryable: any tool may be retried.
RetryableAnyTool == run.status = "FAILED" /\ stepStatus[run.index] = "FAILED"

Retryable ==
  /\ run.status = "FAILED"
  /\ Policy[run.index] = "manual"
  /\ stepStatus[run.index] = "FAILED"

\* An idempotency key that was seen before changes nothing.
Retry ==
  /\ Retryable
  /\ Spend("retry")
  /\ Settle("QUEUED", "PENDING")
  /\ retries' = [retries EXCEPT ![run.index] = @ + 1]
  /\ UNCHANGED <<attempts, confirmation, calls, resultOf, current, messages,
                 starter, worker, held, beat>>

---------------------------------------------------------------------------
(* Time, administrators and crashes, each within its bound.                *)

HolderAlive == \E w \in Workers : held[w] = run.token

\* The 60 seconds pass.  No heartbeat renews this lease, so it can also run
\* out under a worker that is alive but slow; Limits bounds only that case.
LeaseExpires ==
  /\ run.lease = "live"
  /\ run' = [run EXCEPT !.lease = "expired"]
  /\ \/ HolderAlive /\ Spend("expiry")
     \/ ~HolderAlive /\ UNCHANGED budget
  /\ UNCHANGED <<stepStatus, attempts, confirmation, history, current,
                 messages, starter, worker, held, beat>>

\* A role, a membership, the account configuration or the plan's inputs
\* change, or change back.
ContextChanges ==
  /\ Spend("context")
  /\ current' = ~current
  /\ UNCHANGED <<row, history, messages, starter, worker, held, beat>>

WorkerCrash(w) ==
  /\ worker[w] # "idle"
  /\ Spend("workerCrash")
  /\ Finish(w, "idle")
  /\ UNCHANGED <<row, history, current, messages, starter, beat>>

BeatCrash(b) ==
  /\ beat[b] # "idle"
  /\ Spend("otherCrash")
  /\ beat' = [beat EXCEPT ![b] = "idle"]
  /\ UNCHANGED <<row, history, current, messages, starter, worker, held>>

StarterCrash(a) ==
  /\ starter[a] \in {"creating", "enqueueing"}
  /\ Spend("otherCrash")
  /\ starter' = [starter EXCEPT ![a] = "done"]
  /\ UNCHANGED <<row, history, current, messages, worker, held, beat>>

---------------------------------------------------------------------------
Start(a) == FindExistingRun(a) \/ CreateRun(a) \/ EnqueueRun(a)

ExecuteRun(w) ==
  \/ ReceiveMessage(w) \/ ClaimNextStep(w) \/ ClaimRefused(w)
  \/ ExecuteClaimRefused(w) \/ AwaitConfirmation(w) \/ ValidateClaim(w)
  \/ InvokeTool(w) \/ ToolDenied(w)
  \/ PublishRefused(w) \/ PublishFailure(w) \/ PublishSuccess(w)
  \/ EnqueueNextStep(w) \/ FailInvalidated(w)

RecoverPending(b) ==
  \/ FindRecoverable(b) \/ RecoverExpired(b) \/ MarkManualUnknown(b)
  \/ EnqueueRecovered(b)

Next ==
  \/ \E a \in Starters : Start(a) \/ StarterCrash(a)
  \/ \E w \in Workers : ExecuteRun(w) \/ WorkerCrash(w)
  \/ \E b \in Beats : RecoverPending(b) \/ BeatCrash(b)
  \/ Cancel \/ DecideConfirmation \/ Retry
  \/ LeaseExpires \/ ContextChanges

Spec == Init /\ [][Next]_vars

\* Processes that do not crash go on, the beat keeps firing and time passes.
\* The user, the administrators and crashes are under no obligation.
Fairness ==
  /\ \A a \in Starters : WF_vars(Start(a))
  /\ \A w \in Workers : WF_vars(ExecuteRun(w))
  /\ \A b \in Beats : WF_vars(RecoverPending(b))
  /\ WF_vars(LeaseExpires)

FairSpec == Spec /\ Fairness

---------------------------------------------------------------------------
(* Safety.                                                                 *)

\* The run row, the row of its current step and the claim agree: whoever
\* locks the run finds a state one of the handlers can go on from.
RowsAgree ==
  LET now == stepStatus[run.index] IN
  /\ run.lease = "none" <=> run.token = NoToken
  /\ run.token # NoToken =>
       /\ run.status = "RUNNING" /\ now = "RUNNING"
       /\ run.token = <<run.index, attempts[run.index]>>
  /\ run.status = "RUNNING" /\ run.token = NoToken => now = "PENDING"
  /\ run.status \in {"ABSENT", "QUEUED"} => now = "PENDING"
  /\ run.status \in {"AWAITING", "SUCCEEDED", "REJECTED", "CANCELLED",
                     "FAILED", "UNKNOWN"} => now = run.status

\* Steps run in the order of the plan: all before the current one succeeded,
\* none after it was claimed or called.
InPlanOrder ==
  \A s \in Steps :
    /\ s < run.index => stepStatus[s] = "SUCCEEDED"
    /\ s > run.index => /\ stepStatus[s] = "PENDING"
                        /\ attempts[s] = 0 /\ calls[s] = 0

\* A tool that is not safe to repeat is called once, and once more for every
\* manual retry a person asked for: no crash, recovery, duplicated message or
\* slow worker calls it again (design, section 1: a successful external call
\* is never repeated).
CalledOncePerGrant ==
  \A s \in Steps :
    /\ Policy[s] # "safe" => calls[s] <= 1 + retries[s]
    /\ Policy[s] = "never" => retries[s] = 0

\* A protected tool is called only after a person approved its confirmation.
CalledOnlyApproved ==
  \A s \in Protected : calls[s] > 0 => confirmation[s] = "APPROVED"

\* The result a step carries comes from its latest attempt: a worker that
\* lost its claim never publishes over the one that took the step over.
ResultOfLatestAttempt ==
  \A s \in Steps : stepStatus[s] = "SUCCEEDED" => resultOf[s] = attempts[s]

\* An open question is answerable or its run is cancelled: a confirmation
\* stays PENDING only where its step waits for it.
OpenQuestionWaits ==
  \A s \in Steps : confirmation[s] = "PENDING" =>
    run.index = s /\ stepStatus[s] \in {"AWAITING", "CANCELLED"}

\* Once a run is succeeded, rejected, cancelled or unknown, nothing late (a
\* publication, a recovery, a decision, a message) changes it, and no worker
\* is let through to a tool any more: a call that is still made belongs to a
\* worker whose claim was validated before the end, and its result never
\* enters the run.
FinalIsFinal ==
  [][run.status \in Final =>
       /\ UNCHANGED <<run, stepStatus, attempts, resultOf>>
       /\ \A w \in Workers :
            worker'[w] = "validated" => worker[w] = "validated"
       /\ \A s \in Steps : calls'[s] # calls[s] =>
            \E w \in Workers : worker[w] = "validated" /\ held[w][1] = s]_vars

\* A failed run moves only by a manual retry of a step whose tool allows it.
FailedOnlyRetried ==
  [][run.status = "FAILED" /\ run' # run =>
       /\ run'.status = "QUEUED"
       /\ Policy[run.index] = "manual"
       /\ retries'[run.index] = retries[run.index] + 1]_vars

\* A claim ends by its holder, by the user's cancellation, or after its lease
\* ran out; no other worker takes it away while it is good.
ClaimEndsRightly ==
  [][run.token # NoToken /\ run'.token # run.token =>
       \/ run.lease = "expired"
       \/ run'.status = "CANCELLED"
       \/ \E w \in Workers : held[w] = run.token /\ worker'[w] # worker[w]]_vars

\* The run keeps its contract with the person who approved the plan: every
\* step of any process is a step of AgentRunContract or changes nothing there.
\* Due are the claims that were let through and whose call has not begun.
Due == {held[w] : w \in {v \in Workers : worker[v] = "validated"}}
Contract == INSTANCE AgentRunContract WITH
  status <- run.status, step <- run.index, attempt <- run.token # NoToken,
  approved <- {s \in Steps : confirmation[s] = "APPROVED"}, due <- Due
ContractKept == Contract!Spec

---------------------------------------------------------------------------
(* Liveness, of FairSpec.                                                  *)

Active == run.status \in {"QUEUED", "RUNNING"}

\* Every claim ends, also when the worker that held it is gone: recovery
\* returns a safe step and marks a manual one unknown.
ClaimsEnd == run.token # NoToken ~> run.token = NoToken

\* When no process dies, a run that was started comes to rest: finished,
\* failed, or waiting for a person.
Undisturbed ==
  \A kind \in {"workerCrash", "otherCrash"} : budget[kind] = Limits[kind]
RunComesToRest == Active ~> (~Active \/ ~Undisturbed)

\* The same when a worker dies: another one takes the run over (design,
\* section 14, item 9).
RunSurvivesWorkerCrash == Active ~> ~Active

\* A queued run is picked up by some worker.
QueuedRunStarts == run.status = "QUEUED" ~> run.status # "QUEUED"
=============================================================================

-------------------------- MODULE AgentRunProofs --------------------------
(***************************************************************************)
(* Proofs about AgentRun for every number of steps, workers, requests and  *)
(* beats, every policy of the tools and every bound on the environment.    *)
(***************************************************************************)
EXTENDS AgentRun, TLAPS

USE DEF Hazards

\* The first step of a plan is one of its steps.
LEMMA FirstStep == 0 \in Steps
BY StepsAssumption DEF Steps

\* Every variable keeps its type.
LEMMA TypeInit == Init => TypeOK
BY FirstStep, LimitsAssumption
   DEF Init, TypeOK, RunStatus, StepStatus, ConfirmationStatus, Token,
       NoToken, StarterPc, WorkerPc, BeatPc

\* What Settle writes has the type of the rows.
LEMMA SettleType ==
  ASSUME TypeOK, NEW r \in RunStatus, NEW t \in StepStatus, Settle(r, t)
  PROVE  /\ run' \in [status: RunStatus, index: Steps, token: Token,
                      lease: {"none", "live", "expired"}]
         /\ stepStatus' \in [Steps -> StepStatus]
BY DEF TypeOK, Settle, Token

LEMMA SpendType ==
  ASSUME TypeOK, NEW h \in Hazards, Spend(h)
  PROVE  budget' \in [Hazards -> Nat]
BY DEF TypeOK, Spend

LEMMA FinishType ==
  ASSUME TypeOK, NEW w \in Workers, NEW pc \in WorkerPc, Finish(w, pc)
  PROVE  /\ worker' \in [Workers -> WorkerPc]
         /\ held' \in [Workers -> Token]
BY DEF TypeOK, Finish, Goto, Token

LEMMA GotoType ==
  ASSUME TypeOK, NEW w \in Workers, NEW pc \in WorkerPc, Goto(w, pc)
  PROVE  worker' \in [Workers -> WorkerPc]
BY DEF TypeOK, Goto

---------------------------------------------------------------------------
(* Type correctness: one lemma per group of handlers, one step per action. *)

LEMMA TypeStart ==
  ASSUME TypeOK, NEW a \in Starters, Start(a) \/ StarterCrash(a)
  PROVE  TypeOK'
<1>1. CASE FindExistingRun(a)
  BY <1>1 DEF TypeOK, FindExistingRun, StarterPc, row, history
<1>2. CASE CreateRun(a)
  BY <1>2 DEF TypeOK, CreateRun, StarterPc, RunStatus, history
<1>3. CASE EnqueueRun(a)
  BY <1>3 DEF TypeOK, EnqueueRun, StarterPc, row, history
<1>4. CASE StarterCrash(a)
  BY <1>4, SpendType DEF TypeOK, StarterCrash, StarterPc, row, history
<1> QED BY <1>1, <1>2, <1>3, <1>4 DEF Start

LEMMA TypeExecuteRun ==
  ASSUME TypeOK, NEW w \in Workers, ExecuteRun(w) \/ WorkerCrash(w)
  PROVE  TypeOK'
<1> USE DEF WorkerPc
<1>1. CASE ReceiveMessage(w)
  <2>1. worker' \in [Workers -> WorkerPc]
    BY <1>1, GotoType DEF ReceiveMessage
  <2> QED BY <1>1, <2>1 DEF TypeOK, ReceiveMessage, row, history
<1>2. CASE ClaimNextStep(w)
  <2>1. <<run.index, attempts[run.index] + 1>> \in Token
    BY DEF TypeOK, Token
  <2>2. worker' \in [Workers -> WorkerPc]
    BY <1>2, GotoType DEF ClaimNextStep
  <2>3. run' \in [status: RunStatus, index: Steps, token: Token,
                  lease: {"none", "live", "expired"}]
    BY <1>2, <2>1 DEF ClaimNextStep, TypeOK, RunStatus
  <2>4. held' \in [Workers -> Token]
    BY <1>2, <2>1 DEF ClaimNextStep, TypeOK
  <2>5. /\ stepStatus' \in [Steps -> StepStatus]
        /\ attempts' \in [Steps -> Nat]
    BY <1>2 DEF ClaimNextStep, TypeOK, StepStatus
  <2> QED BY <1>2, <2>2, <2>3, <2>4, <2>5 DEF TypeOK, ClaimNextStep, history
<1>3. CASE ClaimRefused(w)
  <2>1. worker' \in [Workers -> WorkerPc]
    BY <1>3, GotoType DEF ClaimRefused
  <2> QED BY <1>3, <2>1 DEF TypeOK, ClaimRefused, row, history
<1>4. CASE ExecuteClaimRefused(w)
  <2>1. /\ worker' \in [Workers -> WorkerPc]
        /\ held' \in [Workers -> Token]
    BY <1>4, GotoType, FinishType DEF ExecuteClaimRefused, TypeOK
  <2> QED BY <1>4, <2>1 DEF TypeOK, ExecuteClaimRefused, row, history
<1>5. CASE AwaitConfirmation(w)
  <2>1. /\ worker' \in [Workers -> WorkerPc]
        /\ held' \in [Workers -> Token]
    BY <1>5, FinishType DEF AwaitConfirmation
  <2>2. /\ run' \in [status: RunStatus, index: Steps, token: Token,
                     lease: {"none", "live", "expired"}]
        /\ stepStatus' \in [Steps -> StepStatus]
    BY <1>5, SettleType DEF AwaitConfirmation, RunStatus, StepStatus
  <2>3. confirmation' \in [Steps -> ConfirmationStatus]
    BY <1>5 DEF AwaitConfirmation, TypeOK, ConfirmationStatus
  <2> QED BY <1>5, <2>1, <2>2, <2>3 DEF TypeOK, AwaitConfirmation, history
<1>6. CASE InvokeTool(w)
  <2>1. worker' \in [Workers -> WorkerPc]
    BY <1>6, GotoType DEF InvokeTool
  <2>2. calls' \in [Steps -> Nat]
    <3>1. calls' = [s \in Steps |-> IF s = held[w][1] THEN calls[s] + 1
                                                      ELSE calls[s]]
      BY <1>6 DEF InvokeTool, TypeOK
    <3>2. \A s \in Steps : calls[s] \in Nat
      BY DEF TypeOK
    <3> QED BY <3>1, <3>2
  <2> QED BY <1>6, <2>1, <2>2 DEF TypeOK, InvokeTool, row
<1>7. CASE PublishRefused(w)
  <2>1. /\ worker' \in [Workers -> WorkerPc]
        /\ held' \in [Workers -> Token]
    BY <1>7, GotoType, FinishType DEF PublishRefused, TypeOK
  <2> QED BY <1>7, <2>1 DEF TypeOK, PublishRefused, row, history
<1>8. CASE PublishFailure(w)
  <2>1. /\ worker' \in [Workers -> WorkerPc]
        /\ held' \in [Workers -> Token]
    BY <1>8, FinishType DEF PublishFailure
  <2>2. /\ run' \in [status: RunStatus, index: Steps, token: Token,
                     lease: {"none", "live", "expired"}]
        /\ stepStatus' \in [Steps -> StepStatus]
    BY <1>8, SettleType DEF PublishFailure, RunStatus, StepStatus
  <2>3. resultOf' \in [Steps -> Nat]
    BY <1>8 DEF PublishFailure, TypeOK, Token, NoToken, ClaimValid
  <2> QED BY <1>8, <2>1, <2>2, <2>3 DEF TypeOK, PublishFailure
<1>9. CASE PublishSuccess(w)
  <2>1. /\ worker' \in [Workers -> WorkerPc]
        /\ held' \in [Workers -> Token]
    BY <1>9, FinishType DEF PublishSuccess, HasNext, MarkSucceeded
  <2>2. held[w][1] \in Steps /\ held[w][2] \in Nat
    BY <1>9 DEF PublishSuccess, HasNext, MarkSucceeded, ClaimValid, TypeOK,
                Token
  <2>3. /\ resultOf' \in [Steps -> Nat]
        /\ stepStatus' \in [Steps -> StepStatus]
    BY <1>9, <2>2 DEF PublishSuccess, HasNext, MarkSucceeded, TypeOK,
                      StepStatus
  <2>4. run' \in [status: RunStatus, index: Steps, token: Token,
                  lease: {"none", "live", "expired"}]
    BY <1>9 DEF PublishSuccess, HasNext, MarkSucceeded, TypeOK, RunStatus,
                Token
  <2> QED BY <1>9, <2>1, <2>3, <2>4 DEF TypeOK, PublishSuccess
<1>10. CASE EnqueueNextStep(w)
  <2>1. worker' \in [Workers -> WorkerPc]
    BY <1>10, GotoType DEF EnqueueNextStep
  <2> QED BY <1>10, <2>1 DEF TypeOK, EnqueueNextStep, row, history
<1>11. CASE FailInvalidated(w)
  <2>1. /\ worker' \in [Workers -> WorkerPc]
        /\ held' \in [Workers -> Token]
    BY <1>11, FinishType DEF FailInvalidated
  <2>2. /\ run' \in [status: RunStatus, index: Steps, token: Token,
                     lease: {"none", "live", "expired"}]
        /\ stepStatus' \in [Steps -> StepStatus]
    BY <1>11, SettleType DEF FailInvalidated, RunStatus, StepStatus, TypeOK
  <2> QED BY <1>11, <2>1, <2>2 DEF TypeOK, FailInvalidated, history
<1>12. CASE WorkerCrash(w)
  <2>1. /\ worker' \in [Workers -> WorkerPc]
        /\ held' \in [Workers -> Token]
        /\ budget' \in [Hazards -> Nat]
    BY <1>12, FinishType, SpendType DEF WorkerCrash
  <2> QED BY <1>12, <2>1 DEF TypeOK, WorkerCrash, row, history
<1>13. CASE ValidateClaim(w) \/ ToolDenied(w)
  <2>1. worker' \in [Workers -> WorkerPc]
    BY <1>13, GotoType DEF ValidateClaim, ToolDenied
  <2> QED BY <1>13, <2>1 DEF TypeOK, ValidateClaim, ToolDenied, row, history
<1> QED
  BY <1>1, <1>2, <1>3, <1>4, <1>5, <1>6, <1>7, <1>8, <1>9, <1>10, <1>11,
     <1>12, <1>13 DEF ExecuteRun

LEMMA TypeRecoverPending ==
  ASSUME TypeOK, NEW b \in Beats, RecoverPending(b) \/ BeatCrash(b)
  PROVE  TypeOK'
<1> USE DEF BeatPc
<1>1. CASE FindRecoverable(b)
  BY <1>1 DEF TypeOK, FindRecoverable, row, history
<1>2. CASE RecoverExpired(b)
  <2>1. /\ run' \in [status: RunStatus, index: Steps, token: Token,
                     lease: {"none", "live", "expired"}]
        /\ stepStatus' \in [Steps -> StepStatus]
    BY <1>2, SettleType DEF RecoverExpired, RunStatus, StepStatus, TypeOK
  <2> QED BY <1>2, <2>1 DEF TypeOK, RecoverExpired, history
<1>3. CASE MarkManualUnknown(b)
  <2>1. /\ run' \in [status: RunStatus, index: Steps, token: Token,
                     lease: {"none", "live", "expired"}]
        /\ stepStatus' \in [Steps -> StepStatus]
    BY <1>3, SettleType DEF MarkManualUnknown, RunStatus, StepStatus, TypeOK
  <2> QED BY <1>3, <2>1 DEF TypeOK, MarkManualUnknown, history
<1>4. CASE EnqueueRecovered(b)
  BY <1>4 DEF TypeOK, EnqueueRecovered, row, history
<1>5. CASE BeatCrash(b)
  BY <1>5, SpendType DEF TypeOK, BeatCrash, row, history
<1> QED BY <1>1, <1>2, <1>3, <1>4, <1>5 DEF RecoverPending

LEMMA TypeUser ==
  ASSUME TypeOK, Cancel \/ DecideConfirmation \/ Retry
  PROVE  TypeOK'
<1>1. CASE Cancel
  BY <1>1 DEF TypeOK, Cancel, Cancellable, RunStatus, StepStatus, Token,
              history
<1>2. CASE DecideConfirmation
  <2> PICK s \in Steps, decision \in {"approve", "reject"},
           request \in {"valid", "late", "other"} :
             Decide(s, decision, request)
    BY <1>2 DEF DecideConfirmation
  <2>1. confirmation' \in [Steps -> ConfirmationStatus]
    BY DEF Decide, TypeOK, ConfirmationStatus
  <2>2. /\ run' \in [status: RunStatus, index: Steps, token: Token,
                     lease: {"none", "live", "expired"}]
        /\ stepStatus' \in [Steps -> StepStatus]
    BY SettleType DEF Decide, RunStatus, StepStatus, TypeOK, Token
  <2> QED BY <2>1, <2>2 DEF TypeOK, Decide, history
<1>3. CASE Retry
  <2>1. /\ run' \in [status: RunStatus, index: Steps, token: Token,
                     lease: {"none", "live", "expired"}]
        /\ stepStatus' \in [Steps -> StepStatus]
        /\ budget' \in [Hazards -> Nat]
    BY <1>3, SettleType, SpendType DEF Retry, Retryable, RunStatus, StepStatus
  <2>2. retries' \in [Steps -> Nat]
    BY <1>3 DEF Retry, Retryable, TypeOK
  <2> QED BY <1>3, <2>1, <2>2 DEF TypeOK, Retry, Retryable
<1> QED BY <1>1, <1>2, <1>3

LEMMA TypeEnvironment ==
  ASSUME TypeOK, LeaseExpires \/ ContextChanges
  PROVE  TypeOK'
<1>1. CASE LeaseExpires
  <2>1. budget' \in [Hazards -> Nat]
    BY <1>1, SpendType DEF LeaseExpires, TypeOK
  <2> QED BY <1>1, <2>1 DEF TypeOK, LeaseExpires, history
<1>2. CASE ContextChanges
  BY <1>2, SpendType DEF TypeOK, ContextChanges, row, history
<1> QED BY <1>1, <1>2

\* TypeOK is an invariant: whatever the interleaving, every row of a run
\* holds a status its table knows and an index of one of its steps.
THEOREM TypeCorrect == Spec => []TypeOK
<1>1. TypeOK /\ [Next]_vars => TypeOK'
  <2> SUFFICES ASSUME TypeOK, [Next]_vars PROVE TypeOK'
    OBVIOUS
  <2>1. CASE UNCHANGED vars
    BY <2>1 DEF TypeOK, vars
  <2> QED
    BY <2>1, TypeStart, TypeExecuteRun, TypeRecoverPending, TypeUser,
       TypeEnvironment DEF Next
<1> QED BY TypeInit, <1>1, PTL DEF Spec

---------------------------------------------------------------------------
(* The rows: they agree with each other only because steps run in order    *)
(* and a PENDING confirmation keeps its step waiting, so the three are one *)
(* inductive invariant, together with what is known of a worker that was   *)
(* let through to its tool and may call it late.                           *)

Rows == RowsAgree /\ InPlanOrder /\ OpenQuestionWaits

LEMMA RowsInit == Init => Rows
BY FirstStep DEF Init, Rows, RowsAgree, InPlanOrder, OpenQuestionWaits, Steps,
                 NoToken

\* The pairs of statuses the handlers settle the two rows to.
Settled(r, t) ==
  \/ r \in {"AWAITING", "REJECTED", "CANCELLED", "FAILED", "UNKNOWN"} /\ t = r
  \/ r \in {"QUEUED", "RUNNING"} /\ t = "PENDING"

LEMMA SettleRows ==
  ASSUME TypeOK, Rows, NEW r, NEW t, Settled(r, t), Settle(r, t),
         UNCHANGED <<attempts, calls>>
  PROVE  /\ RowsAgree' /\ InPlanOrder'
         /\ run'.index = run.index /\ stepStatus'[run.index] = t
<1>1. /\ run' = [run EXCEPT !.status = r, !.token = NoToken, !.lease = "none"]
      /\ run'.status = r /\ run'.token = NoToken /\ run'.lease = "none"
      /\ run'.index = run.index /\ run.index \in Steps
  BY DEF Settle, TypeOK
<1>2. /\ stepStatus'[run.index] = t
      /\ \A s \in Steps : s # run.index => stepStatus'[s] = stepStatus[s]
  BY <1>1 DEF Settle, TypeOK
<1>3. RowsAgree'
  BY <1>1, <1>2 DEF RowsAgree, Settled
<1>4. InPlanOrder'
  BY <1>1, <1>2 DEF Rows, InPlanOrder, Steps
<1> QED BY <1>1, <1>2, <1>3, <1>4

\* A handler that settles the rows from a step that is not waiting leaves no
\* question open.
LEMMA SettleQuestions ==
  ASSUME TypeOK, Rows, NEW r, NEW t, Settled(r, t), Settle(r, t),
         UNCHANGED <<attempts, calls, confirmation>>,
         stepStatus[run.index] \notin {"AWAITING", "CANCELLED"}
  PROVE  Rows'
<1>1. RowsAgree' /\ InPlanOrder' /\ run'.index = run.index
  BY SettleRows
<1>2. \A s \in Steps : confirmation[s] # "PENDING"
  BY DEF Rows, OpenQuestionWaits
<1> QED BY <1>1, <1>2 DEF Rows, OpenQuestionWaits

\* A valid claim is a claim of the current step.
LEMMA ClaimOfCurrentStep ==
  ASSUME TypeOK, Rows, NEW w \in Workers, ClaimValid(w)
  PROVE  /\ run.index \in Steps
         /\ held[w] = <<run.index, attempts[run.index]>>
         /\ held[w][1] = run.index /\ held[w][2] = attempts[run.index]
         /\ run.token = held[w] /\ run.token # NoToken
         /\ run.status = "RUNNING" /\ stepStatus[run.index] = "RUNNING"
BY DEF ClaimValid, Rows, RowsAgree, TypeOK

\* A worker that was let through and has not called yet: its step was current
\* then, so it is not ahead of the run, and a protected one was approved.
LetThrough ==
  \A w \in Workers : worker[w] = "validated" =>
    /\ held[w] # NoToken
    /\ held[w][1] <= run.index
    /\ held[w][1] \in Protected => confirmation[held[w][1]] = "APPROVED"

NobodyLetThrough ==
  \A w \in Workers : worker'[w] = "validated" =>
    worker[w] = "validated" /\ held'[w] = held[w]

LEMMA RowsStart ==
  ASSUME TypeOK, Rows, NEW a \in Starters, Start(a) \/ StarterCrash(a)
  PROVE  Rows'
<1>1. CASE CreateRun(a)
  <2>1. /\ run'.index = run.index /\ run'.token = run.token
        /\ run'.lease = run.lease
        /\ \/ run'.status = run.status
           \/ run.status = "ABSENT" /\ run'.status = "QUEUED"
    BY <1>1 DEF CreateRun, TypeOK
  <2>2. UNCHANGED <<stepStatus, attempts, confirmation, calls>>
    BY <1>1 DEF CreateRun, history
  <2>3. RowsAgree'
    BY <2>1, <2>2 DEF Rows, RowsAgree
  <2> QED BY <2>1, <2>2, <2>3 DEF Rows, InPlanOrder, OpenQuestionWaits
<1>2. CASE UNCHANGED <<row, history>>
  BY <1>2 DEF row, history, Rows, RowsAgree, InPlanOrder, OpenQuestionWaits
<1> QED BY <1>1, <1>2 DEF Start, FindExistingRun, EnqueueRun, StarterCrash

LEMMA RowsExecuteRun ==
  ASSUME TypeOK, Rows, LetThrough, NEW w \in Workers, ExecuteRun(w) \/ WorkerCrash(w)
  PROVE  Rows'
<1>1. CASE UNCHANGED <<row, history>>
  BY <1>1 DEF row, history, Rows, RowsAgree, InPlanOrder, OpenQuestionWaits
<1>2. CASE ClaimNextStep(w)
  <2> DEFINE token == <<run.index, attempts[run.index] + 1>>
  <2>1. /\ run.index \in Steps /\ token # NoToken
        /\ run' = [run EXCEPT !.status = "RUNNING", !.token = token,
                              !.lease = "live"]
        /\ run'.index = run.index /\ run'.status = "RUNNING"
        /\ run'.token = token /\ run'.lease = "live"
    BY <1>2 DEF ClaimNextStep, TypeOK, NoToken, Steps
  <2>2. /\ stepStatus'[run.index] = "RUNNING"
        /\ attempts'[run.index] = attempts[run.index] + 1
        /\ \A s \in Steps : s # run.index =>
             /\ stepStatus'[s] = stepStatus[s] /\ attempts'[s] = attempts[s]
    BY <1>2, <2>1 DEF ClaimNextStep, TypeOK
  <2>3. RowsAgree'
    BY <2>1, <2>2 DEF RowsAgree
  <2>4. InPlanOrder'
    BY <1>2, <2>1, <2>2 DEF ClaimNextStep, history, Rows, InPlanOrder, Steps
  <2>5. OpenQuestionWaits'
    BY <1>2, <2>1, <2>2 DEF ClaimNextStep, Rows, OpenQuestionWaits
  <2> QED BY <2>3, <2>4, <2>5 DEF Rows
<1>3. CASE AwaitConfirmation(w)
  <2>1. ClaimValid(w) /\ Settle("AWAITING", "AWAITING")
        /\ UNCHANGED <<attempts, calls>>
    BY <1>3 DEF AwaitConfirmation, history
  <2>2. /\ RowsAgree' /\ InPlanOrder' /\ run'.index = run.index
        /\ stepStatus'[run.index] = "AWAITING"
    BY <2>1, SettleRows DEF Settled
  <2>3. /\ held[w][1] = run.index /\ run.index \in Steps
        /\ stepStatus[run.index] = "RUNNING"
    BY <2>1, ClaimOfCurrentStep
  <2>4. \A s \in Steps : s # run.index => confirmation'[s] # "PENDING"
    BY <1>3, <2>3 DEF AwaitConfirmation, TypeOK, Rows, OpenQuestionWaits
  <2> QED BY <2>2, <2>4 DEF Rows, OpenQuestionWaits
<1>4. CASE InvokeTool(w)
  <2>1. held[w][1] \in Steps /\ held[w][1] <= run.index /\ run.index \in Steps
    BY <1>4 DEF InvokeTool, LetThrough, TypeOK, Token
  <2>2. \A s \in Steps : s > run.index => calls'[s] = calls[s]
    BY <1>4, <2>1 DEF InvokeTool, TypeOK, Steps
  <2> QED BY <1>4, <2>2 DEF InvokeTool, row, Rows, RowsAgree, InPlanOrder,
                            OpenQuestionWaits
<1>5. CASE PublishFailure(w)
  <2>1. /\ stepStatus[run.index] = "RUNNING"
        /\ UNCHANGED <<attempts, calls, confirmation>>
    BY <1>5, ClaimOfCurrentStep DEF PublishFailure
  <2>2. PICK outcome \in {"UNKNOWN", "CANCELLED", "FAILED"} :
          Settle(outcome, outcome)
    BY <1>5 DEF PublishFailure
  <2>3. Settled(outcome, outcome)
    BY DEF Settled
  <2> QED BY <2>1, <2>2, <2>3, SettleQuestions
<1>6. CASE PublishSuccess(w)
  <2>1. /\ held[w][1] = run.index /\ run.index \in Steps
        /\ stepStatus[run.index] = "RUNNING"
        /\ run.status = "RUNNING"
    BY <1>6, ClaimOfCurrentStep DEF PublishSuccess, HasNext, MarkSucceeded
  <2>2. /\ stepStatus'[run.index] = "SUCCEEDED"
        /\ \A s \in Steps : s # run.index => stepStatus'[s] = stepStatus[s]
        /\ UNCHANGED <<attempts, calls, confirmation>>
    BY <1>6, <2>1 DEF PublishSuccess, HasNext, MarkSucceeded, TypeOK
  <2>3. \A s \in Steps : confirmation[s] # "PENDING"
    BY <2>1 DEF Rows, OpenQuestionWaits
  <2>4. CASE run.index + 1 \in Steps
    <3>1. /\ run'.index = run.index + 1 /\ run'.status = "RUNNING"
          /\ run'.token = NoToken /\ run'.lease = "none"
      BY <1>6, <2>1, <2>4 DEF PublishSuccess, HasNext, MarkSucceeded, TypeOK
    <3>2. stepStatus'[run.index + 1] = "PENDING"
      BY <2>1, <2>2, <2>4 DEF Rows, InPlanOrder, Steps
    <3>3. RowsAgree'
      BY <3>1, <3>2 DEF RowsAgree
    <3>4. InPlanOrder'
      BY <2>1, <2>2, <3>1 DEF Rows, InPlanOrder, Steps
    <3> QED BY <2>2, <2>3, <3>3, <3>4 DEF Rows, OpenQuestionWaits
  <2>5. CASE run.index + 1 \notin Steps
    <3>1. /\ run'.index = run.index /\ run'.status = "SUCCEEDED"
          /\ run'.token = NoToken /\ run'.lease = "none"
      BY <1>6, <2>1, <2>5 DEF PublishSuccess, HasNext, MarkSucceeded, TypeOK
    <3>2. RowsAgree'
      BY <2>2, <3>1 DEF RowsAgree
    <3>3. InPlanOrder'
      BY <2>1, <2>2, <3>1 DEF Rows, InPlanOrder, Steps
    <3> QED BY <2>2, <2>3, <3>2, <3>3 DEF Rows, OpenQuestionWaits
  <2> QED BY <2>4, <2>5
<1>7. CASE FailInvalidated(w)
  <2>1. CASE Invalidates(w) /\ Settle("FAILED", "FAILED")
    <3>1. /\ stepStatus[run.index] \notin {"AWAITING", "CANCELLED"}
          /\ UNCHANGED <<attempts, calls, confirmation>>
      BY <1>7, <2>1 DEF FailInvalidated, Invalidates, history
    <3> QED BY <2>1, <3>1, SettleQuestions DEF Settled
  <2>2. CASE UNCHANGED <<run, stepStatus>>
    BY <1>7, <2>2 DEF FailInvalidated, history, Rows, RowsAgree, InPlanOrder,
                      OpenQuestionWaits
  <2> QED BY <1>7, <2>1, <2>2 DEF FailInvalidated
<1> QED
  BY <1>1, <1>2, <1>3, <1>4, <1>5, <1>6, <1>7
     DEF ExecuteRun, ReceiveMessage, ClaimRefused, ExecuteClaimRefused,
         ValidateClaim, ToolDenied, PublishRefused, EnqueueNextStep,
         WorkerCrash

LEMMA RowsRecoverPending ==
  ASSUME TypeOK, Rows, NEW b \in Beats, RecoverPending(b) \/ BeatCrash(b)
  PROVE  Rows'
<1>1. CASE UNCHANGED <<row, history>>
  BY <1>1 DEF row, history, Rows, RowsAgree, InPlanOrder, OpenQuestionWaits
<1>2. CASE /\ RecoverExpired(b) \/ MarkManualUnknown(b)
           /\ UNCHANGED <<run, stepStatus>>
  BY <1>2 DEF RecoverExpired, MarkManualUnknown, history, Rows, RowsAgree,
              InPlanOrder, OpenQuestionWaits
<1>3. CASE RecoverExpired(b) /\ Expired("safe") /\ Settle("RUNNING", "PENDING")
  <2>1. /\ stepStatus[run.index] = "RUNNING"
        /\ UNCHANGED <<attempts, calls, confirmation>>
    BY <1>3 DEF RecoverExpired, Expired, history
  <2> QED BY <1>3, <2>1, SettleQuestions DEF Settled
<1>4. CASE MarkManualUnknown(b) /\ Expired("manual")
           /\ Settle("UNKNOWN", "UNKNOWN")
  <2>1. /\ stepStatus[run.index] = "RUNNING"
        /\ UNCHANGED <<attempts, calls, confirmation>>
    BY <1>4 DEF MarkManualUnknown, Expired, history
  <2> QED BY <1>4, <2>1, SettleQuestions DEF Settled
<1> QED BY <1>1, <1>2, <1>3, <1>4
        DEF RecoverPending, FindRecoverable, RecoverExpired,
            MarkManualUnknown, EnqueueRecovered, BeatCrash

LEMMA RowsUser ==
  ASSUME TypeOK, Rows, Cancel \/ DecideConfirmation \/ Retry
  PROVE  Rows'
<1>1. CASE Cancel
  <2>1. stepStatus[run.index] \in {"PENDING", "RUNNING", "AWAITING"}
    BY <1>1 DEF Cancel, Cancellable, Rows, RowsAgree, TypeOK, RunStatus,
                Terminal
  <2>2. Settle("CANCELLED", "CANCELLED")
    BY <1>1, <2>1 DEF Cancel, Cancellable, Settle, TypeOK
  <2>3. UNCHANGED <<attempts, calls, confirmation>>
    BY <1>1 DEF Cancel, Cancellable, history
  <2>4. /\ RowsAgree' /\ InPlanOrder' /\ run'.index = run.index
        /\ stepStatus'[run.index] = "CANCELLED"
    BY <2>2, <2>3, SettleRows DEF Settled
  <2> QED BY <2>3, <2>4 DEF Rows, OpenQuestionWaits
<1>2. CASE DecideConfirmation
  <2> PICK s \in Steps, decision \in {"approve", "reject"},
           request \in {"valid", "late", "other"} :
             Decide(s, decision, request)
    BY <1>2 DEF DecideConfirmation
  <2>1. /\ confirmation[s] = "PENDING" /\ run.index = s
        /\ stepStatus[s] \in {"AWAITING", "CANCELLED"}
        /\ UNCHANGED <<attempts, calls>>
    BY DEF Decide, Rows, OpenQuestionWaits, history
  <2>2. \A u \in Steps : u # s => confirmation[u] # "PENDING"
    BY <2>1 DEF Rows, OpenQuestionWaits
  <2>3. \A u \in Steps : confirmation'[u] # "PENDING"
    BY <2>1, <2>2 DEF Decide, TypeOK
  <2>4. OpenQuestionWaits'
    BY <2>3 DEF OpenQuestionWaits
  <2>5. CASE Settle("REJECTED", "REJECTED") \/ Settle("QUEUED", "PENDING")
    BY <2>1, <2>4, <2>5, SettleRows DEF Settled, Rows
  <2>6. CASE /\ run' = [run EXCEPT !.token = NoToken, !.lease = "none"]
             /\ UNCHANGED stepStatus
    <3>1. run.token = NoToken /\ run.lease = "none"
      BY <2>1 DEF Rows, RowsAgree
    <3>2. run' = run
      BY <2>6, <3>1 DEF TypeOK
    <3> QED BY <2>1, <2>4, <2>6, <3>2 DEF Rows, RowsAgree, InPlanOrder
  <2> QED BY <2>5, <2>6 DEF Decide
<1>3. CASE Retry
  <2>1. /\ stepStatus[run.index] = "FAILED" /\ Settle("QUEUED", "PENDING")
        /\ UNCHANGED <<attempts, calls, confirmation>>
    BY <1>3 DEF Retry, Retryable
  <2> QED BY <2>1, SettleQuestions DEF Settled
<1> QED BY <1>1, <1>2, <1>3

LEMMA RowsEnvironment ==
  ASSUME TypeOK, Rows, LeaseExpires \/ ContextChanges
  PROVE  Rows'
<1>1. CASE LeaseExpires
  <2>1. /\ run.lease = "live" /\ run'.lease = "expired"
        /\ run'.status = run.status /\ run'.index = run.index
        /\ run'.token = run.token
    BY <1>1 DEF LeaseExpires, TypeOK
  <2> QED BY <1>1, <2>1 DEF LeaseExpires, history, Rows, RowsAgree,
                            InPlanOrder, OpenQuestionWaits
<1>2. CASE ContextChanges
  BY <1>2 DEF ContextChanges, row, history, Rows, RowsAgree, InPlanOrder,
              OpenQuestionWaits
<1> QED BY <1>1, <1>2

LEMMA RowsStep == TypeOK /\ Rows /\ LetThrough /\ [Next]_vars => Rows'
<1> SUFFICES ASSUME TypeOK, Rows, LetThrough, [Next]_vars PROVE Rows'
  OBVIOUS
<1>1. CASE UNCHANGED vars
  BY <1>1 DEF vars, Rows, RowsAgree, InPlanOrder, OpenQuestionWaits
<1> QED BY <1>1, RowsStart, RowsExecuteRun, RowsRecoverPending, RowsUser,
           RowsEnvironment DEF Next

---------------------------------------------------------------------------
(* Who was let through stays entitled: the run only moves forward and no   *)
(* approval is taken back.                                                 *)

\* What a step may do to the run and its approvals.
MovesOn ==
  /\ run'.index \in Steps /\ run.index <= run'.index
  /\ \A s \in Steps : confirmation[s] = "APPROVED" =>
                        confirmation'[s] = "APPROVED"

LEMMA LetThroughKept ==
  ASSUME TypeOK, LetThrough, MovesOn, NobodyLetThrough
  PROVE  LetThrough'
<1>1. \A w \in Workers : held[w] # NoToken => held[w][1] \in Steps
  BY DEF TypeOK, Token
<1>2. run.index \in Int /\ run'.index \in Int /\ \A s \in Steps : s \in Int
  BY DEF MovesOn, TypeOK, Steps
<1> SUFFICES ASSUME NEW w \in Workers, worker'[w] = "validated"
             PROVE  /\ held'[w] # NoToken
                    /\ held'[w][1] <= run'.index
                    /\ held'[w][1] \in Protected =>
                         confirmation'[held'[w][1]] = "APPROVED"
  BY DEF LetThrough
<1>3. /\ worker[w] = "validated" /\ held'[w] = held[w]
      /\ held[w] # NoToken /\ held[w][1] <= run.index
      /\ held[w][1] \in Protected => confirmation[held[w][1]] = "APPROVED"
  BY DEF NobodyLetThrough, LetThrough
<1> QED BY <1>1, <1>2, <1>3 DEF MovesOn

\* Nobody but ValidateClaim lets a worker through.
LEMMA ExecuteRunLetsThrough ==
  ASSUME TypeOK, NEW w \in Workers, ExecuteRun(w) \/ WorkerCrash(w),
         ~ValidateClaim(w)
  PROVE  NobodyLetThrough
<1>1. CASE ReceiveMessage(w) \/ ClaimNextStep(w) \/ ClaimRefused(w)
           \/ ExecuteClaimRefused(w) \/ AwaitConfirmation(w)
  BY <1>1 DEF ReceiveMessage, ClaimNextStep, ClaimRefused,
              ExecuteClaimRefused, AwaitConfirmation, Finish, Goto, TypeOK,
              NobodyLetThrough
<1>2. CASE InvokeTool(w) \/ ToolDenied(w) \/ EnqueueNextStep(w)
           \/ FailInvalidated(w) \/ WorkerCrash(w)
  BY <1>2 DEF InvokeTool, ToolDenied, EnqueueNextStep, FailInvalidated,
              WorkerCrash, Finish, Goto, TypeOK, NobodyLetThrough
<1>3. CASE PublishRefused(w) \/ PublishFailure(w) \/ PublishSuccess(w)
  BY <1>3 DEF PublishRefused, PublishFailure, PublishSuccess, Finish, Goto,
              TypeOK, NobodyLetThrough
<1> QED BY <1>1, <1>2, <1>3 DEF ExecuteRun

LEMMA MovesOnExecuteRun ==
  ASSUME TypeOK, Rows, NEW w \in Workers, ExecuteRun(w) \/ WorkerCrash(w)
  PROVE  MovesOn
<1>1. run.index \in Steps /\ run.index \in Int /\ run.index <= run.index
  BY DEF TypeOK, Steps
<1>2. CASE UNCHANGED <<run, confirmation>>
  BY <1>1, <1>2 DEF MovesOn
<1>3. CASE ClaimNextStep(w)
  BY <1>1, <1>3 DEF ClaimNextStep, TypeOK, MovesOn
<1>4. CASE AwaitConfirmation(w)
  BY <1>1, <1>4 DEF AwaitConfirmation, Settle, TypeOK, MovesOn
<1>5. CASE PublishFailure(w) \/ FailInvalidated(w)
  BY <1>1, <1>5 DEF PublishFailure, FailInvalidated, Settle, TypeOK, MovesOn
<1>6. CASE PublishSuccess(w)
  <2>1. /\ held[w][1] = run.index
        /\ UNCHANGED confirmation
    BY <1>6, ClaimOfCurrentStep DEF PublishSuccess
  <2>2. \/ run'.index = run.index
        \/ run'.index = run.index + 1 /\ run.index + 1 \in Steps
    BY <1>6, <2>1 DEF PublishSuccess, HasNext, TypeOK
  <2> QED BY <1>1, <2>1, <2>2 DEF MovesOn, Steps
<1> QED BY <1>2, <1>3, <1>4, <1>5, <1>6
        DEF ExecuteRun, ReceiveMessage, ClaimRefused, ExecuteClaimRefused,
            ValidateClaim, InvokeTool, ToolDenied, PublishRefused,
            EnqueueNextStep, WorkerCrash, row

LEMMA MovesOnElsewhere ==
  ASSUME TypeOK,
         \/ \E b \in Beats : RecoverPending(b) \/ BeatCrash(b)
         \/ \E a \in Starters : Start(a) \/ StarterCrash(a)
         \/ Cancel \/ DecideConfirmation \/ Retry
         \/ LeaseExpires \/ ContextChanges
  PROVE  MovesOn /\ UNCHANGED <<worker, held>>
<1>1. run.index \in Steps /\ run.index \in Int /\ run.index <= run.index
  BY DEF TypeOK, Steps
<1>2. UNCHANGED <<worker, held>>
  BY DEF RecoverPending, FindRecoverable, RecoverExpired, MarkManualUnknown,
         EnqueueRecovered, BeatCrash, Start, FindExistingRun, CreateRun,
         EnqueueRun, StarterCrash, Cancel, DecideConfirmation, Decide, Retry,
         LeaseExpires, ContextChanges
<1>3. run'.index = run.index
  BY DEF RecoverPending, FindRecoverable, RecoverExpired, MarkManualUnknown,
         EnqueueRecovered, BeatCrash, Start, FindExistingRun, CreateRun,
         EnqueueRun, StarterCrash, Cancel, DecideConfirmation, Decide, Retry,
         LeaseExpires, ContextChanges, Settle, TypeOK, row
<1>4. \A s \in Steps : confirmation[s] = "APPROVED" =>
                        confirmation'[s] = "APPROVED"
  BY DEF RecoverPending, FindRecoverable, RecoverExpired, MarkManualUnknown,
         EnqueueRecovered, BeatCrash, Start, FindExistingRun, CreateRun,
         EnqueueRun, StarterCrash, Cancel, DecideConfirmation, Decide, Retry,
         LeaseExpires, ContextChanges, TypeOK, row
<1> QED BY <1>1, <1>2, <1>3, <1>4 DEF MovesOn

LEMMA LetThroughStep ==
  TypeOK /\ Rows /\ LetThrough /\ [Next]_vars => LetThrough'
<1> SUFFICES ASSUME TypeOK, Rows, LetThrough, [Next]_vars PROVE LetThrough'
  OBVIOUS
<1>1. CASE UNCHANGED vars
  BY <1>1 DEF vars, LetThrough
<1>2. ASSUME NEW w \in Workers, ExecuteRun(w) \/ WorkerCrash(w)
      PROVE  LetThrough'
  <2>1. CASE ValidateClaim(w)
    <3>1. /\ held[w] = run.token /\ run.token # NoToken
          /\ held[w][1] = run.index /\ run.index \in Int
          /\ held[w][1] \in Protected => confirmation[held[w][1]] = "APPROVED"
      BY <2>1, ClaimOfCurrentStep DEF ValidateClaim, NeedsConfirmation, Steps
    <3>2. /\ UNCHANGED <<run, confirmation, held>>
          /\ \A v \in Workers : v # w => worker'[v] = worker[v]
      BY <2>1 DEF ValidateClaim, Goto, row, TypeOK
    <3> QED BY <3>1, <3>2 DEF LetThrough
  <2>2. CASE ~ValidateClaim(w)
    BY <1>2, <2>2, ExecuteRunLetsThrough, MovesOnExecuteRun, LetThroughKept
  <2> QED BY <2>1, <2>2
<1>3. CASE ~\E w \in Workers : ExecuteRun(w) \/ WorkerCrash(w)
  <2>1. CASE ~UNCHANGED vars
    <3>1. MovesOn /\ UNCHANGED <<worker, held>>
      BY <1>3, <2>1, MovesOnElsewhere DEF Next
    <3> QED BY <3>1, LetThroughKept DEF NobodyLetThrough
  <2> QED BY <1>1, <2>1
<1> QED BY <1>2, <1>3

LEMMA RowsAlways == Spec => [](Rows /\ LetThrough)
<1>1. Init => LetThrough
  BY DEF Init, LetThrough
<1> QED BY TypeCorrect, RowsInit, <1>1, RowsStep, LetThroughStep, PTL DEF Spec

\* The run, its current step and its claim agree after every handler.
THEOREM RowsAlwaysAgree == Spec => []RowsAgree
<1>1. Rows => RowsAgree
  BY DEF Rows
<1> QED BY <1>1, RowsAlways, PTL

\* Steps succeed in the order of the plan and none is called early.
THEOREM PlanOrderKept == Spec => []InPlanOrder
<1>1. Rows => InPlanOrder
  BY DEF Rows
<1> QED BY <1>1, RowsAlways, PTL

\* A PENDING confirmation belongs to a step that waits or was cancelled.
THEOREM QuestionsWait == Spec => []OpenQuestionWaits
<1>1. Rows => OpenQuestionWaits
  BY DEF Rows
<1> QED BY <1>1, RowsAlways, PTL
=============================================================================

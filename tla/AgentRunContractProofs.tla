---------------------- MODULE AgentRunContractProofs ----------------------
(***************************************************************************)
(* AgentRun implements AgentRunContract: what workers, beats, requests and *)
(* the person do to the rows is one step of the contract or none.          *)
(***************************************************************************)
EXTENDS AgentRunCallProofs

Approved == {s \in Steps : confirmation[s] = "APPROVED"}

USE DEF Approved

\* A result is only there to publish when the tool was called.
CalledBeforeResult ==
  \A w \in Workers : worker[w] = "invoking" /\ held[w] # NoToken =>
    calls[held[w][1]] > 0

LEMMA CalledInit == Init => CalledBeforeResult
BY DEF Init, CalledBeforeResult

\* Who only leaves "invoking", and calls nothing, keeps it.
LEMMA CalledKept ==
  ASSUME TypeOK, CalledBeforeResult, UNCHANGED calls,
         \A w \in Workers : worker'[w] = "invoking" =>
           worker[w] = "invoking" /\ held'[w] = held[w]
  PROVE  CalledBeforeResult'
BY DEF CalledBeforeResult

LEMMA CalledStep ==
  TypeOK /\ Rows /\ LetThrough /\ CalledBeforeResult /\ [Next]_vars =>
    CalledBeforeResult'
<1> SUFFICES ASSUME TypeOK, Rows, LetThrough, CalledBeforeResult, [Next]_vars
             PROVE  CalledBeforeResult'
  OBVIOUS
<1>1. CASE UNCHANGED <<calls, worker, held>>
  BY <1>1, CalledKept
<1>2. ASSUME NEW w \in Workers, ExecuteRun(w) \/ WorkerCrash(w)
      PROVE  CalledBeforeResult'
  <2>1. CASE InvokeTool(w)
    <3>1. held[w][1] \in Steps
      BY <2>1 DEF InvokeTool, LetThrough, TypeOK, Token
    <3>2. /\ UNCHANGED held
          /\ \A v \in Workers : v # w => worker'[v] = worker[v]
      BY <2>1 DEF InvokeTool, Goto, TypeOK
    <3>3. \A s \in Steps : (calls[s] > 0 \/ s = held[w][1]) => calls'[s] > 0
      BY <2>1, <3>1 DEF InvokeTool, TypeOK
    <3>4. \A v \in Workers : held[v] # NoToken => held[v][1] \in Steps
      BY DEF TypeOK, Token
    <3> QED BY <3>1, <3>2, <3>3, <3>4 DEF CalledBeforeResult
  <2>2. CASE ~InvokeTool(w)
    <3>1. UNCHANGED calls
      BY <1>2, <2>2
         DEF ExecuteRun, ReceiveMessage, ClaimNextStep, ClaimRefused,
             ExecuteClaimRefused, AwaitConfirmation, ValidateClaim,
             ToolDenied, PublishRefused, PublishFailure, PublishSuccess,
             EnqueueNextStep, FailInvalidated, WorkerCrash, history
    <3>2. \A v \in Workers : worker'[v] = "invoking" =>
            worker[v] = "invoking" /\ held'[v] = held[v]
      BY <1>2, <2>2
         DEF ExecuteRun, ReceiveMessage, ClaimNextStep, ClaimRefused,
             ExecuteClaimRefused, AwaitConfirmation, ValidateClaim,
             ToolDenied, PublishRefused, PublishFailure, PublishSuccess,
             EnqueueNextStep, FailInvalidated, WorkerCrash, Finish, Goto, TypeOK
    <3> QED BY <3>1, <3>2, CalledKept
  <2> QED BY <2>1, <2>2
<1>3. CASE ~\E w \in Workers : ExecuteRun(w) \/ WorkerCrash(w)
  <2>1. UNCHANGED <<calls, worker, held>>
    BY <1>3
       DEF Next, RecoverPending, FindRecoverable, RecoverExpired,
           MarkManualUnknown, EnqueueRecovered, BeatCrash, Start,
           FindExistingRun, CreateRun, EnqueueRun, StarterCrash, Cancel,
           DecideConfirmation, Decide, Retry, LeaseExpires, ContextChanges,
           history, vars
  <2> QED BY <2>1, <1>1
<1> QED BY <1>2, <1>3

---------------------------------------------------------------------------
LEMMA ContractInit == Init => Contract!Init
<1> SUFFICES ASSUME Init PROVE Contract!Init
  OBVIOUS
<1>1. Due = {}
  BY DEF Init, Due
<1> QED BY <1>1, FirstStep DEF Init, Contract!Init, Contract!Steps, Steps

\* A handler that leaves the run, the approvals, the claims let through, the
\* calls and the retries alone is no step of the contract.
LEMMA ContractStutter ==
  ASSUME UNCHANGED <<run, confirmation, Due, calls, retries>>
  PROVE  UNCHANGED Contract!cvars
BY DEF Contract!cvars

\* Who leaves the workers alone leaves the claims let through alone, and so
\* does a handler of a worker that was not let through and is not now.
LEMMA DueAlone ==
  ASSUME UNCHANGED <<worker, held>>
  PROVE  UNCHANGED Due
BY DEF Due

LEMMA DueKept ==
  ASSUME TypeOK, NEW w \in Workers,
         worker[w] # "validated", worker'[w] # "validated",
         \A v \in Workers \ {w} : worker'[v] = worker[v] /\ held'[v] = held[v]
  PROVE  UNCHANGED Due
BY DEF Due

\* A claim that was let through is one of the claims due, and when its worker
\* goes on it is the only one that leaves them.
LEMMA DueLeft ==
  ASSUME TypeOK, LetThrough, Granted, NEW w \in Workers,
         worker[w] = "validated", worker'[w] # "validated",
         \A v \in Workers \ {w} : worker'[v] = worker[v] /\ held'[v] = held[v]
  PROVE  held[w] \in Due /\ Due' = Due \ {held[w]}
<1>1. held[w] # NoToken
  BY DEF LetThrough
<1>2. \A v \in Workers \ {w} : held[v] # held[w]
  BY <1>1 DEF Granted, ClaimsDistinct
<1> QED BY <1>2 DEF Due

\* What a handler of one worker leaves alone.
LEMMA OthersAlone ==
  ASSUME TypeOK, NEW w \in Workers, ExecuteRun(w) \/ WorkerCrash(w)
  PROVE  \A v \in Workers \ {w} : worker'[v] = worker[v] /\ held'[v] = held[v]
<1>1. CASE ReceiveMessage(w) \/ ClaimNextStep(w) \/ ClaimRefused(w)
           \/ ExecuteClaimRefused(w) \/ AwaitConfirmation(w)
           \/ ValidateClaim(w) \/ InvokeTool(w) \/ ToolDenied(w)
  BY <1>1 DEF ReceiveMessage, ClaimNextStep, ClaimRefused,
              ExecuteClaimRefused, AwaitConfirmation, ValidateClaim,
              InvokeTool, ToolDenied, Finish, Goto, TypeOK
<1>2. CASE PublishRefused(w) \/ PublishFailure(w) \/ PublishSuccess(w)
           \/ EnqueueNextStep(w) \/ FailInvalidated(w) \/ WorkerCrash(w)
  BY <1>2 DEF PublishRefused, PublishFailure, PublishSuccess,
              EnqueueNextStep, FailInvalidated, WorkerCrash, Finish, Goto,
              TypeOK
<1> QED BY <1>1, <1>2 DEF ExecuteRun

\* The contract counts with the same Cardinality.
LEMMA SameCount == \A S : Contract!Cardinality(S) = Cardinality(S)
BY DEF Contract!Cardinality, Cardinality

LEMMA ContractExecuteRun ==
  ASSUME TypeOK, Rows, LetThrough, Granted, CalledBeforeResult,
         NEW w \in Workers, ExecuteRun(w) \/ WorkerCrash(w)
  PROVE  [Contract!Next]_Contract!cvars
<1>0. \A v \in Workers \ {w} : worker'[v] = worker[v] /\ held'[v] = held[v]
  BY OthersAlone
<1>1. CASE ReceiveMessage(w) \/ ClaimRefused(w) \/ ExecuteClaimRefused(w)
           \/ PublishRefused(w) \/ EnqueueNextStep(w)
  <2>1. UNCHANGED <<row, history>>
    BY <1>1 DEF ReceiveMessage, ClaimRefused, ExecuteClaimRefused,
                PublishRefused, EnqueueNextStep
  <2>2. worker[w] # "validated" /\ worker'[w] # "validated"
    BY <1>1 DEF ReceiveMessage, ClaimRefused, ExecuteClaimRefused,
                PublishRefused, EnqueueNextStep, Finish, Goto, TypeOK
  <2>3. UNCHANGED Due
    BY <1>0, <2>2, DueKept
  <2> QED BY <2>1, <2>3, ContractStutter DEF row, history
<1>2. CASE ClaimNextStep(w)
  <2>1. /\ run.status \in {"QUEUED", "RUNNING"} /\ run.token = NoToken
        /\ run'.status = "RUNNING" /\ run'.token # NoToken
        /\ run'.index = run.index
        /\ UNCHANGED <<confirmation, calls, retries>>
    BY <1>2 DEF ClaimNextStep, Claimable, TypeOK, NoToken, Steps, history
  <2>2. UNCHANGED Due
    BY <1>0, <1>2, DueKept DEF ClaimNextStep, Goto, TypeOK
  <2> QED BY <2>1, <2>2 DEF Contract!Next, Contract!Attempt
<1>3. CASE ValidateClaim(w)
  <2>1. /\ held[w][1] = run.index /\ run.index \in Steps
        /\ held[w] = run.token /\ run.token # NoToken
        /\ worker[w] = "claimed"
        /\ ~NeedsConfirmation(run.index)
        /\ UNCHANGED <<run, confirmation, calls, retries, held>>
    BY <1>3, ClaimOfCurrentStep DEF ValidateClaim, row, history
  <2>2. worker'[w] = "validated"
    BY <1>3 DEF ValidateClaim, Goto, TypeOK
  <2>3. Due' = Due \cup {held[w]}
    BY <1>0, <2>1, <2>2 DEF Due
  <2>4. held[w] \notin Due
    BY <2>1 DEF Due, Granted, ClaimsDistinct
  <2>5. \E a \in Due' \ Due : a[1] = run.index /\ Due' = Due \cup {a}
    BY <2>1, <2>3, <2>4
  <2>6. Policy[run.index] # "safe" =>
          calls[run.index] + Contract!Cardinality({a \in Due : a[1] = run.index})
            <= retries[run.index]
    <3>1. {a \in Due : a[1] = run.index} = DueOf(run.index)
      BY DEF Due, DueOf
    <3> QED BY <2>1, <3>1, SameCount DEF Granted, CallsGranted, CallLeft,
                                         Begun, AboutToCall
  <2>7. run.index \in Protected => run.index \in Approved
    BY <2>1 DEF NeedsConfirmation
  <2> QED BY <2>1, <2>5, <2>6, <2>7 DEF Contract!Next, Contract!Permit
<1>8. CASE InvokeTool(w)
  <2>1. /\ worker[w] = "validated" /\ worker'[w] # "validated"
        /\ calls' = [calls EXCEPT ![held[w][1]] = @ + 1]
        /\ UNCHANGED <<run, confirmation, retries>>
    BY <1>8 DEF InvokeTool, Goto, row, TypeOK
  <2>2. held[w] \in Due /\ Due' = Due \ {held[w]}
    BY <1>0, <2>1, DueLeft
  <2> QED BY <2>1, <2>2 DEF Contract!Next, Contract!Call
<1>9. CASE ToolDenied(w)
  <2>1. /\ worker[w] = "validated" /\ worker'[w] # "validated"
        /\ UNCHANGED <<run, confirmation, calls, retries>>
    BY <1>9 DEF ToolDenied, Goto, row, history, TypeOK
  <2>2. held[w] \in Due /\ Due' = Due \ {held[w]}
    BY <1>0, <2>1, DueLeft
  <2> QED BY <2>1, <2>2 DEF Contract!Next, Contract!Forget
<1>10. CASE WorkerCrash(w)
  <2>1. /\ worker'[w] # "validated"
        /\ UNCHANGED <<run, confirmation, calls, retries>>
    BY <1>10 DEF WorkerCrash, Finish, Goto, row, history, TypeOK
  <2>2. CASE worker[w] = "validated"
    <3>1. held[w] \in Due /\ Due' = Due \ {held[w]}
      BY <1>0, <2>1, <2>2, DueLeft
    <3> QED BY <2>1, <3>1 DEF Contract!Next, Contract!Forget
  <2>3. CASE worker[w] # "validated"
    BY <1>0, <2>1, <2>3, DueKept, ContractStutter
  <2> QED BY <2>2, <2>3
<1>4. CASE AwaitConfirmation(w)
  <2>1. /\ held[w][1] = run.index /\ run.index \in Steps
        /\ run.token # NoToken
        /\ NeedsConfirmation(run.index)
        /\ UNCHANGED <<calls, retries>>
    BY <1>4, ClaimOfCurrentStep DEF AwaitConfirmation, history
  <2>2. /\ run'.status = "AWAITING" /\ run'.token = NoToken
        /\ run'.index = run.index
    BY <1>4 DEF AwaitConfirmation, Settle, TypeOK
  <2>3. Approved' = Approved
    BY <1>4, <2>1 DEF AwaitConfirmation, TypeOK
  <2>4. UNCHANGED Due
    BY <1>0, <1>4, DueKept DEF AwaitConfirmation, Finish, Goto, TypeOK
  <2> QED BY <2>1, <2>2, <2>3, <2>4 DEF Contract!Next, Contract!Ask,
                                        NeedsConfirmation
<1>5. CASE PublishFailure(w)
  <2>1. /\ run.status = "RUNNING" /\ run.token # NoToken
        /\ UNCHANGED <<confirmation, calls, retries>>
    BY <1>5, ClaimOfCurrentStep DEF PublishFailure
  <2>2. PICK outcome \in {"UNKNOWN", "CANCELLED", "FAILED"} :
          Settle(outcome, outcome)
    BY <1>5 DEF PublishFailure
  <2>3. /\ run'.status = outcome /\ run'.token = NoToken
        /\ run'.index = run.index
    BY <2>2 DEF Settle, TypeOK
  <2>4. UNCHANGED Due
    BY <1>0, <1>5, DueKept DEF PublishFailure, Finish, Goto, TypeOK
  <2> QED BY <2>1, <2>3, <2>4 DEF Contract!Next, Contract!Stop,
                                  Contract!Cancel
<1>6. CASE PublishSuccess(w)
  <2>1. /\ held[w][1] = run.index /\ run.index \in Steps
        /\ held[w] # NoToken /\ run.token # NoToken
        /\ UNCHANGED <<confirmation, calls, retries>>
    BY <1>6, ClaimOfCurrentStep DEF PublishSuccess
  <2>2. calls[run.index] > 0
    BY <1>6, <2>1 DEF PublishSuccess, CalledBeforeResult
  <2>3. /\ run'.token = NoToken
        /\ \/ /\ run.index + 1 \in Steps /\ run'.index = run.index + 1
              /\ run'.status = run.status
           \/ /\ run.index + 1 \notin Steps /\ run'.index = run.index
              /\ run'.status = "SUCCEEDED"
    BY <1>6, <2>1 DEF PublishSuccess, HasNext, TypeOK
  <2>4. UNCHANGED Due
    BY <1>0, <1>6, DueKept DEF PublishSuccess, Finish, Goto, TypeOK
  <2> QED BY <2>1, <2>2, <2>3, <2>4 DEF Contract!Next, Contract!Succeed,
                                        Contract!Steps, Steps
<1>7. CASE FailInvalidated(w)
  <2>1. UNCHANGED <<confirmation, Due, calls, retries>>
    <3>1. worker[w] # "validated" /\ worker'[w] # "validated"
      BY <1>7 DEF FailInvalidated, Finish, Goto, TypeOK
    <3>2. UNCHANGED Due
      BY <1>0, <3>1, DueKept
    <3> QED BY <1>7, <3>2 DEF FailInvalidated, history
  <2>2. CASE Invalidates(w) /\ Settle("FAILED", "FAILED")
    <3>1. /\ run.status \in {"QUEUED", "RUNNING"}
          /\ run'.status = "FAILED" /\ run'.token = NoToken
          /\ run'.index = run.index
      BY <2>2 DEF Invalidates, Settle, TypeOK
    <3> QED BY <2>1, <3>1 DEF Contract!Next, Contract!Stop
  <2> QED BY <1>7, <2>1, <2>2, ContractStutter DEF FailInvalidated
<1> QED BY <1>1, <1>2, <1>3, <1>4, <1>5, <1>6, <1>7, <1>8, <1>9, <1>10
        DEF ExecuteRun

LEMMA ContractRecoverPending ==
  ASSUME TypeOK, Rows, NEW b \in Beats, RecoverPending(b) \/ BeatCrash(b)
  PROVE  [Contract!Next]_Contract!cvars
<1>1. UNCHANGED <<confirmation, Due, calls, retries>>
  BY DueAlone
     DEF RecoverPending, FindRecoverable, RecoverExpired, MarkManualUnknown,
         EnqueueRecovered, BeatCrash, row, history
<1>2. CASE UNCHANGED run
  BY <1>1, <1>2, ContractStutter
<1>3. CASE Expired("safe") /\ Settle("RUNNING", "PENDING")
  <2>1. /\ run.token # NoToken /\ Policy[run.index] = "safe"
        /\ run.status = "RUNNING"
    BY <1>3 DEF Expired, Rows, RowsAgree
  <2>2. /\ run'.status = run.status /\ run'.token = NoToken
        /\ run'.index = run.index
    BY <1>3, <2>1 DEF Settle, TypeOK
  <2> QED BY <1>1, <2>1, <2>2 DEF Contract!Next, Contract!Abandon
<1>4. CASE Expired("manual") /\ Settle("UNKNOWN", "UNKNOWN")
  <2>1. run.token # NoToken /\ run.status = "RUNNING"
    BY <1>4 DEF Expired, Rows, RowsAgree
  <2>2. /\ run'.status = "UNKNOWN" /\ run'.token = NoToken
        /\ run'.index = run.index
    BY <1>4 DEF Settle, TypeOK
  <2> QED BY <1>1, <2>1, <2>2 DEF Contract!Next, Contract!Stop
<1> QED BY <1>2, <1>3, <1>4
        DEF RecoverPending, FindRecoverable, RecoverExpired,
            MarkManualUnknown, EnqueueRecovered, BeatCrash, row

LEMMA ContractUser ==
  ASSUME TypeOK, Rows, Cancel \/ DecideConfirmation \/ Retry
  PROVE  [Contract!Next]_Contract!cvars
<1>0. UNCHANGED Due
  BY DueAlone DEF Cancel, DecideConfirmation, Decide, Retry
<1>1. CASE Cancel
  <2>1. /\ run.status \in {"QUEUED", "RUNNING", "AWAITING"}
        /\ run'.status = "CANCELLED" /\ run'.token = NoToken
        /\ run'.index = run.index
        /\ UNCHANGED <<confirmation, calls, retries>>
    BY <1>1 DEF Cancel, Cancellable, TypeOK, RunStatus, Terminal, history
  <2> QED BY <1>0, <2>1 DEF Contract!Next, Contract!Cancel
<1>2. CASE DecideConfirmation
  <2> PICK s \in Steps, decision \in {"approve", "reject"},
           request \in {"valid", "late", "other"} :
             Decide(s, decision, request)
    BY <1>2 DEF DecideConfirmation
  <2>1. /\ confirmation[s] = "PENDING" /\ run.index = s
        /\ run.token = NoToken /\ run.lease = "none"
        /\ UNCHANGED <<calls, retries>>
    BY DEF Decide, Rows, RowsAgree, OpenQuestionWaits, history
  <2>2. CASE /\ run' = [run EXCEPT !.token = NoToken, !.lease = "none"]
             /\ \/ confirmation' = [confirmation EXCEPT ![s] = "EXPIRED"]
                \/ confirmation' = [confirmation EXCEPT ![s] = "INVALIDATED"]
    <3>1. run' = run
      BY <2>1, <2>2 DEF TypeOK
    <3>2. Approved' = Approved
      BY <2>1, <2>2 DEF TypeOK
    <3> QED BY <1>0, <2>1, <3>1, <3>2 DEF Contract!cvars
  <2>3. CASE /\ stepStatus[s] = "AWAITING" /\ Settle("REJECTED", "REJECTED")
             /\ confirmation' = [confirmation EXCEPT ![s] = "REJECTED"]
    <3>1. run.status = "AWAITING"
      BY <2>1, <2>3 DEF Rows, RowsAgree, TypeOK, RunStatus
    <3>2. /\ run'.status = "REJECTED" /\ run'.token = NoToken
          /\ run'.index = run.index
      BY <2>3 DEF Settle, TypeOK
    <3>3. Approved' = Approved
      BY <2>1, <2>3 DEF TypeOK
    <3> QED BY <1>0, <2>1, <3>1, <3>2, <3>3 DEF Contract!Next, Contract!Answer
  <2>4. CASE /\ stepStatus[s] = "AWAITING" /\ Settle("QUEUED", "PENDING")
             /\ confirmation' = [confirmation EXCEPT ![s] = "APPROVED"]
    <3>1. run.status = "AWAITING"
      BY <2>1, <2>4 DEF Rows, RowsAgree, TypeOK, RunStatus
    <3>2. /\ run'.status = "QUEUED" /\ run'.token = NoToken
          /\ run'.index = run.index
      BY <2>4 DEF Settle, TypeOK
    <3>3. Approved' = Approved \cup {run.index}
      BY <2>1, <2>4 DEF TypeOK
    <3> QED BY <1>0, <2>1, <3>1, <3>2, <3>3 DEF Contract!Next, Contract!Answer
  <2> QED BY <2>1, <2>2, <2>3, <2>4 DEF Decide
<1>3. CASE Retry
  <2>1. /\ run.status = "FAILED" /\ Policy[run.index] = "manual"
        /\ run.token = NoToken
        /\ retries' = [retries EXCEPT ![run.index] = @ + 1]
        /\ UNCHANGED <<confirmation, calls>>
    BY <1>3 DEF Retry, Retryable, Rows, RowsAgree
  <2>2. /\ run'.status = "QUEUED" /\ run'.token = NoToken
        /\ run'.index = run.index
    BY <1>3 DEF Retry, Settle, TypeOK
  <2> QED BY <1>0, <2>1, <2>2 DEF Contract!Next, Contract!Retry
<1> QED BY <1>1, <1>2, <1>3

LEMMA ContractEnvironment ==
  ASSUME TypeOK, Rows,
         \/ \E a \in Starters : Start(a) \/ StarterCrash(a)
         \/ LeaseExpires \/ ContextChanges
  PROVE  [Contract!Next]_Contract!cvars
<1>0. UNCHANGED Due
  BY DueAlone DEF Start, FindExistingRun, CreateRun, EnqueueRun, StarterCrash,
                  LeaseExpires, ContextChanges
<1>1. CASE UNCHANGED <<run, confirmation, calls, retries>>
  BY <1>0, <1>1, ContractStutter
<1>2. ASSUME NEW a \in Starters, CreateRun(a)
      PROVE  [Contract!Next]_Contract!cvars
  <2>1. /\ run'.index = run.index /\ run'.token = run.token
        /\ UNCHANGED <<confirmation, calls, retries>>
        /\ \/ run'.status = run.status
           \/ run.status = "ABSENT" /\ run'.status = "QUEUED"
    BY <1>2 DEF CreateRun, history, TypeOK
  <2> QED BY <1>0, <2>1 DEF Contract!Next, Contract!Create, Contract!cvars
<1>3. CASE LeaseExpires
  <2>1. /\ run'.index = run.index /\ run'.token = run.token
        /\ run'.status = run.status
        /\ UNCHANGED <<confirmation, calls, retries>>
    BY <1>3 DEF LeaseExpires, history, TypeOK
  <2> QED BY <1>0, <2>1 DEF Contract!cvars
<1> QED BY <1>1, <1>2, <1>3
        DEF Start, FindExistingRun, EnqueueRun, StarterCrash, ContextChanges,
            row, history

LEMMA ContractStep ==
  TypeOK /\ Rows /\ LetThrough /\ Granted /\ CalledBeforeResult /\ [Next]_vars =>
    [Contract!Next]_Contract!cvars
<1> SUFFICES ASSUME TypeOK, Rows, LetThrough, Granted, CalledBeforeResult,
                    [Next]_vars
             PROVE  [Contract!Next]_Contract!cvars
  OBVIOUS
<1>1. CASE UNCHANGED vars
  BY <1>1, DueAlone, ContractStutter DEF vars
<1> QED BY <1>1, ContractExecuteRun, ContractRecoverPending, ContractUser,
           ContractEnvironment DEF Next

\* Every behaviour of workers, beats, requests, crashes and people is, seen
\* from the run's status, approvals, permitted and made calls and retries, one
\* of the contract.
THEOREM ContractAlwaysKept == Spec => ContractKept
<1>1. Spec => []CalledBeforeResult
  BY TypeCorrect, RowsAlways, CalledInit, CalledStep, PTL DEF Spec
<1> QED BY <1>1, TypeCorrect, RowsAlways, GrantedAlways, ContractInit,
           ContractStep, PTL DEF Spec, ContractKept, Contract!Spec
=============================================================================

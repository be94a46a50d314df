------------------------ MODULE AgentRunCallProofs ------------------------
(***************************************************************************)
(* Proofs about the calls a run makes: a tool that is not safe to repeat   *)
(* is called once per grant, a protected one only after its approval, and  *)
(* a result that is published belongs to the latest attempt.               *)
(***************************************************************************)
EXTENDS AgentRunProofs, FiniteSetTheorems

---------------------------------------------------------------------------
(* Why an unsafe tool is not called again: a claim has one holder, because *)
(* the token of a new claim has an attempt number nobody carries yet, and  *)
(* whoever could go on to call the tool finds a call left.  A call counts  *)
(* from the moment a worker is let through to it: it can be made late, but *)
(* no longer be prevented.                                                 *)

ClaimsDistinct ==
  /\ \A w \in Workers : held[w] # NoToken => held[w][2] <= attempts[held[w][1]]
  /\ \A v, w \in Workers : v # w /\ held[v] = held[w] => held[w] = NoToken

\* The claims of step s that were let through and have not called yet.
DueOf(s) ==
  {held[w] : w \in {v \in Workers : worker[v] = "validated" /\ held[v][1] = s}}

Begun(s) == calls[s] + Cardinality(DueOf(s))

CallLeft(s) == Begun(s) <= retries[s]

AboutToCall(w, s) ==
  /\ worker[w] = "claimed" /\ held[w] = run.token
  /\ run.token # NoToken /\ run.index = s

CallsGranted ==
  \A s \in Steps : Policy[s] # "safe" =>
    /\ IsFiniteSet(DueOf(s))
    /\ Begun(s) <= 1 + retries[s]
    /\ stepStatus[s] \in {"PENDING", "AWAITING"} => CallLeft(s)
    /\ \A w \in Workers : AboutToCall(w, s) => CallLeft(s)
    /\ Policy[s] = "never" => retries[s] = 0

Granted == ClaimsDistinct /\ CallsGranted

LEMMA GrantedInit == Init => Granted
<1> SUFFICES ASSUME Init PROVE Granted
  OBVIOUS
<1>1. \A s \in Steps : DueOf(s) = {}
  BY DEF Init, DueOf
<1>2. \A s \in Steps : IsFiniteSet(DueOf(s)) /\ Cardinality(DueOf(s)) = 0
  BY <1>1, FS_EmptySet
<1>3. \A s \in Steps : calls[s] = 0 /\ retries[s] = 0
  BY DEF Init
<1>4. \A s \in Steps : Begun(s) = 0
  BY <1>2, <1>3 DEF Begun
<1>5. ClaimsDistinct
  BY DEF Init, ClaimsDistinct
<1>6. \A w \in Workers, s \in Steps : ~AboutToCall(w, s)
  BY DEF Init, AboutToCall
<1> QED BY <1>2, <1>3, <1>4, <1>5, <1>6 DEF Granted, CallsGranted, CallLeft

\* Only a new claim gives a worker a claim.
LEMMA ClaimsKept ==
  ASSUME TypeOK, Granted, UNCHANGED attempts,
         \A w \in Workers : held'[w] \in {held[w], NoToken}
  PROVE  ClaimsDistinct'
BY DEF Granted, ClaimsDistinct

\* Numbers to count with.
LEMMA CountType ==
  ASSUME TypeOK, Granted, NEW s \in Steps, Policy[s] # "safe"
  PROVE  /\ IsFiniteSet(DueOf(s)) /\ Cardinality(DueOf(s)) \in Nat
         /\ calls[s] \in Nat /\ retries[s] \in Nat /\ Begun(s) \in Nat
<1>1. IsFiniteSet(DueOf(s))
  BY DEF Granted, CallsGranted
<1>2. Cardinality(DueOf(s)) \in Nat
  BY <1>1, FS_CardinalityType
<1>3. calls[s] \in Nat /\ retries[s] \in Nat
  BY DEF TypeOK
<1> QED BY <1>1, <1>2, <1>3 DEF Begun

\* Where nobody is let through and nothing is called, no call is begun.
LEMMA BegunKept ==
  ASSUME TypeOK, Granted, NobodyLetThrough, UNCHANGED calls,
         NEW s \in Steps, Policy[s] # "safe"
  PROVE  IsFiniteSet(DueOf(s)') /\ Begun(s)' <= Begun(s) /\ Begun(s)' \in Nat
<1>1. IsFiniteSet(DueOf(s)) /\ Cardinality(DueOf(s)) \in Nat /\ calls[s] \in Nat
  BY CountType
<1>2. DueOf(s)' \in SUBSET DueOf(s)
  BY DEF NobodyLetThrough, DueOf
<1>3. /\ IsFiniteSet(DueOf(s)')
      /\ Cardinality(DueOf(s)') <= Cardinality(DueOf(s))
  BY <1>1, <1>2, FS_Subset
<1>4. Cardinality(DueOf(s)') \in Nat
  BY <1>3, FS_CardinalityType
<1> QED BY <1>1, <1>3, <1>4 DEF Begun

\* Until a claim, a call or a retry, what was granted stays granted.
LEMMA GrantsKept ==
  ASSUME TypeOK, Granted, NobodyLetThrough,
         UNCHANGED <<calls, retries, stepStatus>>,
         run'.token = run.token, run'.index = run.index,
         \A w \in Workers : worker'[w] = "claimed" =>
           worker[w] = "claimed" /\ held'[w] = held[w]
  PROVE  CallsGranted'
<1> SUFFICES ASSUME NEW s \in Steps, Policy[s] # "safe"
             PROVE  /\ IsFiniteSet(DueOf(s)') /\ Begun(s)' <= 1 + retries'[s]
                    /\ stepStatus'[s] \in {"PENDING", "AWAITING"} => CallLeft(s)'
                    /\ \A w \in Workers : AboutToCall(w, s)' => CallLeft(s)'
                    /\ Policy[s] = "never" => retries'[s] = 0
  BY DEF CallsGranted
<1>1. /\ IsFiniteSet(DueOf(s)') /\ Begun(s)' <= Begun(s)
      /\ Begun(s)' \in Nat /\ Begun(s) \in Nat /\ retries[s] \in Nat
  BY BegunKept, CountType
<1>2. CallLeft(s) => CallLeft(s)'
  BY <1>1 DEF CallLeft
<1>3. \A w \in Workers : AboutToCall(w, s)' => AboutToCall(w, s)
  BY DEF AboutToCall
<1> QED BY <1>1, <1>2, <1>3 DEF Granted, CallsGranted

\* A handler that gives up the claim leaves nobody about to call; the step it
\* makes claimable needs a call left.
LEMMA GrantsAfterClaim ==
  ASSUME TypeOK, Granted, NobodyLetThrough, UNCHANGED <<calls, retries>>,
         run'.token = NoToken,
         \A s \in Steps : Policy[s] # "safe"
             /\ stepStatus'[s] \in {"PENDING", "AWAITING"} => CallLeft(s)
  PROVE  CallsGranted'
<1> SUFFICES ASSUME NEW s \in Steps, Policy[s] # "safe"
             PROVE  /\ IsFiniteSet(DueOf(s)') /\ Begun(s)' <= 1 + retries'[s]
                    /\ stepStatus'[s] \in {"PENDING", "AWAITING"} => CallLeft(s)'
                    /\ \A w \in Workers : ~AboutToCall(w, s)'
                    /\ Policy[s] = "never" => retries'[s] = 0
  BY DEF CallsGranted
<1>1. /\ IsFiniteSet(DueOf(s)') /\ Begun(s)' <= Begun(s)
      /\ Begun(s)' \in Nat /\ Begun(s) \in Nat /\ retries[s] \in Nat
  BY BegunKept, CountType
<1>2. CallLeft(s) => CallLeft(s)'
  BY <1>1 DEF CallLeft
<1> QED BY <1>1, <1>2 DEF Granted, CallsGranted, AboutToCall

\* The same for the handlers that settle both rows.
LEMMA GrantsAfterSettle ==
  ASSUME TypeOK, Granted, NobodyLetThrough, UNCHANGED <<calls, retries>>,
         NEW r, NEW t, Settle(r, t),
         t \in {"PENDING", "AWAITING"} /\ Policy[run.index] # "safe" =>
           CallLeft(run.index)
  PROVE  CallsGranted'
<1>1. run'.token = NoToken
  BY DEF Settle, TypeOK
<1>2. \A s \in Steps : stepStatus'[s] = IF s = run.index THEN t
                                                        ELSE stepStatus[s]
  BY DEF Settle, TypeOK
<1>3. \A s \in Steps : Policy[s] # "safe"
          /\ stepStatus'[s] \in {"PENDING", "AWAITING"} => CallLeft(s)
  BY <1>2 DEF Granted, CallsGranted
<1> QED BY <1>1, <1>3, GrantsAfterClaim

\* A worker is let through while a call is left, and it was the only one who
\* could be.
LEMMA GrantedValidate ==
  ASSUME TypeOK, Rows, Granted, NEW w \in Workers, ValidateClaim(w)
  PROVE  Granted'
<1>1. /\ held[w][1] = run.index /\ run.index \in Steps
      /\ held[w] = run.token /\ run.token # NoToken
      /\ stepStatus[run.index] = "RUNNING"
  BY ClaimOfCurrentStep DEF ValidateClaim
<1>2. /\ worker[w] = "claimed"
      /\ UNCHANGED <<run, stepStatus, attempts, calls, retries, held>>
      /\ \A v \in Workers : worker'[v] = IF v = w THEN "validated"
                                                   ELSE worker[v]
  BY DEF ValidateClaim, Goto, row, history, TypeOK
<1>3. \A v \in Workers : ~AboutToCall(v, run.index)'
  BY <1>1, <1>2 DEF Granted, ClaimsDistinct, AboutToCall
<1>4. ASSUME NEW s \in Steps, Policy[s] # "safe", s = run.index
      PROVE  /\ IsFiniteSet(DueOf(s)') /\ Begun(s)' <= 1 + retries'[s]
             /\ stepStatus'[s] \notin {"PENDING", "AWAITING"}
             /\ \A v \in Workers : ~AboutToCall(v, s)'
             /\ Policy[s] = "never" => retries'[s] = 0
  <2>1. DueOf(s)' = DueOf(s) \cup {held[w]}
    BY <1>1, <1>2, <1>4 DEF DueOf
  <2>2. /\ IsFiniteSet(DueOf(s)) /\ Cardinality(DueOf(s)) \in Nat
        /\ calls[s] \in Nat /\ retries[s] \in Nat
    BY <1>4, CountType
  <2>3. /\ IsFiniteSet(DueOf(s)')
        /\ Cardinality(DueOf(s)') \in {Cardinality(DueOf(s)),
                                      Cardinality(DueOf(s)) + 1}
    <3>1. /\ IsFiniteSet(DueOf(s) \cup {held[w]})
          /\ Cardinality(DueOf(s) \cup {held[w]}) =
               IF held[w] \in DueOf(s) THEN Cardinality(DueOf(s))
                                      ELSE Cardinality(DueOf(s)) + 1
      BY <2>2, FS_AddElement
    <3> QED BY <2>1, <3>1
  <2>4. CallLeft(s)
    BY <1>1, <1>2, <1>4 DEF Granted, CallsGranted, AboutToCall
  <2>5. Begun(s)' <= 1 + retries'[s]
    BY <1>2, <2>2, <2>3, <2>4 DEF CallLeft, Begun
  <2> QED BY <1>1, <1>2, <1>3, <1>4, <2>3, <2>5 DEF Granted, CallsGranted
<1>5. ASSUME NEW s \in Steps, Policy[s] # "safe", s # run.index
      PROVE  /\ IsFiniteSet(DueOf(s)') /\ Begun(s)' <= 1 + retries'[s]
             /\ stepStatus'[s] \in {"PENDING", "AWAITING"} => CallLeft(s)'
             /\ \A v \in Workers : ~AboutToCall(v, s)'
             /\ Policy[s] = "never" => retries'[s] = 0
  <2>1. DueOf(s)' = DueOf(s)
    BY <1>1, <1>2, <1>5 DEF DueOf
  <2>2. Begun(s)' = Begun(s)
    BY <1>2, <2>1 DEF Begun
  <2> QED BY <1>2, <1>5, <2>1, <2>2 DEF Granted, CallsGranted, CallLeft,
                                        AboutToCall
<1>6. CallsGranted'
  BY <1>4, <1>5 DEF CallsGranted
<1> QED BY <1>2, <1>6, ClaimsKept DEF Granted

LEMMA GrantedExecuteRun ==
  ASSUME TypeOK, Rows, LetThrough, Granted, NEW w \in Workers,
         ExecuteRun(w) \/ WorkerCrash(w), ~ValidateClaim(w)
  PROVE  Granted'
<1>0. NobodyLetThrough
  BY ExecuteRunLetsThrough
<1>1. CASE ReceiveMessage(w) \/ ClaimRefused(w) \/ EnqueueNextStep(w)
           \/ ExecuteClaimRefused(w) \/ ToolDenied(w) \/ PublishRefused(w)
           \/ WorkerCrash(w)
  <2>1. /\ UNCHANGED <<run, stepStatus, attempts, calls, retries>>
        /\ \A v \in Workers : held'[v] \in {held[v], NoToken}
        /\ \A v \in Workers : worker'[v] = "claimed" =>
             worker[v] = "claimed" /\ held'[v] = held[v]
    BY <1>1 DEF ReceiveMessage, ClaimRefused, EnqueueNextStep,
                ExecuteClaimRefused, ToolDenied, PublishRefused, WorkerCrash,
                Finish, Goto, row, history, TypeOK
  <2> QED BY <1>0, <2>1, ClaimsKept, GrantsKept DEF Granted
<1>2. CASE ClaimNextStep(w)
  <2> DEFINE token == <<run.index, attempts[run.index] + 1>>
  <2>1. /\ run.index \in Steps /\ token # NoToken
        /\ stepStatus[run.index] = "PENDING"
        /\ run'.index = run.index /\ run'.token = token
        /\ UNCHANGED <<calls, retries>>
    BY <1>2 DEF ClaimNextStep, TypeOK, NoToken, Steps, history
  <2>2. /\ attempts'[run.index] = attempts[run.index] + 1
        /\ \A s \in Steps : s # run.index => attempts'[s] = attempts[s]
    BY <1>2, <2>1 DEF ClaimNextStep, TypeOK
  <2>3. \A v \in Workers : held'[v] = IF v = w THEN token ELSE held[v]
    BY <1>2 DEF ClaimNextStep, TypeOK
  <2>4. \A v \in Workers : held[v] # token
    <3> SUFFICES ASSUME NEW v \in Workers, held[v] = token PROVE FALSE
      OBVIOUS
    <3>1. held[v][2] <= attempts[held[v][1]]
      BY <2>1 DEF Granted, ClaimsDistinct
    <3>2. attempts[run.index] \in Nat
      BY <2>1 DEF TypeOK
    <3> QED BY <3>1, <3>2
  <2>5. \A v \in Workers : held[v] # NoToken =>
          held[v][1] \in Steps /\ held[v][2] \in Nat
    BY DEF TypeOK, Token
  <2>6. ClaimsDistinct'
    <3>1. \A v \in Workers : held'[v] # NoToken =>
            held'[v][2] <= attempts'[held'[v][1]]
      BY <2>1, <2>2, <2>3, <2>5 DEF Granted, ClaimsDistinct, TypeOK
    <3>2. \A u, v \in Workers : u # v /\ held'[u] = held'[v] =>
            held'[v] = NoToken
      BY <2>3, <2>4 DEF Granted, ClaimsDistinct
    <3> QED BY <3>1, <3>2 DEF ClaimsDistinct
  <2>7. \A s \in Steps : s # run.index => stepStatus'[s] = stepStatus[s]
    BY <1>2 DEF ClaimNextStep, TypeOK
  <2>8. stepStatus'[run.index] = "RUNNING"
    BY <1>2, <2>1 DEF ClaimNextStep, TypeOK
  <2>9. ASSUME NEW s \in Steps, Policy[s] # "safe"
        PROVE  /\ IsFiniteSet(DueOf(s)') /\ Begun(s)' <= 1 + retries'[s]
               /\ stepStatus'[s] \in {"PENDING", "AWAITING"} => CallLeft(s)'
               /\ \A v \in Workers : AboutToCall(v, s)' => CallLeft(s)'
               /\ Policy[s] = "never" => retries'[s] = 0
    <3>1. /\ IsFiniteSet(DueOf(s)') /\ Begun(s)' <= Begun(s)
          /\ Begun(s)' \in Nat /\ Begun(s) \in Nat /\ retries[s] \in Nat
      BY <1>0, <2>1, <2>9, BegunKept, CountType
    <3>2. CallLeft(s) => CallLeft(s)'
      BY <2>1, <3>1 DEF CallLeft
    <3>3. s = run.index => CallLeft(s)
      BY <2>1, <2>9 DEF Granted, CallsGranted
    <3>4. \A v \in Workers : AboutToCall(v, s)' => s = run.index
      BY <2>1 DEF AboutToCall
    <3> QED BY <2>1, <2>7, <2>8, <2>9, <3>1, <3>2, <3>3, <3>4
            DEF Granted, CallsGranted
  <2>10. CallsGranted'
    BY <2>9 DEF CallsGranted
  <2> QED BY <2>6, <2>10 DEF Granted
<1>3. CASE InvokeTool(w)
  <2>1. /\ worker[w] = "validated" /\ held[w] # NoToken
        /\ held[w][1] \in Steps
    BY <1>3 DEF InvokeTool, LetThrough, TypeOK, Token
  <2>2. /\ UNCHANGED <<run, stepStatus, attempts, retries, held>>
        /\ \A v \in Workers : worker'[v] = IF v = w THEN "invoking"
                                                     ELSE worker[v]
    BY <1>3 DEF InvokeTool, Goto, row, TypeOK
  <2>3. \A s \in Steps : calls'[s] = IF s = held[w][1] THEN calls[s] + 1
                                                       ELSE calls[s]
    BY <1>3, <2>1 DEF InvokeTool, TypeOK
  <2>4. ASSUME NEW s \in Steps, Policy[s] # "safe"
        PROVE  IsFiniteSet(DueOf(s)') /\ Begun(s)' = Begun(s)
    <3>1. /\ IsFiniteSet(DueOf(s)) /\ Cardinality(DueOf(s)) \in Nat
          /\ calls[s] \in Nat
      BY <2>4, CountType
    <3>2. CASE s = held[w][1]
      <4>1. held[w] \in DueOf(s)
        BY <2>1, <3>2 DEF DueOf
      <4>2. \A v \in Workers : v # w => held[v] # held[w]
        BY <2>1 DEF Granted, ClaimsDistinct
      <4>3. DueOf(s)' = DueOf(s) \ {held[w]}
        BY <2>1, <2>2, <3>2, <4>2 DEF DueOf
      <4>4. /\ IsFiniteSet(DueOf(s)')
            /\ Cardinality(DueOf(s)') = Cardinality(DueOf(s)) - 1
        BY <3>1, <4>1, <4>3, FS_RemoveElement
      <4>5. calls'[s] = calls[s] + 1
        BY <2>3, <3>2
      <4> QED BY <3>1, <4>4, <4>5 DEF Begun
    <3>3. CASE s # held[w][1]
      <4>1. DueOf(s)' = DueOf(s)
        BY <2>1, <2>2, <3>3 DEF DueOf
      <4> QED BY <2>3, <3>1, <3>3, <4>1 DEF Begun
    <3> QED BY <3>2, <3>3
  <2>5. \A s \in Steps : \A v \in Workers :
          AboutToCall(v, s)' => AboutToCall(v, s)
    BY <2>2 DEF AboutToCall
  <2>6. CallsGranted'
    BY <2>2, <2>4, <2>5 DEF Granted, CallsGranted, CallLeft
  <2> QED BY <2>2, <2>6, ClaimsKept DEF Granted
<1>4. CASE AwaitConfirmation(w)
  <2>1. /\ held[w] = run.token /\ run.token # NoToken
        /\ run.index \in Steps
    BY <1>4, ClaimOfCurrentStep DEF AwaitConfirmation
  <2>2. Policy[run.index] # "safe" => CallLeft(run.index)
    BY <1>4, <2>1 DEF AwaitConfirmation, Granted, CallsGranted, AboutToCall
  <2>3. /\ Settle("AWAITING", "AWAITING")
        /\ UNCHANGED <<attempts, calls, retries>>
        /\ \A v \in Workers : held'[v] \in {held[v], NoToken}
    BY <1>4 DEF AwaitConfirmation, Finish, history, TypeOK
  <2> QED BY <1>0, <2>2, <2>3, ClaimsKept, GrantsAfterSettle DEF Granted
<1>5. CASE PublishFailure(w)
  <2>1. /\ UNCHANGED <<attempts, calls, retries>>
        /\ \A v \in Workers : held'[v] \in {held[v], NoToken}
    BY <1>5 DEF PublishFailure, Finish, TypeOK
  <2>2. PICK outcome \in {"UNKNOWN", "CANCELLED", "FAILED"} :
          Settle(outcome, outcome)
    BY <1>5 DEF PublishFailure
  <2> QED BY <1>0, <2>1, <2>2, ClaimsKept, GrantsAfterSettle DEF Granted
<1>6. CASE PublishSuccess(w)
  <2>1. /\ UNCHANGED <<attempts, calls, retries>>
        /\ \A v \in Workers : held'[v] \in {held[v], NoToken}
        /\ run'.token = NoToken
    BY <1>6 DEF PublishSuccess, HasNext, MarkSucceeded, Finish, TypeOK
  <2>2. \A s \in Steps : stepStatus'[s] \in {stepStatus[s], "SUCCEEDED"}
    BY <1>6 DEF PublishSuccess, MarkSucceeded, TypeOK
  <2>3. \A s \in Steps : Policy[s] # "safe"
          /\ stepStatus'[s] \in {"PENDING", "AWAITING"} => CallLeft(s)
    BY <2>2 DEF Granted, CallsGranted
  <2> QED BY <1>0, <2>1, <2>3, ClaimsKept, GrantsAfterClaim DEF Granted
<1>7. CASE FailInvalidated(w)
  <2>1. /\ UNCHANGED <<attempts, calls, retries>>
        /\ \A v \in Workers : held'[v] \in {held[v], NoToken}
        /\ \A v \in Workers : worker'[v] = "claimed" =>
             worker[v] = "claimed" /\ held'[v] = held[v]
    BY <1>7 DEF FailInvalidated, Finish, Goto, history, TypeOK
  <2>2. CASE Settle("FAILED", "FAILED")
    BY <1>0, <2>1, <2>2, ClaimsKept, GrantsAfterSettle DEF Granted
  <2>3. CASE UNCHANGED <<run, stepStatus>>
    BY <1>0, <2>1, <2>3, ClaimsKept, GrantsKept DEF Granted
  <2> QED BY <1>7, <2>2, <2>3 DEF FailInvalidated
<1> QED BY <1>1, <1>2, <1>3, <1>4, <1>5, <1>6, <1>7 DEF ExecuteRun

LEMMA GrantedRecoverPending ==
  ASSUME TypeOK, Granted, NEW b \in Beats, RecoverPending(b) \/ BeatCrash(b)
  PROVE  Granted'
<1>1. UNCHANGED <<attempts, calls, retries, worker, held>>
  BY DEF RecoverPending, FindRecoverable, RecoverExpired, MarkManualUnknown,
         EnqueueRecovered, BeatCrash, row, history
<1>0. NobodyLetThrough
  BY <1>1 DEF NobodyLetThrough
<1>2. CASE UNCHANGED <<run, stepStatus>>
  BY <1>0, <1>1, <1>2, ClaimsKept, GrantsKept DEF Granted
<1>3. CASE Expired("safe") /\ Settle("RUNNING", "PENDING")
  <2>1. Policy[run.index] = "safe"
    BY <1>3 DEF Expired
  <2> QED BY <1>0, <1>1, <1>3, <2>1, ClaimsKept, GrantsAfterSettle DEF Granted
<1>4. CASE Settle("UNKNOWN", "UNKNOWN")
  BY <1>0, <1>1, <1>4, ClaimsKept, GrantsAfterSettle DEF Granted
<1> QED BY <1>2, <1>3, <1>4
        DEF RecoverPending, FindRecoverable, RecoverExpired,
            MarkManualUnknown, EnqueueRecovered, BeatCrash, row

LEMMA GrantedUser ==
  ASSUME TypeOK, Rows, Granted, Cancel \/ DecideConfirmation \/ Retry
  PROVE  Granted'
<1>1. UNCHANGED <<attempts, calls, worker, held>>
  BY DEF Cancel, DecideConfirmation, Decide, Retry, history
<1>0. NobodyLetThrough
  BY <1>1 DEF NobodyLetThrough
<1>2. ClaimsDistinct'
  BY <1>1, ClaimsKept
<1>3. CASE Cancel
  <2>1. /\ run'.token = NoToken /\ UNCHANGED retries
        /\ \A s \in Steps : stepStatus'[s] \in {stepStatus[s], "CANCELLED"}
    BY <1>3 DEF Cancel, history, TypeOK
  <2>2. \A s \in Steps : Policy[s] # "safe"
          /\ stepStatus'[s] \in {"PENDING", "AWAITING"} => CallLeft(s)
    BY <2>1 DEF Granted, CallsGranted
  <2> QED BY <1>0, <1>1, <1>2, <2>1, <2>2, GrantsAfterClaim DEF Granted
<1>4. CASE DecideConfirmation
  <2> PICK s \in Steps, decision \in {"approve", "reject"},
           request \in {"valid", "late", "other"} :
             Decide(s, decision, request)
    BY <1>4 DEF DecideConfirmation
  <2>1. UNCHANGED retries
    BY DEF Decide, history
  <2>2. CASE UNCHANGED stepStatus
             /\ run' = [run EXCEPT !.token = NoToken, !.lease = "none"]
    <3>1. run'.token = NoToken
      BY <2>2 DEF TypeOK
    <3> QED BY <1>0, <1>1, <1>2, <2>1, <2>2, <3>1, GrantsAfterClaim
            DEF Granted, CallsGranted
  <2>3. CASE Settle("REJECTED", "REJECTED")
    BY <1>0, <1>1, <1>2, <2>1, <2>3, GrantsAfterSettle DEF Granted
  <2>4. CASE stepStatus[run.index] = "AWAITING" /\ Settle("QUEUED", "PENDING")
    <3>1. Policy[run.index] # "safe" => CallLeft(run.index)
      BY <2>4 DEF Granted, CallsGranted, TypeOK
    <3> QED BY <1>0, <1>1, <1>2, <2>1, <2>4, <3>1, GrantsAfterSettle DEF Granted
  <2> QED BY <2>2, <2>3, <2>4 DEF Decide
<1>5. CASE Retry
  <2>1. /\ run.index \in Steps /\ run'.index = run.index
        /\ run'.token = NoToken
        /\ Policy[run.index] = "manual"
    BY <1>5 DEF Retry, Retryable, Settle, TypeOK
  <2>2. /\ \A s \in Steps : retries'[s] = IF s = run.index THEN retries[s] + 1
                                                           ELSE retries[s]
        /\ \A s \in Steps : s # run.index => stepStatus'[s] = stepStatus[s]
    BY <1>5, <2>1 DEF Retry, Settle, TypeOK
  <2>3. ASSUME NEW s \in Steps, Policy[s] # "safe"
        PROVE  /\ IsFiniteSet(DueOf(s)') /\ Begun(s)' <= 1 + retries'[s]
               /\ stepStatus'[s] \in {"PENDING", "AWAITING"} => CallLeft(s)'
               /\ \A v \in Workers : ~AboutToCall(v, s)'
               /\ Policy[s] = "never" => retries'[s] = 0
    <3>1. /\ IsFiniteSet(DueOf(s)') /\ Begun(s)' <= Begun(s)
          /\ Begun(s)' \in Nat /\ Begun(s) \in Nat /\ retries[s] \in Nat
      BY <1>0, <1>1, <2>3, BegunKept, CountType
    <3>2. Begun(s) <= 1 + retries[s]
      BY <2>3 DEF Granted, CallsGranted
    <3>3. s = run.index => CallLeft(s)'
      BY <2>2, <3>1, <3>2 DEF CallLeft
    <3>4. s # run.index /\ CallLeft(s) => CallLeft(s)'
      BY <2>2, <3>1 DEF CallLeft
    <3>5. Begun(s)' <= 1 + retries'[s]
      BY <2>2, <3>1, <3>2
    <3> QED BY <2>1, <2>2, <2>3, <3>1, <3>3, <3>4, <3>5
            DEF Granted, CallsGranted, AboutToCall
  <2>4. CallsGranted'
    BY <2>3 DEF CallsGranted
  <2> QED BY <1>2, <2>4 DEF Granted
<1> QED BY <1>3, <1>4, <1>5

LEMMA GrantedStep ==
  TypeOK /\ Rows /\ LetThrough /\ Granted /\ [Next]_vars => Granted'
<1> SUFFICES ASSUME TypeOK, Rows, LetThrough, Granted, [Next]_vars
             PROVE  Granted'
  OBVIOUS
<1>1. ASSUME UNCHANGED <<attempts, calls, retries, stepStatus, worker, held>>,
             run'.token = run.token, run'.index = run.index
      PROVE  Granted'
  <2>1. NobodyLetThrough
    BY <1>1 DEF NobodyLetThrough
  <2> QED BY <1>1, <2>1, ClaimsKept, GrantsKept DEF Granted
<1>2. CASE UNCHANGED vars
  BY <1>1, <1>2 DEF vars
<1>3. ASSUME NEW a \in Starters, Start(a) \/ StarterCrash(a)
      PROVE  Granted'
  BY <1>1, <1>3 DEF Start, FindExistingRun, CreateRun, EnqueueRun,
                    StarterCrash, row, history, TypeOK
<1>4. CASE LeaseExpires \/ ContextChanges
  BY <1>1, <1>4 DEF LeaseExpires, ContextChanges, row, history, TypeOK
<1> QED BY <1>2, <1>3, <1>4, GrantedValidate, GrantedExecuteRun,
           GrantedRecoverPending, GrantedUser DEF Next

LEMMA GrantedAlways == Spec => []Granted
<1> QED BY TypeCorrect, RowsAlways, GrantedInit, GrantedStep, PTL DEF Spec

\* No crash, recovery, duplicated message or slow worker makes a run call an
\* unsafe tool again: for any number of workers and any retry policies.
THEOREM CalledOncePerGrantAlways == Spec => []CalledOncePerGrant
<1>1. TypeOK /\ Granted => CalledOncePerGrant
  <2> SUFFICES ASSUME TypeOK, Granted, NEW s \in Steps
               PROVE  /\ Policy[s] # "safe" => calls[s] <= 1 + retries[s]
                      /\ Policy[s] = "never" => retries[s] = 0
    BY DEF CalledOncePerGrant
  <2>1. Policy[s] # "safe" => calls[s] <= Begun(s) /\ Begun(s) <= 1 + retries[s]
                              /\ Begun(s) \in Nat
    BY CountType DEF Begun, Granted, CallsGranted
  <2>2. calls[s] \in Nat /\ retries[s] \in Nat
    BY DEF TypeOK
  <2> QED BY <2>1, <2>2 DEF Granted, CallsGranted
<1> QED BY <1>1, TypeCorrect, GrantedAlways, PTL

---------------------------------------------------------------------------
(* What a step carries: its approval and its result.                       *)

Carried == CalledOnlyApproved /\ ResultOfLatestAttempt

LEMMA CarriedInit == Init => Carried
BY ProtectedAssumption
   DEF Init, Carried, CalledOnlyApproved, ResultOfLatestAttempt

\* A handler that calls no tool and claims no step keeps both, unless it
\* takes an approval back or makes a step succeed.
LEMMA CarriedKept ==
  ASSUME TypeOK, Carried, UNCHANGED <<attempts, calls, resultOf>>,
         \A s \in Steps : confirmation[s] = "APPROVED" =>
                            confirmation'[s] = "APPROVED",
         \A s \in Steps : stepStatus'[s] = "SUCCEEDED" =>
                            stepStatus[s] = "SUCCEEDED"
  PROVE  Carried'
BY ProtectedAssumption
   DEF Carried, CalledOnlyApproved, ResultOfLatestAttempt

LEMMA SettleSucceedsNothing ==
  ASSUME TypeOK, NEW r, NEW t, Settle(r, t), t # "SUCCEEDED"
  PROVE  \A s \in Steps : stepStatus'[s] = "SUCCEEDED" =>
                            stepStatus[s] = "SUCCEEDED"
BY DEF Settle, TypeOK

LEMMA CarriedExecuteRun ==
  ASSUME TypeOK, Rows, LetThrough, Carried, NEW w \in Workers,
         ExecuteRun(w) \/ WorkerCrash(w)
  PROVE  Carried'
<1>1. CASE UNCHANGED <<stepStatus, confirmation, attempts, calls, resultOf>>
  BY <1>1, CarriedKept
<1>2. CASE ClaimNextStep(w)
  <2>1. /\ run.index \in Steps
        /\ UNCHANGED <<confirmation, calls, resultOf>>
    BY <1>2 DEF ClaimNextStep, TypeOK, history
  <2>2. /\ stepStatus'[run.index] = "RUNNING"
        /\ \A s \in Steps : s # run.index =>
             /\ stepStatus'[s] = stepStatus[s] /\ attempts'[s] = attempts[s]
    BY <1>2, <2>1 DEF ClaimNextStep, TypeOK
  <2> QED BY <2>1, <2>2 DEF Carried, CalledOnlyApproved, ResultOfLatestAttempt
<1>3. CASE InvokeTool(w)
  <2>1. /\ held[w][1] \in Steps
        /\ held[w][1] \in Protected => confirmation[held[w][1]] = "APPROVED"
    BY <1>3 DEF InvokeTool, LetThrough, TypeOK, Token
  <2>2. UNCHANGED <<stepStatus, confirmation, attempts, resultOf>>
    BY <1>3 DEF InvokeTool, row
  <2>3. \A s \in Steps : s # held[w][1] => calls'[s] = calls[s]
    BY <1>3, <2>1 DEF InvokeTool, TypeOK
  <2> QED BY <2>1, <2>2, <2>3, ProtectedAssumption
          DEF Carried, CalledOnlyApproved, ResultOfLatestAttempt
<1>4. CASE AwaitConfirmation(w)
  <2>1. /\ UNCHANGED <<attempts, calls, resultOf>>
        /\ Settle("AWAITING", "AWAITING")
        /\ \A s \in Steps : confirmation[s] = "APPROVED" =>
                               confirmation'[s] = "APPROVED"
    BY <1>4 DEF AwaitConfirmation, history, TypeOK
  <2> QED BY <2>1, SettleSucceedsNothing, CarriedKept
<1>5. CASE PublishFailure(w)
  <2>1. /\ held[w][1] = run.index /\ run.index \in Steps
        /\ UNCHANGED <<attempts, calls, confirmation>>
    BY <1>5, ClaimOfCurrentStep DEF PublishFailure
  <2>2. PICK outcome \in {"UNKNOWN", "CANCELLED", "FAILED"} :
          Settle(outcome, outcome)
    BY <1>5 DEF PublishFailure
  <2>3. /\ stepStatus'[run.index] # "SUCCEEDED"
        /\ \A s \in Steps : s # run.index =>
             /\ stepStatus'[s] = stepStatus[s] /\ resultOf'[s] = resultOf[s]
    BY <1>5, <2>1, <2>2 DEF PublishFailure, Settle, TypeOK
  <2> QED BY <2>1, <2>3 DEF Carried, CalledOnlyApproved,
                            ResultOfLatestAttempt
<1>6. CASE PublishSuccess(w)
  <2>1. /\ held[w][1] = run.index /\ run.index \in Steps
        /\ held[w][2] = attempts[run.index]
        /\ UNCHANGED <<attempts, calls, confirmation>>
    BY <1>6, ClaimOfCurrentStep DEF PublishSuccess
  <2>2. /\ resultOf'[run.index] = attempts[run.index]
        /\ \A s \in Steps : s # run.index =>
             /\ stepStatus'[s] = stepStatus[s] /\ resultOf'[s] = resultOf[s]
    BY <1>6, <2>1 DEF PublishSuccess, MarkSucceeded, TypeOK
  <2> QED BY <2>1, <2>2 DEF Carried, CalledOnlyApproved,
                            ResultOfLatestAttempt
<1>7. CASE FailInvalidated(w)
  <2>1. UNCHANGED <<attempts, confirmation, calls, resultOf>>
    BY <1>7 DEF FailInvalidated, history
  <2>2. CASE Settle("FAILED", "FAILED")
    BY <2>1, <2>2, SettleSucceedsNothing, CarriedKept
  <2> QED BY <1>1, <1>7, <2>1, <2>2 DEF FailInvalidated
<1> QED
  BY <1>1, <1>2, <1>3, <1>4, <1>5, <1>6, <1>7
     DEF ExecuteRun, ReceiveMessage, ClaimRefused, ExecuteClaimRefused,
         ValidateClaim, ToolDenied, PublishRefused, EnqueueNextStep,
         WorkerCrash, row, history

LEMMA CarriedElsewhere ==
  ASSUME TypeOK, Carried,
         \/ \E b \in Beats : RecoverPending(b) \/ BeatCrash(b)
         \/ \E a \in Starters : Start(a) \/ StarterCrash(a)
         \/ Cancel \/ DecideConfirmation \/ Retry
         \/ LeaseExpires \/ ContextChanges
  PROVE  Carried'
<1>1. UNCHANGED <<attempts, calls, resultOf>>
  BY DEF RecoverPending, FindRecoverable, RecoverExpired, MarkManualUnknown,
         EnqueueRecovered, BeatCrash, Start, FindExistingRun, CreateRun,
         EnqueueRun, StarterCrash, Cancel, DecideConfirmation, Decide, Retry,
         LeaseExpires, ContextChanges, row, history
<1>2. CASE UNCHANGED <<stepStatus, confirmation>>
  BY <1>1, <1>2, CarriedKept
<1>3. CASE Cancel
  <2>1. /\ UNCHANGED confirmation
        /\ \A s \in Steps : stepStatus'[s] \in {stepStatus[s], "CANCELLED"}
    BY <1>3 DEF Cancel, TypeOK
  <2> QED BY <1>1, <2>1, CarriedKept
<1>4. CASE UNCHANGED confirmation
           /\ \/ Settle("RUNNING", "PENDING") \/ Settle("QUEUED", "PENDING")
              \/ Settle("UNKNOWN", "UNKNOWN")
  BY <1>1, <1>4, SettleSucceedsNothing, CarriedKept
<1>5. CASE DecideConfirmation
  <2> PICK s \in Steps, decision \in {"approve", "reject"},
           request \in {"valid", "late", "other"} :
             Decide(s, decision, request)
    BY <1>5 DEF DecideConfirmation
  <2>1. \A u \in Steps : confirmation[u] = "APPROVED" =>
                           confirmation'[u] = "APPROVED"
    BY DEF Decide, TypeOK
  <2>2. \/ UNCHANGED stepStatus
        \/ Settle("REJECTED", "REJECTED") \/ Settle("QUEUED", "PENDING")
    BY DEF Decide
  <2> QED BY <1>1, <2>1, <2>2, SettleSucceedsNothing, CarriedKept
<1> QED
  BY <1>2, <1>3, <1>4, <1>5
     DEF RecoverPending, FindRecoverable, RecoverExpired, MarkManualUnknown,
         EnqueueRecovered, BeatCrash, Start, FindExistingRun, CreateRun,
         EnqueueRun, StarterCrash, Retry, LeaseExpires, ContextChanges, row,
         history

LEMMA CarriedStep ==
  TypeOK /\ Rows /\ LetThrough /\ Carried /\ [Next]_vars => Carried'
<1> SUFFICES ASSUME TypeOK, Rows, LetThrough, Carried, [Next]_vars
             PROVE  Carried'
  OBVIOUS
<1>1. CASE UNCHANGED vars
  BY <1>1, CarriedKept DEF vars
<1> QED BY <1>1, CarriedExecuteRun, CarriedElsewhere DEF Next

LEMMA CarriedAlways == Spec => []Carried
<1> QED BY TypeCorrect, RowsAlways, CarriedInit, CarriedStep, PTL DEF Spec

\* A protected tool is called only after a person approved its confirmation.
THEOREM CalledOnlyApprovedAlways == Spec => []CalledOnlyApproved
<1>1. Carried => CalledOnlyApproved
  BY DEF Carried
<1> QED BY <1>1, CarriedAlways, PTL

\* A worker that lost its claim never publishes over its successor.
THEOREM ResultOfLatestAttemptAlways == Spec => []ResultOfLatestAttempt
<1>1. Carried => ResultOfLatestAttempt
  BY DEF Carried
<1> QED BY <1>1, CarriedAlways, PTL

---------------------------------------------------------------------------
(* What is over stays over.                                                *)

\* Every handler changes a run that is neither QUEUED, RUNNING nor waiting
\* only by a manual retry of a FAILED one.
LEMMA RestingStep ==
  ASSUME TypeOK, Rows, Next, run.status \in Terminal
  PROVE  \/ UNCHANGED <<run, stepStatus, attempts, resultOf>>
         \/ run.status = "FAILED" /\ Retry
<1>1. /\ run.token = NoToken /\ run.lease = "none"
      /\ stepStatus[run.index] = run.status
  BY DEF Rows, RowsAgree, Terminal
<1>2. \A w \in Workers : ~ClaimValid(w)
  BY DEF ClaimValid, Terminal
<1>3. ASSUME NEW w \in Workers, ExecuteRun(w) \/ WorkerCrash(w)
      PROVE  UNCHANGED <<run, stepStatus, attempts, resultOf>>
  BY <1>1, <1>2, <1>3
     DEF ExecuteRun, ReceiveMessage, ClaimNextStep, Claimable, ClaimRefused,
         ExecuteClaimRefused, AwaitConfirmation, ValidateClaim, InvokeTool,
         ToolDenied, PublishRefused, PublishFailure, PublishSuccess,
         EnqueueNextStep, FailInvalidated, Invalidates, WorkerCrash, Terminal,
         row, history
<1>4. ASSUME NEW b \in Beats, RecoverPending(b) \/ BeatCrash(b)
      PROVE  UNCHANGED <<run, stepStatus, attempts, resultOf>>
  BY <1>1, <1>4
     DEF RecoverPending, FindRecoverable, RecoverExpired, MarkManualUnknown,
         EnqueueRecovered, BeatCrash, Expired, row, history
<1>5. ASSUME NEW a \in Starters, Start(a) \/ StarterCrash(a)
      PROVE  UNCHANGED <<run, stepStatus, attempts, resultOf>>
  <2>1. run.status # "ABSENT"
    BY DEF Terminal
  <2>2. CASE CreateRun(a)
    <3>1. [run EXCEPT !.status = run.status] = run
      BY DEF TypeOK
    <3> QED BY <2>1, <2>2, <3>1 DEF CreateRun, history
  <2> QED BY <1>5, <2>2 DEF Start, FindExistingRun, EnqueueRun, StarterCrash,
                            row, history
<1>6. CASE DecideConfirmation
  <2>1. [run EXCEPT !.token = NoToken, !.lease = "none"] = run
    BY <1>1 DEF TypeOK
  <2>2. stepStatus[run.index] # "AWAITING"
    BY <1>1 DEF Terminal
  <2> QED BY <1>6, <2>1, <2>2 DEF DecideConfirmation, Decide, history
<1>7. ~Cancel /\ ~LeaseExpires /\ (Retry => run.status = "FAILED")
  BY <1>1 DEF Cancel, Cancellable, LeaseExpires, Retry, Retryable
<1>8. CASE ContextChanges
  BY <1>8 DEF ContextChanges, row, history
<1> QED BY <1>3, <1>4, <1>5, <1>6, <1>7, <1>8 DEF Next

\* Whoever calls was let through before.
LEMMA CallersWereLetThrough ==
  ASSUME TypeOK, Next, NEW s \in Steps, calls'[s] # calls[s]
  PROVE  \E w \in Workers : worker[w] = "validated" /\ held[w][1] = s
<1>1. CASE \E w \in Workers : InvokeTool(w)
  BY <1>1 DEF InvokeTool, TypeOK
<1>2. CASE ~\E w \in Workers : InvokeTool(w)
  BY <1>2 DEF Next, ExecuteRun, ReceiveMessage, ClaimNextStep, ClaimRefused,
              ExecuteClaimRefused, AwaitConfirmation, ValidateClaim,
              ToolDenied, PublishRefused, PublishFailure, PublishSuccess,
              EnqueueNextStep, FailInvalidated, WorkerCrash, RecoverPending,
              FindRecoverable, RecoverExpired, MarkManualUnknown,
              EnqueueRecovered, BeatCrash, Start, FindExistingRun, CreateRun,
              EnqueueRun, StarterCrash, Cancel, DecideConfirmation, Decide,
              Retry, LeaseExpires, ContextChanges, history
<1> QED BY <1>1, <1>2

\* Nobody is let through to a tool of a run that is not RUNNING.
LEMMA NobodyLetThroughAtRest ==
  ASSUME TypeOK, Next, run.status \in Terminal
  PROVE  NobodyLetThrough
<1>1. \A w \in Workers : ~ValidateClaim(w)
  BY DEF ValidateClaim, ClaimValid, Terminal
<1>2. CASE \E w \in Workers : ExecuteRun(w) \/ WorkerCrash(w)
  BY <1>1, <1>2, ExecuteRunLetsThrough
<1>3. CASE ~\E w \in Workers : ExecuteRun(w) \/ WorkerCrash(w)
  BY <1>3, MovesOnElsewhere DEF Next, NobodyLetThrough
<1> QED BY <1>2, <1>3

\* Nothing late changes a run that is succeeded, rejected, cancelled or
\* unknown, and nobody is let through to a tool for it any more.
THEOREM FinalStaysFinal == Spec => FinalIsFinal
<1> DEFINE Kept ==
      /\ UNCHANGED <<run, stepStatus, attempts, resultOf>>
      /\ \A w \in Workers : worker'[w] = "validated" => worker[w] = "validated"
      /\ \A s \in Steps : calls'[s] # calls[s] =>
           \E w \in Workers : worker[w] = "validated" /\ held[w][1] = s
<1>1. TypeOK /\ Rows /\ [Next]_vars => [run.status \in Final => Kept]_vars
  <2> SUFFICES ASSUME TypeOK, Rows, Next, run.status \in Final
               PROVE  Kept
    OBVIOUS
  <2>1. run.status \in Terminal /\ run.status # "FAILED"
    BY DEF Final
  <2>2. UNCHANGED <<run, stepStatus, attempts, resultOf>>
    BY <2>1, RestingStep
  <2>3. NobodyLetThrough
    BY <2>1, NobodyLetThroughAtRest
  <2> QED BY <2>2, <2>3, CallersWereLetThrough DEF NobodyLetThrough
<1> QED BY <1>1, TypeCorrect, RowsAlways, PTL DEF Spec, FinalIsFinal

\* A failed run moves only by a manual retry of a step whose tool allows it.
THEOREM FailedStaysUntilRetried == Spec => FailedOnlyRetried
<1>1. TypeOK /\ Rows /\ [Next]_vars =>
        [run.status = "FAILED" /\ run' # run =>
           /\ run'.status = "QUEUED"
           /\ Policy[run.index] = "manual"
           /\ retries'[run.index] = retries[run.index] + 1]_vars
  <2> SUFFICES ASSUME TypeOK, Rows, Next, run.status = "FAILED", run' # run
               PROVE  /\ run'.status = "QUEUED"
                      /\ Policy[run.index] = "manual"
                      /\ retries'[run.index] = retries[run.index] + 1
    OBVIOUS
  <2>1. Retry
    BY RestingStep DEF Terminal
  <2> QED BY <2>1 DEF Retry, Retryable, Settle, TypeOK
<1> QED BY <1>1, TypeCorrect, RowsAlways, PTL DEF Spec, FailedOnlyRetried
=============================================================================

------------------------- MODULE AgentRunContract -------------------------
(***************************************************************************)
(* What a run of the operations agent promises to the person who approved  *)
(* its plan, without workers, claims, leases, messages or beats: steps are *)
(* attempted one at a time in the order of the plan, a call is permitted   *)
(* only while its attempt is open, an unsafe tool is permitted once and    *)
(* once more each time the person asks, and what is final stays.  A call   *)
(* follows its permission, at any time: the run may have ended before it.  *)
(***************************************************************************)
EXTENDS Integers, FiniteSets

CONSTANTS NSteps, Policy, Protected

Steps == 0 .. NSteps - 1

VARIABLES
  status,   \* the run as its user sees it
  step,     \* the step that is next, or the last one
  attempt,  \* is an attempt at that step open?
  approved, \* the steps whose protected action a person approved
  due,      \* attempts that were permitted a call and have not made it
  calls,    \* tool calls made for each step
  retries   \* manual retries the person asked for

cvars == <<status, step, attempt, approved, due, calls, retries>>

Init ==
  /\ status = "ABSENT" /\ step = 0 /\ attempt = FALSE /\ approved = {}
  /\ due = {}
  /\ calls = [s \in Steps |-> 0]
  /\ retries = [s \in Steps |-> 0]

Create ==
  /\ status = "ABSENT" /\ status' = "QUEUED"
  /\ UNCHANGED <<step, attempt, approved, due, calls, retries>>

Attempt ==
  /\ status \in {"QUEUED", "RUNNING"} /\ ~attempt
  /\ status' = "RUNNING" /\ attempt' = TRUE
  /\ UNCHANGED <<step, approved, due, calls, retries>>

\* One call for the approval of the plan and one for every manual retry,
\* unless the tool is safe to repeat.
Permit ==
  /\ attempt
  /\ step \in Protected => step \in approved
  /\ Policy[step] # "safe" =>
       calls[step] + Cardinality({a \in due : a[1] = step}) <= retries[step]
  /\ \E a \in due' \ due : a[1] = step /\ due' = due \cup {a}
  /\ UNCHANGED <<status, step, attempt, approved, calls, retries>>

\* A permitted call is made, whatever became of the run since.
Call ==
  /\ \E a \in due : /\ due' = due \ {a}
                   /\ calls' = [calls EXCEPT ![a[1]] = @ + 1]
  /\ UNCHANGED <<status, step, attempt, approved, retries>>

\* It is denied, or who should have made it died.
Forget ==
  /\ \E a \in due : due' = due \ {a}
  /\ UNCHANGED <<status, step, attempt, approved, calls, retries>>

Succeed ==
  /\ attempt /\ attempt' = FALSE
  /\ calls[step] > 0
  /\ \/ step + 1 \in Steps /\ step' = step + 1 /\ UNCHANGED status
     \/ step + 1 \notin Steps /\ status' = "SUCCEEDED" /\ UNCHANGED step
  /\ UNCHANGED <<approved, due, calls, retries>>

\* An attempt that led nowhere is forgotten only when it may be repeated.
Abandon ==
  /\ attempt /\ attempt' = FALSE
  /\ Policy[step] = "safe"
  /\ UNCHANGED <<status, step, approved, due, calls, retries>>

Ask ==
  /\ attempt /\ attempt' = FALSE
  /\ step \in Protected \ approved
  /\ status' = "AWAITING"
  /\ UNCHANGED <<step, approved, due, calls, retries>>

Answer ==
  /\ status = "AWAITING"
  /\ \/ status' = "QUEUED" /\ approved' = approved \cup {step}
     \/ status' = "REJECTED" /\ UNCHANGED approved
  /\ UNCHANGED <<step, attempt, due, calls, retries>>

Stop ==
  /\ status \in {"QUEUED", "RUNNING"} /\ attempt' = FALSE
  /\ \/ status' = "FAILED"
     \/ attempt /\ status' = "UNKNOWN"
  /\ UNCHANGED <<step, approved, due, calls, retries>>

Cancel ==
  /\ status \in {"QUEUED", "RUNNING", "AWAITING"} /\ attempt' = FALSE
  /\ status' = "CANCELLED"
  /\ UNCHANGED <<step, approved, due, calls, retries>>

Retry ==
  /\ status = "FAILED" /\ status' = "QUEUED"
  /\ Policy[step] = "manual"
  /\ retries' = [retries EXCEPT ![step] = @ + 1]
  /\ UNCHANGED <<step, attempt, approved, due, calls>>

Next ==
  \/ Create \/ Attempt \/ Permit \/ Call \/ Forget \/ Succeed \/ Abandon
  \/ Ask \/ Answer \/ Stop \/ Cancel \/ Retry

Spec == Init /\ [][Next]_cvars
=============================================================================

# Verification of the operations platform

TLA+ specifications of the parts of this repository in which several processes
work on the same state: the FastAPI routes, the Celery workers, the tasks that
Celery beat fires and the broker between them; and, in the user's browser, the
extension's popup, service worker and content scripts. The specifications are
translated from the code under `apps/api/app` and `apps/extension/src` (paths
below are relative to the repository, those of modules to `apps/api/app`),
checked on small instances with TLC, and the properties that matter most are
proved for every instance with TLAPS.

Why these parts: everything this program does for its users that takes longer
than a request (running an agent's plan, analysing a content, drawing a cover,
exporting, deleting a workspace) has the same shape. One transaction claims a
row, the process works outside of any transaction, often in a call that costs
money, and a second transaction records the outcome. In between, the process
may die, be slow, or be overtaken; messages are acknowledged on delivery
(Celery's default, nothing sets `acks_late`), so a message dies with its
worker; a periodic task looks for what got stuck. Each family does the second
half differently, and the differences are where it can go wrong. The extension
has the same problem on a smaller scale: its handlers read a store, a map or
the page, await an answer, and go on with what they had read.

## 1. Inventory

`PROJECT.json` lists every component with its sources. Those with state that
several processes share:

| Component | State | Operations | What is hard | What makes it correct |
|---|---|---|---|---|
| Operations agent: run execution (`modules/operations_agent/executor.py`, `tasks.py`) | `AgentRun` (status, step index, claim token, lease), `AgentRunStep`, `AgentConfirmation` | create, enqueue, claim, call the tool, publish, ask for a confirmation, decide, retry, cancel, recover | the tool is called between two transactions; the lease has no heartbeat; one message per step, lost with its worker; two start requests, recovery and retry race | a step's tool is called once per grant; a protected one only after approval; an overtaken worker publishes nothing; a finished run stays; every claim ends |
| Operations agent: plans, chat, tools | plan, versions, chat turns | make and approve a plan, invoke a tool | a plan is bound to a context that may drift | a run starts only in the context that was approved |
| Content analysis (`modules/analysis/service.py`, `tasks.py`) | `AnalysisRun` (status, attempts, back-off, recovery lease) | request, begin an attempt, call the model, persist, back off, recover | no claim token: a late result is told apart only by the row's status; copies of rows older than the lock | one analysis at a time, bounded calls, the first outcome stays, every request is answered |
| Cover generation (`modules/generation/cover_service.py`) | `CoverRun`, objects in the store | request, claim, call, write objects, register them, compensate, cancel, retry | rows are read without a lock and written under a version; objects and rows cannot change together; a compensation may itself fail | one call per request and retry; a published cover stays; every other object is known to the cleaner; no run is left working |
| Usage governor (`modules/models/usage.py`) | reservations, daily totals, leases in Redis | reserve, begin, finish, settle | two stores; a crash keeps a reservation | limits hold; every reservation is settled or expires |
| Exports and retention (`modules/exports/service.py`, `retention_tasks.py`) | `ExportJob`, `ManagedObject` | claim, heartbeat, write, reference, clean | the cleaner deletes what a slow worker has not referenced yet | a finished export has its object |
| Workspace deletion (`modules/exports/deletion.py`) | deletion job and its phases, inventory | confirm, take the inventory, delete per phase, resume | writers that add objects after the inventory | after the last phase nothing is left |
| Restore (`modules/exports/zip_restore.py`) | restore job, inserted rows, objects | claim, insert, compensate | the state to go back to is in memory | a restore is complete or leaves no trace |
| Risk index (`modules/risk_rag/indexing.py`) | index build, active index | claim, stage, publish | publication races a newer build | the active index is complete and the newest |
| Extension connection (`apps/extension/src/auth`, `popup/main.ts`; `modules/imports/extension_pairing.py`, `extension_devices.py`) | codes, devices and tokens on the server; in the browser a token in session storage, a registration in local storage, a key in IndexedDB | pair, renew, use, unbind, revoke | popup and service worker write three stores one after the other and without a lock; requests are lost after they took effect | a code connects one device; unlinked stays unlinked; an active device is not lost |
| Page capture (`apps/extension/src/background.ts`, `content.ts`, `content/`, `capture/`) | the service worker's maps of sessions and arms, the content script's overlay and driver, the tab | start, arm, take a picture, scroll, cancel, preview, upload, end | gestures overlap at every await; the tab is scrolled, left, navigated and reloaded meanwhile; the service worker may be stopped | the permission to take pictures ends with its capture; a complete capture shows the whole page; another tab is not uploaded |

How they interact: the agent's tool `run_content_analysis` inserts an
`AnalysisRun` row and so shares the unique index and the recovery of the
analysis component; confirming a metrics snapshot may request an analysis;
every model call goes through the usage governor; exports and covers put
objects into the store that retention and workspace deletion clean; the
operations API (`core/observability.py`) retries and cancels tasks of every
family. The extension's uploads carry the token of its connection and become
import rows. The other components are single-transaction CRUD, computations,
clients or generated code, and are listed as not modelled.

The hazards of the code, at the lines where they bite, are in `PROJECT.json`;
each names the properties that would catch it, or says why none does.

## 2. The modules

| Module | What it is |
|---|---|
| `AgentRun` | one run of an approved plan: the API, the broker, the workers, the beat, the user |
| `AgentRunContract` | what a run promises to who approved the plan: without workers, claims or messages |
| `MCAgentRun` | instances of `AgentRun` |
| `AgentRunProofs` | types, agreement of the rows, plan order, open questions |
| `AgentRunCallProofs` | tool calls, approvals, results, final states |
| `AgentRunContractProofs` | `AgentRun` implements `AgentRunContract` |
| `AnalysisRun` | the analyses of one cache key: requests, broker, workers, beat, the agent's tool |
| `MCAnalysisRun` | instances of `AnalysisRun` |
| `AnalysisRunProofs` | types; who may change an outcome; one process at work, bounded calls, the report is reused |
| `CoverGeneration` | one cover: its run, attempts and objects, the workers, the user, the cleaner |
| `MCCoverGeneration` | an instance of `CoverGeneration` |
| `CoverGenerationProofs` | types, calls, published covers, objects, cancelling, final success, no work left open |
| `ExtensionSession` | the extension's connection: popup, session manager, pages, three stores, the server |
| `MCExtensionSession` | an instance of `ExtensionSession` |
| `ExtensionSessionProofs` | types, revocation, codes, unlinking |
| `ExtensionConnectionProofs` | an active device keeps its connection; an unbinding is honest |
| `PageCapture` | captures of a tab: service worker, content script, page, user |
| `MCPageCapture` | an instance of `PageCapture` |
| `PageCaptureProofs` | types, the end of the permission, no picture after the end; only the own tab is uploaded, the newest gesture succeeds, what is complete is whole |

### AgentRun

Every handler of `executor.py` is one transaction under the run's row lock
(`SELECT ... FOR UPDATE`, the first read of the row in its session), so it is
one action. What happens between two transactions is a value of a process's
pc:

- `starter` (POST `/plans/{id}/runs`): look for a run, create one under the
  plan's lock, enqueue. Two of them may both find nothing.
- `worker` (`execute_run`): `received`, after `claim_next_step` is `claimed`,
  after the first transaction of `execute_claim` is `validated`, when it calls
  the tool `invoking` (or `denied`, when the tool runner refuses the call),
  after `publish_result` is `enqueueing` the next step's message. That first
  transaction commits and gives up its locks before the call, and the tool
  runner asks for the member, the role, the account and the content, never for
  the run or its claim: so a cancel, a recovery or the end of a lease may come
  between `ValidateClaim` and `InvokeTool`, and the tool is called all the
  same. `claimInvalid` and `execInvalid` are the two ways into
  `fail_invalidated`, which runs in a transaction of its own, without and with
  the claim.
- `beat` (`recover_pending`): read without a lock, recover under the lock,
  mark manual steps unknown, send the message.

`run`, `stepStatus`, `attempts` and `confirmation` are the rows. Abstractions:

- A claim token is a fresh UUID; the model names it by step and attempt.
- `operation_version` is left out: every write of the row while a claim is
  open also ends the claim, so the comparison of versions fails only where
  that of the tokens does.
- `lease` is `none`, `live` or `expired`: only the comparison with now counts.
- `current` stands for all the checks of the context (membership, role,
  account configuration, tool version, plan inputs). It may change at any
  time, and change back: a role can be given again.
- Tool arguments, results, fingerprints and idempotency keys are data. A
  decision is `valid`, `late` (ten minutes have passed) or `other` (bound to
  another fingerprint, member or role).
- Events and audit rows are left out.

`Settle` is the common shape of the outcomes: both rows leave their status and
the claim is cleared. `calls`, `resultOf` and `retries` are history variables;
no guard reads them.

### AgentRunContract

The run as the person who approved the plan sees it: its status, the current
step, whether an attempt is under way, what was approved, called and retried. Its actions are
the promises (an attempt begins and ends, a step follows a step, a question is
asked before it is answered, a failure is retried, and so on). `Permit` lets
a call through, within what was granted and while the attempt is open; `Call`
makes it at any time after that, also when the run has ended; `Forget` is a
call that is denied or whose worker died (`due` holds those let through).
`AgentRun!ContractKept` is the refinement: the whole machinery of messages,
leases, recovery and crashes is a stutter or one of those steps. It is a
statement of intent, not a translation of a piece of code, so `map` has no
entries for it.

### AnalysisRun

All rows of one content and cache key: the partial unique index lets one be
PENDING, RUNNING or SUCCEEDED at a time (`ActiveRows`, `IndexAllows`). A row
has its status, `next_attempt_at` and the recovery lease relative to now,
whether `updated_at` is younger than five minutes (`fresh`), and its attempts.

- `Request` with `EnqueueRequested`: POST `/analysis-runs` and confirmed
  snapshots; the message is a background task after the response.
- `analyze_content`: `BeginAttempt`, `CallModel`, then one of
  `PersistSuccess`, `PersistFailure`, `RecordProviderFailure`.
- `RecoverPending`: `LeaseRecoverable` commits the leases of all recoverable
  rows, then `EnqueueRecovered` sends one message per row.
- `AgentAnalyse`, `AgentPublish`: the agent's tool.

Two places of this code decide on a copy that is older than the lock.
Sessions are made with `expire_on_commit=False` (`core/database.py:94`) and no
query uses `populate_existing`, so a `SELECT ... FOR UPDATE` of a row that the
session already has returns the instance as it was loaded:

- `analyze_content` reads the row with `session.get` (`tasks.py:119`) before
  `begin_analysis_attempt` locks it. `BeginAttempt` is the delivery in which
  nothing happens in between; `LoadRun` and `BeginLoaded` are the one in which
  something does, with the copy in `seen`. `Begun` writes what the unit of
  work would: only columns whose new value differs from the copy.
- The agent's tool holds its row from the transaction that began it to the one
  that records the outcome, so the check "already SUCCEEDED or FAILED" looks
  at RUNNING whatever the row has become (`AgentPublish`).

The persist functions of the ordinary worker are called in a new session and
see the row as it is (`Write`).

### CoverGeneration

The request under one idempotency key finds or makes one run; messages deliver
it to workers (`generate_cover_task`), and `CoverCoordinator.run` does the
rest. Here nothing is locked: a transaction reads the row, and the mapper's
`version_id_col` makes its commit fail when somebody else has changed the row.
One action is one transaction with the call (provider, storage, composition)
that comes before it:

- `Deliver`, `Claim`, `PreflightFailure`: the message arrives; the row is
  claimed for a new attempt, or found to be somebody's, or refused.
- `Disclose`, `ProviderAnswers`, `RecordProviderFailure`: the billed call.
- `PutLayer`, `RegisterLayer`, `Compose`, `PutFinal`, `Publish`: the two
  objects and the transaction that makes them the result.
- `RegisterKeys`, `CompensatePut`, `ObjectFailure`, `CompensateRun`,
  `ExecutionFailure`: what `run` does about a failure, each in a transaction of
  its own that may fail in turn (`Raises` says where the exception goes).
- `Cancel`, `CancelCommits`, `Retry`, `RequestAgain`, `Clean`: the user and
  the cleaner.

The cancel is the one transaction of two steps. Its query of the objects
flushes the run's update, so from `Cancel` on the row is locked, and every
other write of it (`Changes`, `Retry`) waits for `CancelCommits` and then finds
another version. But the registration of an object does not touch the run: one
that falls between the two steps (`overlap`) is not among the objects the
cancel has found. A second cancel waits for the row too, and a cancel that
fails changes nothing.

A run may be `refused`: its reference pictures were accepted for upload and
`sanitize_reference_image` does not take them (`qianwen_image.py:122-187`: an
edge over 3072, an animation). `Disclose` then stops with nothing recorded.

`stale` is the optimistic version: it holds the workers during whose step
somebody changed the row, and a step of such a worker may find the new row or
fail at its commit. The statuses a run passes through while a worker is at it
are one, `working`: no guard tells them apart. A claim's token is the number of
its attempt. `drifted` stands for a member, a content or a model configuration
that is not what it was. An object is `stored` or not, and `managed` is its
row for the cleaner. `calls` is history. A message that is lost is one whose
worker crashes when it has received it. A conflict at the commit of the
delivery itself is not modelled: it ends the same way.

What the model shows of the code beside its properties, where no document says
otherwise:

- `CoverCoordinator.cancel` and `.retry` have no route; only tests call them.
  No beat looks for covers, so a run whose worker dies works for ever: `retry`
  refuses it, and only `cancel` frees it. `retry` sends no message. And
  `cleanup_retained_objects_task` is called by nothing.
- A delivery that finds its member, content or model changed fails any run,
  even one that succeeded (`tasks.py:194-226`); the same request sent again
  after the model was configured anew is such a delivery.
- A failed write or compensation of an overtaken worker
  (`cover_service.py:775`, `:901`) turns a retried or succeeded run into a
  failed one and clears the claim of whoever has it now; so does the preflight
  failure of a refused duplicate. That is why `SuccessIsFinal` excludes
  `drift`, `put` and `half-put`.
- A provider error that arrives after the lease has ended is not recorded, and
  leaves the run working.
- Pictures that are refused raise a `ModelProviderError` before the provider is
  called, and `run` raises it again (`cover_service.py:520`) without recording
  anything: the run works for ever, as if its worker had died.
- A worker that registers an object in a cancel (`overlap`) and whose
  compensation then loses against the run's version (`conflict`) leaves that
  object ACTIVE on a cancelled run, until the day's clean-up.
- A write whose answer was lost leaves an object nobody registers, and a
  refused registration is swallowed (`ObjectsKnown` excludes `half-put` and
  `unregistered`). `cancel` schedules only the latest attempt's objects.

### ExtensionSession

The popup (`popup/main.ts`), the session manager in the service worker
(`auth/session-renewal.ts`, made in `background.ts`) and the pages whose
messages need a token share `session`, `registration` and `key`, the three
stores of the profile. Each is written by its own await, so the pairing of the
popup is `Submit`, `PairAnswered`, `SaveRegistration`, `SaveBinding`, and
anything can come in between. All callers share one renewal: `StartRenewal`,
`Challenge`, `Sign`, `Renew`, `SaveRenewed`, `FinishRenewal`, or one of the
ways it fails, `EndConnection` (the device is gone: all stores are cleared) and
`EndSession` (only the token is). `unlink` runs in the service worker and
fences the renewal under way with a generation; the popup's pairing has no
fence.

On the server, `code`, `device` and `token` are the rows of
`extension_pairing.py` and `extension_devices.py`. Nobody locks a device. A
pairing locks the member and the code, reads the device (`PairServed`, in
`redeeming`) and issues its token in a later step (`PairAnswered` with
`Redeem`); a renewal reads the device and consumes its challenge (`ReadDevice`,
in `proven`) and issues later (`Renew`). A revocation may commit in between,
and the client may have given up by then: the transaction goes on without it.
Because of the member's lock there is one pairing transaction at a time;
that there is one renewal transaction at a time is a bound of the model. A
request may be done and its answer lost (`network`), or its body broken
off (`body`), which the client takes for a final refusal. A token's own
`revoked_at` is left out: it is set only together with the device's, at which
`authenticate` looks as well. `overlap` is met when
a decision to clear the stores and a pairing overlap, `slow` when a token
expires that a request or a renewal has in hand, `restart` when the browser
stops the service worker or is itself restarted.
One server and one workspace; keys, challenges and signatures are data.
`connected` and `unlinked` are history.

What the model shows of the code beside its properties: a token may be issued
to a device after its revocation has committed, by a transaction that had read
the device before; it authenticates nothing (`RevokedForGood` says both). And
an unbinding asks the server nothing when session storage is empty, as after a
failed renewal, an expired token or a restart of the browser: the device then
stays active on the server and the popup warns of nothing, although
`docs/open-source/extension-privacy.md:27` says that unbinding online revokes
it. `UnbindIsHonest` names this case.

### PageCapture

JavaScript runs to the next await, so an action is the code between two of
them. `Start`, `StatusKnown`, `Armed`, `Started` are `startCapture` of the
coordinator; `CheckSlice`, `TakeSlice`, `CheckVisible`, `TakeVisible` the
service worker's two steps of a picture (before and after
`captureVisibleTab`); `Mount` to `GiveUp` the content script's overlay and
scroll driver; `Upload`, `UploadEnds` what follows the preview; `End` the
message that gives the permission back. The world leaves the tab, navigates,
reloads, scrolls, lets the page grow and shrink, lets time pass and stops the
service worker.

One tab. A page is its URL and signature, lengths are rows. A region is a
visible capture whose rectangle the user draws. The rate limit and the check of
a request in flight are unreachable with one driver per session.
`coordinator.cancel` is never called. The answer of the binding's status is
merged with its receipt. An upload counts when it is sent (its retries share an
idempotency key). The blur of a tab that is left is delivered before the user
does anything else. `closed` and `posted` are history.

What the model shows of the code beside its properties:

- A page that is scrolled when it is armed is refused its first picture: the
  driver goes to the top first (`scroll-driver.ts:93`), and the picture must be
  taken where the page stood (`background.ts:525`). So `NewestSucceeds` asks
  for a page at its top.
- A gap that the user's scrolling makes is still called complete
  (`stitcher.ts:174`), hence `Unmet({"scroll"})` in `CompleteIsWhole`.
- `captureVisibleTab` may show the tab the user has changed to
  (`background.ts:536`); such a picture is discarded with its overlay before
  it can be uploaded (`UploadsOwnTab`).
- The permission of a visible capture has no session and outlives it
  (`background.ts:641`); `NoArmLeft` is about full-page captures.
- When a page changes under the driver, the pictures taken so far are kept as a
  partial preview. Cancelling during the upload does not stop the server's
  task.
- The binding that an older start was waiting for may arrive late and cancel
  the overlay of a newer one (`content.ts:323`; the hazard `overtake`).

## 3. The runs

`Limits` bounds what the environment does. In `AgentRun` and `AnalysisRun` it
is the only bound: counters (messages, attempts, calls) are bounded through it.
In the other three modules it says how often each kind of hazard is met, and
`Kinds` how many kinds meet in one behaviour; besides, `MaxRetries` and
`MaxMessages` bound the user's requests for a cover, and `MaxHeight` and
`MaxSlices` the page (the code stops at 30 pictures).

| Run | Instance | Shows |
|---|---|---|
| `AgentRun` | 2 start requests, 2 workers, 1 beat, a safe step and a protected manual one; one worker crash, one other crash, two leases lost under a live worker, two context changes, one retry; 572,788 states | all safety, and the refinement |
| `AgentRunLive` | the same processes, no protected step, one crash of each kind, one lease lost, one context change; 214,828 states | every claim ends; a run comes to rest when nobody dies |
| `AgentRunCrash` | one worker crash | violated: the run does not survive it |
| `AgentRunRetry` | one retry | violated: a run queued again is not picked up |
| `AgentRunFence` | two context changes | violated: a good claim is taken away |
| `AnalysisRun` | 2 rows, a request, the agent's tool, 2 workers, 1 beat; one crash, one slow call, one overtaken delivery; 1,017,630 states | all safety |
| `AnalysisRunLive` | the same processes, one crash, one backlog; 35,239 states | every analysis gets its outcome |
| `AnalysisRunAgent` | 1 row, one crash | violated: the agent's call is repeated |
| `AnalysisRunLate` | 1 row, one slow call | violated: an outcome is overwritten |
| `CoverGeneration` | 2 workers, 1 retry, 1 message under way, each hazard once, two kinds together; 1,216,740 states | all safety, and under fairness that a delivered run ends |
| `ExtensionSession` | 2 codes, 2 devices, 3 tokens, a page and the popup, one hazard once; 1,823,831 states | all safety |
| `PageCapture` | 2 gestures, a viewport of 1 row, pages of up to 3, up to 4 pictures, one kind of hazard, time and layout twice; 773,486 states | all safety, and under fairness that nothing hangs |

Why the bounds are enough to be interesting. Two workers are what an overtaken
attempt needs: one that is late and one that replaced it. Two steps give an
index that moves and a policy that differs before and after the move, and the
protected step comes second so that it is reached through recovery and
duplicated messages. Two start requests give the duplicated message; the beat
adds a third. Two lost leases let recovery happen again on what was recovered;
two context changes let a context become invalid and valid again. One beat
process stands for all its firings; a second one at the same time would need a
recovery that takes longer than thirty seconds. For the analyses, the second
row is what the unique index is about: it can be inserted only after the first
one failed. The third failure is reached within the bounds since attempts are
counted by the row and not by `Limits`. The combination of all four hazards of
`AnalysisRun` was also run once (4.0 million states, no error) and is left out
of the configurations for its time.

For a cover, two workers and a retry are what an overtaken attempt needs, and
two kinds of hazards are the failure of a step together with what makes it
matter: a crash after a conflict, a cancel during a failed write, a lease that
ends while a write fails. A conflict is what a hazard causes and is not counted
as a kind, nor is an overlap, which takes a cancel; so a cancel meets both at
once. For the connection, two devices are an old and a new one, two codes
a used one and its successor, and three tokens one more than the devices, so
that a renewal replaces one. One hazard suffices for each exclusion that the
properties state. For a capture, two gestures overlap in every order; three
rows of page in a viewport of one give a first, a middle and a last picture,
and a fourth picture is needed when the page has grown. Time passes twice, for
the permission and for the driver; the layout changes twice, so that a page
can grow and shrink again.

Symmetry (interchangeable requests, workers, rows) is used in the safety runs
only. Deadlock is checked in the runs of `AgentRun`, where the beat never
stops. The runs of `AnalysisRun` say `CHECK_DEADLOCK FALSE`: the beat takes a
step there only when it finds a row, so when all requests are answered and all
rows have their outcome, the system rightly stops. So do those of the other
three modules: when every gesture is over, the popup is closed and every code
used, or the cover is done and the retries are used up, nothing need happen.

### The properties

`AgentRun`: `RowsAgree` (run, step and claim are a state some handler can go
on from), `InPlanOrder`, `CalledOncePerGrant` (a tool that is not safe to
repeat is called once, plus once per manual retry), `CalledOnlyApproved`,
`ResultOfLatestAttempt` (no late publication over a newer attempt),
`OpenQuestionWaits`, `FinalIsFinal` (nothing late changes a run that is over,
and no worker is let through to a tool; a call of a worker that was let through
before is still made), `FailedOnlyRetried`, `ContractKept`; under fairness
`ClaimsEnd` and `RunComesToRest`.

`AnalysisRun`: `CallsBounded` (three calls per row and one for each time
recovery took it back; not two for a message that was sent twice),
`OneAtWork` (two processes have a row in hand only after a slow call was taken
for a dead one), `WorkersKeepOutcome` (no late worker, failure, recovery or
request changes an outcome), `ReportIsReused` (nobody calls the model for a
cache key that has its report); under fairness `EveryRunEnds` and
`EveryCallEnds`. Three of them are stated for behaviours without certain
hazards, named in the property by `Undisturbed`: an overtaken delivery does
start a second call, and a call that outlasts five minutes does let a second
worker in. That is what the code does, and no document promises otherwise.
With `WorkersKeepOutcome` they say exactly who does the damage.

`CoverGeneration`: `CalledOncePerGrant` (one billed call for the request and one
for each retry, however often the message is delivered), `PublishedIsKept` (the
cover of an attempt that succeeded is in the storage and stays), `ObjectsKnown`
(nothing written is unknown to the cleaner), `CancelSchedules` (what a
cancelled attempt wrote does not wait for the day's clean-up), `NoWorkLeftOpen`
(a run that nobody works on can be retried), `SuccessIsFinal`; under fairness
`RunEnds`. Where one excludes hazards, each of them alone was seen to break it;
`CancelSchedules` needs an overlap and a conflict together to break, and
`NoWorkLeftOpen` and `RunEnds` except runs whose pictures are refused, without
which both fail when no hazard is met at all.

`ExtensionSession`: `UnlinkedStaysUnlinked`, `CodeConnectsOne`, `UnbindIsHonest`
(an unbinding without a warning has revoked the device, also when its own
request fails), `RevokedForGood` (only a transaction that had read a device
before its revocation issues it a token, which is good for nothing),
`ConnectionLasts` (what costs an active device its connection, and what does
not).

`PageCapture`: `NoArmLeft` (no permission outlives its capture),
`NewestSucceeds`, `UploadsOwnTab`, `PicturesOnlyWhileOpen`, `CompleteIsWhole`;
under fairness `NothingHangs`.

### Fairness

Weak fairness of each process that has not crashed: Celery hands a worker the
next message when it is free, tool and model calls return because the adapters
set HTTP timeouts, and beat fires `recover_pending` every thirty seconds
(`worker.py`). Weak fairness of time: a lease that is not renewed expires, a
back-off passes, a row that nobody writes becomes stale. Nothing is assumed of
the user, the administrators, crashes, context changes, or, in `AnalysisRun`,
of the requests: a request may insert its row and never enqueue it.
`RecoverPending` and `ExecuteRun` are each fair as a whole, per process, never
per row or per outcome.

`CoverGeneration` assumes weak fairness of `WorkerStep(w)`, the worker as a
whole, and of `CancelCommits`, since a transaction that has begun ends; and
nothing of the user, the cleaner, time or failures. `PageCapture`
assumes it of the service worker's and of the content script's part in each
gesture: promises settle, animation frames come, and every wait in them has a
timeout. `ExtensionSession` has safety properties only.

### What the violated properties show

Each is a sentence of the repository's own documents that the code does not
keep; the counterexamples are a few steps long.

- `RunSurvivesWorkerCrash`: a worker that dies after its publication, before it
  has sent the next message, or right after it received one, leaves a run with
  no claim and no message. Recovery looks for claims only. The analysis task,
  whose recovery looks at the rows' status, survives the same crash
  (`EveryRunEnds`).
- `QueuedRunStarts`: a manual retry puts the run back to QUEUED and sends no
  message. An approved confirmation goes the same way.
- `ClaimEndsRightly`: `fail_invalidated` without a claim runs in a transaction
  of its own; if the context is valid again and another worker has claimed the
  step by then, it fails the run under that claim.
- `AgentCallNotRepeated`: the row of the agent's tool looks like any other
  RUNNING row to the analysis recovery.
- `OutcomeIsFinal`: the tool's stale copy, see section 2.

## 4. The proofs

For every number of starters, workers, beats and steps, every policy, every
set of protected steps and every bound in `Limits` (so without a bound):

- `AgentRunProofs`: `TypeCorrect`, `RowsAlwaysAgree`, `PlanOrderKept`,
  `QuestionsWait`. `RowsAgree` is inductive together with the types: every
  handler ends in `Settle` or moves one field in a way the rows allow.
  `InPlanOrder` needs it, since it is the agreement of the token with
  `<<index, attempts[index]>>` that makes a publication concern the current
  step.
- `AgentRunCallProofs`: `CalledOncePerGrantAlways`,
  `CalledOnlyApprovedAlways`, `ResultOfLatestAttemptAlways`,
  `FinalStaysFinal`, `FailedStaysUntilRetried`. `CalledOncePerGrant` is far
  from inductive: that a tool was called once says nothing of the worker who
  is about to call it. The strengthening is
  - `ClaimsDistinct`: two workers never carry the same claim, and no claim is
    newer than the attempts counted;
  - `CallsGranted`: for a tool that is not safe to repeat, the calls begun are
    fewer than the grants (`CallLeft`) while its step is PENDING or AWAITING,
    and while a worker that holds the good claim has not called yet. A worker
    that was let through counts as one that has called, because it will,
    whatever becomes of its claim.

  `CalledOnlyApproved` and `ResultOfLatestAttempt` are inductive together with
  the types and `RowsAgree` (`Carried`). `FinalIsFinal` follows from the types
  and a case for each action: only `ValidateClaim` lets a worker through, and
  the claim it asks for is gone when a run is final (`RowsAgree`); only
  `InvokeTool` calls.
- `AgentRunContractProofs`: `ContractAlwaysKept`. The initial state is the
  contract's; each action is mapped to a step of the contract or to a
  stutter. `ValidateClaim` is the contract's `Permit`: that the claim is new in
  `due`, and a call left for it, is `ClaimsDistinct` and `CallsGranted`.
  `InvokeTool` is `Call`, whatever the run is by then. Besides the invariants above it needs `CalledBeforeResult`: a
  worker that is about to publish has called the tool of its step, so that by
  `CalledOnlyApproved` a protected step that succeeds was approved.

For every number of rows, requests, workers, beats and tools, and every
`Limits`:

- `AnalysisRunProofs`: `AnalysisTypeCorrect`, `WorkersAlwaysKeepOutcome`,
  `OneAlwaysAtWork`, `ReportAlwaysReused`, `CallsAlwaysBounded`. The first
  action property follows from the types and a case for each action:
  everything but `AgentPublish` and `BeginLoaded` looks at the status it
  writes over. The others need `WorkInv`:
  - `Handed`: a process has a row exactly while it works, and one that holds
    an old copy has been overtaken;
  - `OneActive`: one row is active at most, and nobody has a row in hand that
    was not inserted;
  - `Sole`, as long as no slow call and no overtaken delivery was met: a row
    in hand is RUNNING and was written within five minutes, so that neither
    recovery nor a message gives it away, and one process has it.

  `ReportIsReused` is their consequence: with a SUCCEEDED row no other is
  active, and whoever could call has a RUNNING one. `CallsBounded` holds with
  slow calls too, where two workers do have a row. What it needs is `Counted`:
  the calls made and the calls that workers are about to make are together no
  more than the row's attempts, and each attempt was allowed by a failure that
  was counted or by a recovery.

The other three modules are proved for every number of workers, retries and
messages, of codes, devices, tokens and pages, of gestures, every page and
viewport, and every `Limits` and `Kinds`:

- `CoverGenerationProofs`: `CoverTypeCorrect`, `CoverCalledOncePerGrant`,
  `CoverPublishedIsKept`, `CoverObjectsKnown`, `CoverCancelSchedules`,
  `CoverSuccessIsFinal`, `CoverNoWorkLeftOpen`. One invariant carries them. Its
  main parts:
  - `Found`: while a cancel has not committed the run has not succeeded, and
    what the cancel has found is registered and referred to by nobody: its
    commit takes no published cover;
  - `Apart`: workers that are past their claim work for different attempts;
  - `Granted` and `CallsOnce`: an attempt takes what the request or a retry has
    granted, and is called for once;
  - `FinalUnknown`: until its worker publishes it, nobody has registered the
    cover of an attempt, so that the cleaner cannot have it;
  - `Held`: a run at work has a worker that is up, unless a crash or the end of
    a lease was met or its pictures are refused, and a worker that was
    overtaken does not hold it;
  - `HazardsMet`: a worker that deals with a failed write, a model that drifted
    and a lease that ended each have a hazard that was met;
  - `InHand`: what is stored and not registered is in the hands of a worker
    that is on its way to register it (`Gone`, `LayerKnown` and `EmptyHanded`
    say where a worker has something in hand at all).

  `ObjectsKnown` says nothing while a worker is at work, so it is far from
  inductive; `InHand` is what it says meanwhile, for each place a worker can
  be. `CancelSchedules` is the same for a cancelled run, with `CancelHeld`:
  what the latest attempt stored and the cleaner does not take at once is left
  to a worker of that attempt that will find the run cancelled (`Settles`). No
  worker changes a cancelled run and leaves it so, hence a worker that has read
  it as cancelled fails no commit, unless the cancel overlapped it. While a
  cancel has not committed, `Missed` says the same of what it has not found:
  it was registered meanwhile, an overlap was met, and the worker that did so
  is still on its way to its compensation, which only a conflict takes from it.
- `ExtensionSessionProofs`: `ExtensionTypeCorrect`, `RevokedStaysRevoked` (of
  each step: a revoked device stays so, and only a transaction that had read it
  issues for it; `RevokedParts`), `CodeConnectsOneAlways` (a code's tokens are
  for the device that redeemed it, `RedeemedOnce`, because the code of a
  pairing under way stays as the pairing found it, `CodeLocked`), and
  `UnlinkedForGood`. The last needs `UnlinkedInv`:
  after unlink nobody pairs, and a renewal that is still there is fenced.
- `ExtensionConnectionProofs`: `ConnectionAlwaysLasts`. As long as no body broke
  off and no decision overlapped a pairing: whoever has decided to clear the
  stores found no connection, or a dead one, and nobody is making a new one
  (`ClearsNothing`); a renewal that goes on is for the device the stores hold
  (`RenewsLinked`); a pairing keeps the key it began with (`PairsKey`).
  And `UnbindingIsHonest`, of which there are two cases. When session storage
  holds a token, the token is one of the device whose key is stored
  (`SessionInv`), whatever requests failed before, so that the request to
  revoke names that device, and without a warning it was answered. For this
  `Grounds` says that the transaction the popup or the renewal waits for is
  its own (`Serving`), that a device once known stays known (`Known`), and
  that a token that came is for the device it was asked for (`Owned`). When
  session storage is empty although nothing failed, either the device is gone
  already or the popup will warn (`SeveredOrWarned`, with `RenewsToken` and
  `CallsOfKey` for the tokens in hand); when something had emptied it, the
  property promises nothing, as the code does not.
- `PageCaptureProofs`: `CaptureTypeCorrect`, `PermissionEnds`,
  `NoPictureAfterEnd`, `OnlyOwnTabUploaded`, `NewestAlwaysSucceeds`,
  `CompleteAlwaysWhole`. The first three are from `Control`: the session with the permission is the
  one the coordinator knows, open, being started, and shows nothing yet
  (`ArmedIsStarting`); the newest start that has not asked for it is known and
  open (`EarlyIsOpen`); the content script runs only what was started
  (`CapturesStarted`); no start is of a generation to come
  (`GenerationsPassed`). The others each have an invariant of their own:
  - `OwnInv`: what is on the screen belongs to the overlay, which the blur of
    the window cancels. While no blur is pending, its pictures and those under
    way are of this tab; once the user has confirmed them they are, whatever
    comes after.
  - `NewestInv`: the newest gesture passes four phases. It asks (`Asks`), it
    holds the permission that no other gesture may use or end (`Opens`,
    `Permitted`), its first picture is on its way (`Begins`), it has one to
    show (`Shows`). The bulk of the proof is that an older gesture's steps,
    which may come in any of them, leave the phase alone (`LeavesAlone`).
  - `ChainInv`: the pictures reach from the top downwards without a gap, and
    the page stands no lower than the last one reaches, also while a picture
    is on its way and the page grows, shrinks or is replaced; a bottom that
    was seen twice is the last picture's. With `OwnInv` that makes a capture
    whole when `OnlyBottomCompletes` it.

The assumptions are those on the constants (`StepsAssumption`,
`PolicyAssumption`, `ProtectedAssumption`, `NoRowAssumption`, `NoneAssumption`,
`PopupAssumption`, `GesturesAssumption`, `PageAssumption`, `BoundsAssumption`,
and each module's `LimitsAssumption`), which TLC evaluates in the runs.

Every invariant and every action property that the passing runs check is so
stated by a theorem. Only model-checked is liveness, which needs ENABLED and is
out of the prover's reach: `ClaimsEnd` and `RunComesToRest`, `EveryRunEnds` and
`EveryCallEnds`, `RunEnds`, `NothingHangs`. The counterexamples of the other
runs are found by TLC. The invariants above were checked by TLC on the
instances of section 3 before they were proved.

## 5. What is not modelled

- In `AgentRun`: events and audit records, the tools other than by their retry
  policy and risk, plans being made (`current` stands for their drift), a
  second plan or run, and the deletion of the workspace.
- In `AnalysisRun`: the evidence bundle, prompts and feedback; other cache
  keys, whose rows never meet; the usage governor's refusals, which are
  provider failures to the task. The retry of an operator
  (`core/observability.py:728-759`) inserts a clone when the index allows it
  and then enqueues it, which is a case of `Request`; an operator cannot cancel
  an analysis.
- In `CoverGeneration`: prompts, layout, assets, the content of the safety
  scan; other runs and keys; the operator's retry and cancel, which do not
  know covers.
- In `ExtensionSession`: the one-hour token of clients without a device, audit
  rows, the attempt counters in Redis, and the single use of a challenge, which
  has one holder here.
- In `PageCapture`: other tabs and windows; the hotspot branch
  (`ARM_FULL_PAGE_CAPTURE` does not carry it, `background.ts:464`, so
  `START_HOTSPOT_CAPTURE` is always refused); the buttons to select and to try
  again, which find arm and session spent after the first picture; the
  relayed polling of a task; redaction rectangles; the stitcher's pixels, of
  which the model keeps what it may leave out.
- The components whose status is not modelled. For the exports, workspace
  deletion, the usage governor, the restore and the index build see the plan:
  their hazards are listed, their shape is that of the modules here. The rest
  computes, is written in one transaction, or is an interface.
- Most of the TypeScript: of its 72,741 lines about 45,000 are generated
  schemas and API clients, and nearly all of the rest are React components
  without state that anything else can disturb. What has such state, the
  extension, is modelled; the program's own core logic is Python.
- Cancellation tokens inside a tool: the outcome CANCELLED of a tool is one of
  the outcomes of `PublishFailure`.
- The order of messages: a message has no content but its row, and the models
  hold a count of them.

## 6. Plan

Done: `AgentRun` with its contract, `AnalysisRun`, `CoverGeneration`,
`ExtensionSession`, `PageCapture`, each with a passing run and its proofs. The
number of runs is kept small: what comes next shares a run with a module that
is there, or replaces one of the small counterexamples.

1. `ExportJob`: claim, lease and heartbeat, managed objects from PENDING to
   REFERENCED, the cleaner (`retention_tasks.py`), over the object rows of
   `CoverGeneration`. Property: a succeeded export has its object, also when
   its worker was slower than the retention (`exports/service.py:292`).
2. `WorkspaceDeletion`: the phases and their claim against a writer of
   `ExportJob`. Property: after the last phase no object is left
   (`exports/deletion.py:409`).
3. `UsageGovernor`: reservation, lease and settlement over two stores.
   Property: a reservation does not outlive its process for ever
   (`models/usage.py:594`).
4. The restore job (`exports/zip_restore.py:862`) and the index build, as far as
   they differ from the patterns above.

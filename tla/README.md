# Elion MDM, specified

TLA+ modules, TLC configurations and TLAPS proofs for the parts of Elion MDM
whose correctness depends on the order in which things happen.  Paths are
relative to `src/`; `android/` stands for
`android/app/src/main/java/com/elion/mdm/` and `CommandHandler.kt` and the like
for the file of that name under it.

1. [The system](#1-the-system) - components, state, interactions, hazards
2. [Modules](#2-modules) - what each one models and how it corresponds to the code
3. [Runs](#3-runs) - what each checks, its bounds and what it shows
4. [Fairness](#4-fairness)
5. [Proofs](#5-proofs)
6. [Where the code does not do what is said of it](#6-where-the-code-does-not-do-what-is-said-of-it)
7. [What is not modelled](#7-what-is-not-modelled)
8. [Plan](#8-plan)

## 1. The system

A mobile device management service: a FastAPI backend with a SQL database (one
uvicorn worker, so one asyncio event loop), a React dashboard and an Android
agent.  An administrator queues commands and edits policies; the agent polls for
commands over HTTP every 30 seconds or gets them over a WebSocket, runs them,
and reports; the backend compares what devices report with the merged policy
and sends sub-commands to correct the difference.

| component | state | operations | talks to |
|---|---|---|---|
| command engine: `repositories/device_repo.py`, `services/mdm_service.py`, `main.py`, `api/websocket_routes.py` | rows of `command_queue`: status, `attempts`, `retry_count` | enqueue, poll, bootstrap, flush on reconnect, ack, `cmd_result`, timeout watchdog | database, agent, dashboards |
| admission: `api/command_dispatcher.py`, `api/routes.py` | an asyncio.Lock per device, the unique `dedupe_key` | dispatch (look up, count, insert, send), REST create | command engine, presence |
| presence: `api/websockets.py` | `active_devices`, presence store, `Device.status` | connect, disconnect, heartbeat, sweep, send | devices, dashboards, database |
| compliance: `services/drift_detector.py`, `services/policy_engine.py`, `api/policy_routes.py` | `policy_states`, timestamps and locks in memory | evaluate, handle a result, update a policy, watchdog | admission, device |
| enrollment: `services/redis_service.py`, `MDMService.enroll_device` | tokens in Redis, `devices`, `device_policies` | generate, validate and use, enroll, sync, remove, update a profile | database, Redis |
| policies: `api/policy_routes.py`, `services/policy_engine.py` | `policies`, their links and assignments | create, update, delete, assign, merge, preview | compliance |
| agent commands: `CommandHandler.kt`, `MDMWorker.kt` | marks of executed commands in SharedPreferences | process, mark, notify | backend, offline queue |
| agent offline queue: `OfflineQueue.kt` | a list in memory, one file, flags | enqueue, init, flush | disk, backend |
| agent link: `MDMForegroundService.kt` | socket, reconnect job, circuit breaker | poll loop, connect, schedule a reconnect | everything above |
| agent state machines: `MDMStateMachine.kt`, `EnrollmentStateMachine.kt` | an enum and its checksum in preferences | transition, recover | agent link, kiosk |
| Android Management API bridge: `api/android_management_routes.py`, `services/android_management_service.py`, `amapi_operation_poller.py` | `android_management_config`, rows of `command_queue` with an `operation_id` | sign up, synchronise, remove, send, poll | Google, command engine |
| RBAC and audit: `api/rbac_routes.py`, `services/rbac_service.py`, `create_admin.py` | `roles`, `permissions`, who has which, `audit_logs` | seed, create, update, delete, add, remove, assign, revoke | every route |
| authentication; dashboard; schema | | request-local | |

### What is hard

* **Sessions over shared rows.**  Every handler of the backend reads ORM objects
  in a session of its own and writes the changed columns back by primary key.
  `transition_status` commits inside (through `log_event`), so a handler is a
  read and several commits, between which all the others run.  Nothing re-reads
  a row before it is written, except the watchdog, whose `FOR UPDATE` covers the
  first row of a batch only.
* **Two transports and three clocks.**  A command can be polled, flushed on
  reconnect and dispatched at once, while the watchdog requeues it and an
  answer is on its way.
* **Overlap on the agent.**  The poll loop, `MDMWorker` and the WebSocket
  callbacks run the same code with no lock; preferences reach the disk later
  than memory; a command may reboot the device.
* **Overlapping connections.**  A device reconnects before the backend has
  noticed the end of the last connection, and both handlers clean up.
* **Three writers of one policy row**, of which only evaluations exclude each
  other: results are handled one at a time on each connection only, and a
  replaced connection and its successor may handle one each.
* **One request, several commits.**  An enrolment writes the device and its policy
  in two, a role and its audit entry are two, a removal deletes at Google and
  then in the database; Redis commands have no transaction at all.

### What makes each component correct

* *command engine*: a success is shown on the agent's word only; a failure on
  its word or when the retries are used up; retries are counted; no accepted
  command disappears; every one is settled in the end.
* *admission*: at most `MAX_QUEUE_PER_DEVICE` open rows of the dispatcher per
  device; a dispatch never leaves the lock taken; a request queues a command.
* *presence*: no ended connection stays registered, a gone device goes offline,
  the newest connection is the registered one.
* *compliance*: the failed list says the truth and a block has a failed category
  until results of two connections overlap, a block was preceded by as many
  enforcements as the limit says, the hourly limit holds, and the device ends
  compliant with the policy really applied, or blocked.
* *offline queue*: what was stored is delivered or given up, in order, once in
  the list, by one sender at a time.
* *agent commands*: EXECUTED stands for a run; a second run has a cause; every
  command handed out is answered.
* *enrollment*: a token admits at most the devices it allows, key and policy of a
  device are of one enrolment, a profile's update reaches its devices.
* *policies*: what is in use exists, a version names one content, the narrower
  scope wins a merge, and the last change is evaluated.
* *RBAC*: somebody stays SUPER_ADMIN, seeding again leaves the roles and who has
  them as they are, and an entry of the log is of a change that was made.
* *bridge*: no device is forgotten while Google manages it, no command is issued
  twice or said to be executed when it was not.

`PROJECT.json` lists the hazards, each at the line where it bites, with the
properties that cover it.

## 2. Modules

| module | models | composed with |
|---|---|---|
| `CommandPromise` | what the engine promises about each command, with no handlers: abstract | |
| `CommandQueue` | one device's rows and the handlers that move a command of the agent from status to status | `INSTANCE CommandPromise` |
| `CommandQueueProofs` | invariant and refinement, proved | |
| `CommandAdmission` | how a row enters the queue | |
| `Presence` | connections and who is online | |
| `DispatchProofs` | both sides of the dispatcher, proved | `EXTENDS` `CommandAdmission` and `Presence` |
| `Compliance` | the enforcement loop of one device | |
| `ComplianceProofs` | that loop and the policies it reads, proved | `EXTENDS` `Compliance` and `Policies` |
| `ReportStore` | what the agent promises about undelivered reports: abstract | |
| `OfflineQueue` | the agent's store-and-forward queue | `INSTANCE ReportStore` |
| `OfflineQueueProofs` | invariant and refinement, proved | |
| `CommandHandler`, `CommandHandlerProofs` | what the agent does with a command | |
| `Enrollment`, `EnrollmentProofs` | one device's enrolment, removal, profile and sync | |
| `PolicyMerge` | the merge, its normal form, defaults and preview, as functions | |
| `Policies` | policies, links and assignments beside evaluations | |
| `PolicyEvaluation` | what such an evaluation writes | `EXTENDS` `Policies` and `PolicyMerge` |
| `Rbac`, `RbacProofs` | roles, permissions, who has them, the audit log | |
| `Amapi`, `AmapiProofs` | the Android Management API bridge, for one device | |
| `MC*` | values of the constants for TLC | the module named |

The modules meet at narrow interfaces rather than in one composition: a row that
`CommandAdmission` opens is a row of `CommandQueue` whose life there is one
step here (`Settle`); `CommandHandler` sees the backend as `settled[c]`, which is
what `CommandQueue` makes of a row, and the offline queue as a list of results;
`Compliance` hands sub-commands to a set `sent`, which is a queue of `Cats`
rows.  Each module's comment says what it leaves to the other.

### `CommandQueue`

A handler is a record in `sess`: what it is doing, the rows still to be visited
and the rows *as it read them* (`snap`).  One read is one action, one commit is
one action.  So `PollRead`, `PollCommit` (once per row) and `PollReply` are
`get_pending_commands` and the response of its route; `AckRead`/`ReportCommit` are
`ack_command`, where EXECUTED and ACKED are two commits; the flush sends before it
writes; the dispatcher writes before it sends.  A commit uses `snap`, never the
row: this is where stale handlers do their damage.  The watchdog is `batch`
(selected rows) and `locked` (rows `FOR UPDATE` still protects: none after the
first commit).  `SetStatus` waits for a lock, as PostgreSQL does.  `Run` is the
agent, which may run a command and report either outcome (`CommandHandler` has
its marks); `reports` is a set because an answer is resent until accepted.  `Crash`
stops every handler and `Abort` fails one.  Two things that touch rows of
`command_queue` are not here: the removal of the device, which deletes its rows
(`device_repo.py:103`; `Enrollment` has what else it deletes, `Amapi` the rows),
and the statuses of the bridge's commands (`Amapi`).

`WsBound = FALSE` is the code as shipped: `websocket_routes.py:120` uses `Device`
without importing it and every handshake of a device is answered as
unauthorized, so only HTTP delivers.  `TRUE` is the code with the missing
names imported.  Both are checked.

`max_retries` bounds `attempts` (requeues); `retry_count` counts physical sends
over the WebSocket and is compared with nothing, so `MaxSends` bounds it.

`CommandPromise` is what a dashboard may rely on: a success only after the agent
confirmed, a failure only after a refusal or `MaxRetries` retries, and no
disappearance.  `Reopen` is part of it on purpose: a second poll that read the
row while it was PENDING writes DISPATCHED over ACKED
(`mdm_service.py:475`, whose copy satisfies the check at `device_repo.py:276`), and
the dashboard sees a finished command go back to work.

### `CommandAdmission`

`dispatch_command` under the device's lock is `Enter`, `Lookup`, `Count`, `Insert`,
`Send`, one per database transaction; `Raise` is a database error in any.  Keys
are (action, minute) for the dispatcher and (action, none) for REST, since
`add_command` puts no time into the key it builds.  A collision with the unique
index ends in an exception: the rollback expires the device object whose
attribute is read next.

### `Presence`

A handler's `pc` goes from await to await.  `active` is the registered socket; a
handler, the sweep and a failed send all go through `SetOffline`, whose steps
after the first await (`OffWrite`, `OffTell`) interleave.  `SendCommand` is the
dispatcher's question whether the device is online and `GetSocket` the look-up of
the socket it is then sent to, with the commit of the row between the two.  `link`
is the client's side, of which the backend learns when it sends or reads;
`Garbled` is a message that is not JSON, which ends the receiver as a closed
socket does.  `NamesBound` plays the part of `WsBound`.

### `Compliance`

`ev` is the evaluation that holds the device's lock, `line` those that wait;
`receiver[s]` handles the messages of connection `s`, one at a time, and waits
for the evaluation it has asked for; `update` is a policy update and then its
trigger. `link` is the connection the device speaks on: `Reconnect` replaces it
and does not wait for the old receiver, which handles what is left in its
`inbox`, and `HangUp` is the end of such a receiver, which cancels the
evaluation it awaits. So two results may be handled at once, and `overlapped`
remembers that two were, for the properties; no guard reads it. An evaluation
holds `old`, the row as it read it, an update and a result what they use of it
(`Verdict` leaves out the report), and `Commit(old, new)` writes the columns in
which the two differ into the row as it is *now*, which is what a session does.
A configuration maps each category to the version of the policy that set it;
that is all drift detection tells apart. `synced` is the version whose hash an
evaluation stored, because the hash of a report is computed over other keys and
equals no policy's.
`DispatchOne` may fail alone; `DispatchAborts` is a full queue.  A restart clears
locks, timestamps and calls and keeps the row.

The device is external: `state_report` and `cmd_result` are what
`websocket_routes.py` expects.  The agent of this repository sends neither (see 6).

### `OfflineQueue`

Events are (timestamp, priority).  `Enqueue` is the whole critical section:
room, ordering, write.  `Write` may fail and leave the old file.  `flushNetwork` is
split where it can be interrupted: three tests without the mutex, the flag, the
mutex, each send, the pause after `Batch`, the closing write; it may be cancelled
while it waits or pauses.  `Kill` leaves the file.  `early` remembers an enqueue
before the file was read; `stored` what was ever in the file.  `Sorted` puts each
event at the place given by how many precede it, which is what a stable sort does.
`Known` is what the list, the file and the outcomes already have: an event that
waits for the mutex is in none of them.

`ReportStore` is what a caller of `enqueue` may rely on, with sets in place of the
list and the file and neither mutex nor flags: reports are offered most urgent
first, only the least urgent gives way and only at the cap, `Save` writes what is
held, and what was saved is restored before it is written over.  `mixed` is the
price: a report taken before `Restore` voids the cap and the restoring (not the
order).  `Send` may leave the report in, since an answer may be lost.

### `CommandHandler`

Two coroutines take a batch each (`Fetch`), and for each command look up the
mark, run, mark and tell.  `marks` is SharedPreferences in memory, `disk` what
`apply()` has written.  `overlap` remembers that two coroutines were between the
look-up and the mark of one command at once, for the property; no guard reads it.

### `Enrollment`

A request is a number, which also stands for the device token it makes, and a
profile's content is the number of its updates.  One Redis command or one
database statement is one action: `ReadToken`, `FirstHset`, `SecondHset` are
`validate_enrollment_token`; `GetProfile` to `Reply` are `enroll_device`, whose two
commits are `Upsert` and `UpdatePolicy` or `InsertPolicy`.  `FindPolicy` reads
`FOR UPDATE SKIP LOCKED`, to which a locked row looks absent.  An `HSET` on a key
that has expired makes a new key of one field: mode `"bare"`.  `history`
remembers which requests overlapped, for the properties; no guard reads it.
`NamesBound = TRUE` supplies two names the code lacks (see 6).

`UpdatePolicy` writes every column of the policy's row.  The code's session leaves
out a column whose new value equals the copy that `repo.get` loaded with the device
(`device_repo.py:43`).  The two are the same as long as nobody else has written the
row since, which takes a second enrolment of the device at the same time; then
the code may keep a column of the other's, the profile of one request beside the
configuration of the other.  `PolicyFollowsKey` excepts such requests;
`StaleIsMarked` is, for them, a statement about whole rows only.

### `PolicyMerge`, `Policies` and `PolicyEvaluation`

A configuration has a restriction in its legacy and its new form, a list and a
scalar: what the merge treats differently.  Lists are bags, because joining keeps
duplicates.  `DeepMergeTwo` and `MergePolicies` (a fold) are the code's;
`LastLayerWins`, `RepeatingIsHarmless`, `ScopeDecides` and `PreviewAgrees` state
what they compute, over all pairs of configurations and of layers.  `Policies` has
the routes that change policies: each loads, writes in its commit (an update in two
statements, `Bump` and `Write`, since the increment is flushed before the fields),
and asks for an evaluation.  An evaluation reads the linked policies, then the
assigned ones, then concludes: three steps.  `history` remembers which version was
given to which content, whether a request failed half way (`missed`) and whether
two updates overtook a third (`crowd`), for the properties; no guard reads it.
`PolicyEvaluation` joins the two: its properties `MergeLaws` and
`PreviewTellsTheTruth` ask those laws of every evaluation that is about to write.
It is a module of its own because the merge is recursive, which the prover does
not take; the names of `Policies` that `Compliance` also uses have a prefix there
(`PolicyInit`, `PolicyNext`, `PolicySpec`), so that one module can prove both.

A policy is a scope, a priority, the number of the profile's link to it and a
configuration.  The desired state of an enrolled device sorts the linked policies by
scope and priority and only then by link (`Before`; `drift_detector.py:122`); the
preview goes by the links (`device_repo.py:230`) and puts global policies and the
profile's own fields before them.  So the two differ in general.  `PreviewAgrees`
says when they agree: the links rank the policies as scopes and priorities do, and
every global policy is linked (then wherever a linked policy speaks; and entirely
when the profile's own fields add nothing).  That the link with the higher number
wins, as `models/policy.py:56` says, is true of the preview only (see 6).

### `Rbac`

A request is `Load...` (what it reads and checks), its write (one commit), and for
those that log, `Audit` (another commit); `Fail` ends it between any two.  Two
permissions stand for all, ADMIN for the three lesser roles; names say so in the
module.  `Startup` is the seeding in `lifespan`, one transaction that is undone as
a whole.  `LazyLoads = FALSE` is SQLAlchemy's async session, which refuses to load a
relation on access.

### `Amapi`

Variables that begin with g are Google's.  A request goes from await to await;
the poller and the watchdog hold copies (`todo`) and treat them one by one, the
watchdog's locks end at its first commit.  `Fault` is an error of Google's or an
answer that is lost, with the effect or without.  The device is one, its commands
are asked for in order, and enterprises are numbered as their signups are.
`main.py:236`, `:260`, `:338` and `:347` comment the poller and the router out: the
module says what they do when they are mounted.

## 3. Runs

`tlc -workers 2 -config X.cfg M`, all within five minutes.  Deadlock checking is
off everywhere: when the bounds on commands, faults and versions are used up
and everything is settled, the modelled system has nothing more to do.

| run | states | checks | what it shows |
|---|---|---|---|
| `command_queue` | 69 298 | `OutcomesHaveCause PromiseKept EventuallySettled` | as shipped (HTTP), 2 commands, a handler beside the watchdog, 1 retry, 1 fault |
| `command_ws` | 115 384 | `IInv` | both transports, 2 overlapping handlers (symmetric), 1 command, 2 sends, 1 fault |
| `admission` | 75 100 | `DispatcherIsBounded EveryDispatchReturns` | 2 actions against a limit of 1, 2 racing dispatches, 2 minutes, restarts |
| `presence` | 285 649 | `EndedIsUnregistered GoneGoesOffline` | 2 connections, 2 sends |
| `presence_newest` | stops at 2 500 | `NewestIsRegistered` - violated | the old handler's cleanup |
| `compliance` | 1 616 666 | `IInv FailedListIsTrue BlockHasCause Converges` | 1 category, 2 connections, limit 1 an hour, block after 2; of failures, an update, reconnections, restarts and checks any two |
| `offline_queue` | 1 428 919 | `IInv StoredSurvives StoreKept OnlySettledLeaves QueuedIsSettled` | 2 flushers, 2 places, 3 events of either priority (the second a result), a death, an I/O error, a refusal for good |
| `agent_commands` | 24 321 | `HInv RerunHasCause HandedIsSettled` | 2 coroutines, 1 command, 2 deaths |
| `enrollment` | 831 737 | `IInv TokenBudget PolicyFollowsKey StaleIsMarked SyncConverges` | 2 requests by token (of 1 or 2 uses) or secret, 1 profile, an update, a removal or a restart |
| `policies` | 169 297 | `PolicyInv VersionNamesContent VersionsRise MergeLaws PreviewTellsTheTruth Settles` | 2 policies, one of them linked, 3 requests, 1 evaluation at a time; the merge over pairs of 210 configurations |
| `rbac` | 67 424 | `IInv LoggedIsTrue SomebodyIsSuper SeedingKeeps` | 2 users, a role of their own, 3 requests, from an empty database and from one set up |
| `amapi` | 1 474 690 | `IInv Truthful NeverUnmanaged Settles` | 2 signups, 2 commands, 2 requests at once, 1 retry, 1 fault |

**Why the bounds are enough.**  Everything that can go wrong here takes two
actors and one object, sometimes a death between two of their steps: one handler
is stale because another has written.  A second handler, a second command (for
batches: the first commit of a batch unlocks the second row) and one fault
give every pair of steps; a retry budget of 1 reaches both sides of every
comparison with it, as do an offline queue of two places against three events, a
limit of 1 against two actions, and an hourly limit of 1 with a block after 2.
`LoopLimit` exceeds `RateLimit` in `compliance` so that a block needs the hour to
pass.  Two connections are what a device can have
open that still speak: the one it uses and the one before it.  Three requests to `Policies` and `Rbac` give a change, one that races it and
one that follows both; two enterprises and one fault give the bridge a change of
enterprise or a lost answer at every step of a removal.  For the safety
properties of ten components the proofs remove the bounds.

**What the bounds exclude.**  `command_queue` has no second handler beside the
first, since liveness with two does not fit in the time; `command_ws` has, for
safety.  `compliance` has one category and two events.  With one category, a success
that empties the failed list is always the last one, so the early "compliant" of
`drift_detector.py:398` is met through stale results, overlapping ones and updates
and not through a second category; the safety part was checked once with two
(31 369 882 states), too many to keep as a run, and is proved for any number.  Two
events are enough for results that overlap and contradict each other (a failure
and a reconnection; without its exception `FailedListIsTrue` is violated here), not
for a block with no failed category, which needs another failure (see 6; it
was reached with two categories, three events and `LoopLimit = 1`).
`agent_commands` has one command; what two commands add (the
order in a batch) was not found to matter and its invariant is proved for any
number.  `enrollment` has one profile, one device and one event (update, removal
or restart): two profiles differ only in which device rows an update marks.
`rbac` has one role beside those of the system, and no request fails and is
repeated under the same number.

Every property has a mutant, an operator whose comment starts with "Mutant:",
just above the definition it stands in for: with it, the run reports that
property violated.

## 4. Fairness

* **Handlers go on.**  The event loop runs ready tasks and a query is answered or
  fails: weak fairness of `Continue` (command engine), `DispatchStep`, `Handler`
  and `Going` (presence), `Evaluate` (compliance).
* **The timeout watchdog** runs every 15 seconds and a row left DISPATCHED is past its
  timeout in some sweep: weak fairness of the selection and of the skipping, strong
  fairness of requeue-or-expire, since selecting and skipping alternate.
* **The agent polls**: weak fairness of `PollRead`; that it ever runs anything is
  *not* assumed of `Run`.  A report, once made, is resent: strong fairness of `AckRead`.
* `EventuallySettled` is checked for the HTTP build only.  With the WebSocket a
  flush can repeat for ever and `MaxSends` would end it, so the model's
  liveness would rest on a bound the code does not have.
* **Offline queue**: the foreground service is restarted (START_STICKY), one flusher
  or the other looks at the list again and again, the mutex is handed on, a
  coroutine that has begun goes on, and a network that keeps being tried is up at
  some of the tries, whoever makes them (strong fairness of some `FlushAccepted`).
  Under refusal for good it would be false, and `QueuedIsSettled` is stated up to
  the first refusal.
* **Agent commands**: the backend hands out again what is open, of many tries to
  tell the backend some succeed.  `GiveUp` and `Persist` have no fairness: the answer
  does not depend on them.
* **Presence**: the sweep comes, time passes, a dead link is noticed in the end;
  the device owes nothing.
* **Compliance**: strong fairness of `Receive`, on one connection or another, because
  it may be kept out by `MaxLine`, a bound the lock's line of waiters does not have in the code, and
  strong fairness of the device's reports and results, which are what "a
  working device" means.  The trigger of an update has *no* fairness: the device
  converges even when the process dies between the new version and the trigger.
* **Enrollment**: the event loop runs every request it has begun, and a device that
  is known asks for its policy at each sync interval.  **Policies**: a request that
  has begun goes on, and so does an evaluation; that anybody asks again is not
  assumed.  **RBAC** needs no fairness: its properties are about steps and states.
* **Bridge**: time passes, and the watchdog's loop goes on.  Nothing is assumed of
  the poller, which does not run in this commit, nor of Google.

## 5. Proofs

All by `tlapm`, with no assumption beyond the modules' ASSUMEs on constants
(naturals where numbers are meant, positive where the code's are, finite where a
cardinality is compared).

**Command engine** (`CommandQueueProofs`).  `Spec => []IInv`, and from it
`TypeCorrect`, `SuccessIsReported`, `FailureIsCaused`, `OutcomesAreCaused`, `LocksProtect`, and
`Refinement: Spec => PromiseKept`.  The properties are about rows, but a commit
writes from a handler's copy, so they are not inductive alone.  `IInv` adds the
*grounds* of each handler: the claim it applies was reported and fits the status
it read (so `Target` yields a status and an EXECUTED target means a reported
execution), and the attempts it read are not above the true ones (so a flush
that gives up does so with the budget really used).  `RetryBudget`
holds although the watchdog increments a value it read long before, because no
other handler writes `attempts`: what it read is still the column's value.  The refinement maps
each commit to `Finish`, `GiveUp`, `Retry`, `Reopen` or a stutter by its target.

**Admission** (`DispatchProofs`).  `Spec => []IInv`,
`Spec => []DispatcherIsBounded`.  What one transaction counted is used by the next;
the lock is what carries it over.  `CountHolds` says that between the count and
the insert there is still room; it is inductive because `OneInside` makes the
holder the head of the line, a restart empties both, and REST's rows are not
among those counted in `Dispatched`.

**Agent commands** (`CommandHandlerProofs`).  `Spec => []HInv`,
`Spec => []RerunHasCause`.  `ClaimsAreTrue` follows an EXECUTED from every place it
can come from (marks, disk, a worker that tells, the queue) back to a run.
`OnceUnlessCause` is the argument for a single run: without an overlap or a death
one worker at most is between look-up and mark, and the run is then in the
marks or in that worker's hands.

**Offline queue** (`OfflineQueueProofs`).  `Spec => []IInv`, and from it
`OldestResultFirst`, `StoredSurvives` and `OnlySettledLeaves`, for any number of events,
flushers, deaths and failed writes.  The lemmas say what the list operations do:
the places of a list's events are its positions, each taken once
(`PlacesAreDistinct`, by counting), so sorting keeps the events, how often each
occurs, and puts them in order (`SortedList`); making room takes one event at most
and enough for the cap (`RoomIsMade`).  `StoredSurvives` is not inductive: a write
replaces the file by the list.  `FileIsBehind` adds that once the file was read it
holds only what the list holds or has lost for a reason, and `OnlyReadIsFlushed`
that no flusher writes before.  The cap and the absence of doubles (`ListBounded`)
need `CallsAreNew`, what waits for the mutex is in neither, and for `init` that
the list it merges into is empty.  What is said of the file and of the cap is
said of processes that read the file before they add an event (`early`); in the
other order it fails (see 6).  One sender, the order and what leaves the list
are unconditional.

`QueueKeepsStore: Spec => StoreKept` is the refinement of `ReportStore`, step by
step (`StoreStep`).  The hard step is `Enqueue`.  In a sorted list the head is the only
most urgent event and the last one the only least urgent (`SortedEnds`, the order
being antisymmetric on timestamps and priorities), and whichever branch `enqueue`
takes at the cap, the victim is the last (`VictimIsLast`); a list without doubles is
as long as the set of its events (`OnceEach`), which turns the code's test of the
length into the store's test of the number.  `InitLoad` is `Restore` because
`FileIsBehind` leaves nothing in memory before it, and a closing flush is `Save`
because `OnlyReadIsFlushed` puts every flush after it.

**Policies** (`ComplianceProofs`).  `PolicySpec => []PolicyInv`, and from it
`VersionNamesContent` and the action property `VersionsRise`, for any number of
policies, requests and failures.  An update reads the row, commits its fields with
an increment done by the database, and in a second commit writes the version it
got back from that, if it is not one more than what it had read, though others
may have updated since.  `VersionNamesContent` alone is not inductive, since
nothing in it speaks of the row.  `HighestIsCurrent` says that the version in the row
is the highest ever given and names the content beside it, so an increment gives
a number that has named nothing.  `CopiesAreCounted` says how far a copy is behind:
by the updates that came in between, one at most as long as nobody was overtaken
by two (`crowd`).  So a version that is written back was preceded by the one
update there may be, nothing came after, and the write changes nothing.
`InUseExists` says of a request that found its policy unused that no profile links
it; what was assigned since, the database sees when it deletes.

**Compliance** (`ComplianceProofs`).  `Spec => []IInv`, `Spec => []FailedListIsTrue`,
`Spec => []BlockHasCause`, for any number of categories, connections, updates,
failures and restarts.  A result is computed from a copy and a trigger may have
emptied the list meanwhile.  `OneResult` says that until two results have overlapped
at most one is being handled; then `CopyIsTrue` says the copy misses nothing of the
row (nobody but a handled result adds to the list) and is itself true; so what is
written back is, whichever columns the session writes.  Both statements about the
list, that it names only what failed last and that a block has a failed category,
except histories in which results overlapped, for there they are false (see 6).
That before the first update a block comes with as many enforcements as the limit
asks for is *not* excepted: `CopiesKeepCause` says that a copy's count is not ahead
of the row's, and that a block in the row is in every copy, whoever holds it.  The type part has the hourly limit: `rate` is checked and raised under
the lock with no await in between.

**Presence** (`DispatchProofs`).  `PSpec => []PInv`, `PSpec => []EndedIsUnregistered`.
`RegisteredIsServed` is the strengthening: the registered socket's handler is
between its registration and its clean-up.  It survives a clean-up that removes the
wrong entry, the finding of `presence_newest`, because that leaves no entry at all.

**Enrollment** (`EnrollmentProofs`).  `Spec => []IInv`, and from it `TokenBudget`,
`PolicyFollowsKey` and `StaleIsMarked`, for any number of requests, profiles and
uses, with the names bound or not.  Each of the three says what a request leaves
behind and needs what it owes while it is under way.  `BudgetLeft`: a token that
is not marked used has a use left, and the validation between its two writes
holds the very token it read (`HalfWritten`), so no failure there counts a use
too few; once the key has expired, who reads what is left of it is refused.
`KeyAndPolicy`: of two requests that were in the service at once both are known
to have been, and while one can still write the policy, the key is not that of
one that ended before it came.  `ReadsAreFresh`: what a request holds is the
profile's content, or an update has outrun it; and who has written the policy
writes no more.  `RowsHold` is the lock: it belongs to the request about to
update or to the removal about to commit, over a row that is there.

**RBAC and audit** (`RbacProofs`).  `Spec => []IInv`, and from it `LoggedIsTrue`,
`SeedingKeeps`, and `SomebodyIsSuper` under `~LazyLoads`.
`Referential` is not inductive alone: `assign_role_to_user` writes a role it read
before.  `Founded` adds where everything comes from: nobody has a role and
no request has begun before a setup made the system's roles, and what a request
loaded of people and permissions is still there.  `OneEntry` ties an entry to its
request: a request makes one change, its entry enters the log when the request
ends, and no request ends twice.  `SuperStays` assumes that relations may
not be loaded on access, which is what the code has (`rbac_service.py:188` in an
async session): then a revocation of SUPER_ADMIN fails before it writes and the
default administrator keeps the role.  With lazy loading it is false (see 6).

**Bridge** (`AmapiProofs`).  `Spec => []IInv`, and from it `Truthful` and
`NeverUnmanaged`.  `AskedOnce` makes the request that is about to issue a command
the only one for it; `AnswersAreTrue` carries what Google said from a request's
answer or the poller's list to the commit; with both, a copy of a row however
old writes nothing false.  `NeverUnmanaged` rests on `CallbacksAreNew` (a signup
yet to be committed is of an enterprise that has no device, so nobody comes back
to the enterprise of a device it lost) and on `DeviceIsKnown` (after a removal's
call to Google nothing managed is within reach).

**Model-checked only.**  All liveness (`EventuallySettled`, `EveryDispatchReturns`,
`GoneGoesOffline`, `Converges`, `QueuedIsSettled`, `HandedIsSettled`, `SyncConverges`,
both `Settles`): fairness and ENABLED are beyond the prover.  `MergeLaws` and
`PreviewTellsTheTruth`, since what `PolicyMerge` computes is an
induction over layers and over nested objects, through recursive operators.

## 6. Where the code does not do what is said of it

One has a run, `presence_newest`: `disconnect_device` removes whatever socket is
registered.  The handler of a replaced connection ends later and removes its
successor, which no heartbeat puts back: the device is up, speaks, and gets no
commands.

Others, met while modelling, without a run:

* `drift_detector.py:382`: "3 consecutive failures of the same sub-command"
  (`backend/README.md:104`, the comment of `drift_detector.py:379`) is, in the code,
  one failure after three enforcements of any kind; the count is neither per
  sub-command nor reset by a success.
* `drift_detector.py:122`: of two linked policies the one with the higher scope or
  priority wins, whatever the numbers of the links, of which `models/policy.py:56`
  says that the higher one has priority.  The preview does follow the links, so it
  may show another configuration than a device gets.
* `repositories/device_repo.py:331`: the key of a REST command is device, type and
  payload, rows are kept, and the key is unique.  The second LOCK of a device can
  never be queued; the collision ends in an exception (`CommandAdmission`).
* `drift_detector.py:364`: a result is handled on what was read before, and a device
  that reconnects has two receivers for a while.  The row has `failed = [x]`, is
  enforcing and at the limit; the old receiver holds "x failed" and the new one
  "x success", and both have read.  The success writes `[]` and compliant; the
  failure finds its list unchanged and writes only `failed_loop`: the device is
  blocked and no category has failed.  With two categories the list of the one
  puts back what the other has cleared (`overlapped` in `Compliance`).
* `main.py:126`: the `FOR UPDATE SKIP LOCKED` of the watchdog protects rows until
  the first commit (`:155`), not for the batch.
* `main.py:138`: the delay before a retry grows with `retry_count`, which only the
  WebSocket flush increments; over HTTP it is constant (`backend/README.md:115`
  speaks of back-off).
* `routes.py:645`: REST inserts without counting, so `MAX_QUEUE_PER_DEVICE`
  (`command_dispatcher.py:7`, `:29`) bounds the dispatcher's rows only.
* `mdm_service.py:475`: a second poll writes DISPATCHED over ACKED (see
  `CommandPromise!Reopen`).  No caller reaches the code
  that writes VERIFIED.
* `CommandHandler.kt:47`: two coroutines may run one command twice, and a death
  before `apply()` has written loses the mark; `models/policy.py:134` and
  `backend/README.md:35` speak of idempotence.
* `OfflineQueue.kt:95`: an event added before `init` has read the file overwrites
  it; `MDMWorker` never calls `init`.  `StoredSurvives` therefore excepts `early`.
* `OfflineQueue.kt:87` says that without a state report the least important *or
  oldest* item goes, "que estaria no final da queue".  The list is sorted by age, so
  at its end is the newest: a result that has just come gives way to the next one.
  For the same reason the test for state reports above it changes nothing: the
  newest state report is always the last of the list (`VictimIsLast`).
* `websockets.py:255`: the offline write and broadcast of an old connection come
  after the online ones of the new; database and dashboards may stay wrong until
  the next lazy synchronisation, the dashboards until the next change.
* `websocket_routes.py:120` and the use of `utcnow` in `websockets.py`: missing
  imports.  As shipped no device connects over the WebSocket.
* `policy_routes.py:208`: a restart between the commit of the new version and
  the trigger leaves a blocked device blocked under a policy it never tried.
  A result of the old version that is handled after the trigger read the row
  blocks the device again with the list and the count already reset.  Both are why
  `BlockHasCause` speaks of the time before the first update.
* Timestamps of the hourly limit are memory: a restart allows a second ten
  (`backend/README.md:103`).
* `drift_detector.py:244`: on the blocked path the session is closed without a
  commit and the device's report is lost.
* The shipped agent sends no `state_report` and no `cmd_result` and answers
  `apply_*` as unknown, over the HTTP ack, which never reaches
  `handle_subcommand_result`.  So as shipped the watchdog enforces once an
  hour for ever and nothing blocks; `StateReporter` reports to
  `/devices/{id}/status` with a hash that equals no `policy_hash`.

Enrollment:

* `mdm_service.py:221` ("Commit atômico de Device + Policy") and
  `backend/README.md:70` ("Enrollment atômico"): the device is committed by
  `update_device` or `create_device` before its policy.  A failure in between
  leaves a new key with the old policy or none; `PolicyFollowsKey` names what may
  have come between.
* `redis_service.py:113`: reading the token and marking it are not one step, so two
  requests may both use a single-use token.  `TokenBudget` therefore excepts
  requests that raced.  A failed enrolment has used its token up.
* As shipped nothing enrols: `mdm_service.py:135` uses `metadata`, a name nothing
  binds there, and `sync_policy` calls `RedisService.get`, which does not exist.
* `update_profile` marks the devices of the profile but never merges their
  `device_policies` row again, so a sync delivers the old configuration.

Policies:

* `policy_engine.py:122` calls the effective hash shielded; it covers the *largest*
  version (`drift_detector.py:144`), so a new version of a policy that is not the
  largest leaves the desired hash as it was.
* `policy_routes.py:188` ("Atomic Version Bump (Anti-Race Condition)"): the increment
  is atomic, but the later commit writes the version it read again.  Two more
  updates in between, and one version names two contents; `VersionNamesContent`
  is stated of fewer.
* The drift detector merges linked and assigned policies only; enrolment and the
  preview also know global policies and the profile's static fields.
* Policies of equal scope and priority are merged in the order of the links, the
  assigned ones last; among those assigned, the query leaves the order to the
  database.  Assigning or unassigning one does not unblock a device.
* `models/policy.py:24` has `kiosk_enabled` default to true while the system's
  defaults have the kiosk off, so the preview of a profile that says nothing shows a
  kiosk that no drift detection will ask for.
* A change of a profile's `policy_ids` asks for no evaluation.

RBAC:

* `rbac_service.py:47` ("Idempotente - pode ser executado múltiplas vezes com
  segurança"): `create_role` accepts the type of a system role; `get_by_type` then
  finds two, and every later start fails to seed and undoes the synchronisation of
  the default administrator with it.
* On an empty database seeding fails too: `role.permissions = ...` on a flushed role
  is a lazy load, which an async session refuses.  There is no administrator
  before `create_admin.py` has run, and the roles it makes have no permissions,
  which no later start adds.
* `rbac_service.py:188` reads `super_admins.users`, another lazy load: revoking a
  SUPER_ADMIN always fails.  Were the relation loaded, two revocations at once
  could each leave the other's user as the last: the check and the removal are
  two steps (`LazyLoads = TRUE` violates `SomebodyIsSuper`).
* `delete_audit_log` takes the number of an entry (`rbac_routes.py:603`), and entries
  have UUIDs (`models/audit_log.py:44`): a UUID in the path is refused, a number
  is no entry's.  Nothing is ever deleted, so the log is append-only as
  `audit_repo.py:4` says, though not because nobody may delete.
* Seeding leaves roles and who has them alone when repeated, but every start also
  resets the password and the flags of the default account (`main.py:63`).
* Updating and deleting a role, adding and removing a permission are not logged at
  all; the other changes are committed before their entry.
* SUPER_ADMIN's definition has neither `roles:assign` nor `roles:revoke`.

Android Management API:

* `amapi_operation_poller.py:7` gives the life of a command as DISPATCHED, then
  EXECUTED or FAILED.  The watchdog of `main.py` knows no difference: after 30
  seconds it puts the command back to PENDING, where nothing of the bridge takes
  it up, or, at the end of its retries, to FAILED.  The poller's limits of 3
  minutes and 24 hours are out of reach unless the backend was down.
* Because the watchdog's copies outlive its locks, an EXECUTED the poller has
  written in between becomes PENDING again.
* A command Google has accepted and whose answer is lost is recorded FAILED; one
  whose request dies before the commit stays PENDING, with no `operation_id`.
* A synchronisation that listed the device before its removal inserts it again, and
  none ever deletes one.  After a change of enterprise a removal meets 404, which
  counts as success, while the device is managed elsewhere.
* `amapi_operation_poller.py:90` ("one bad command doesn't block others"): a row
  deleted meanwhile fails the flush, and nothing rolls the session back, so the
  rest of the cycle fails with it.
* EXECUTED is the last status the poller writes: nothing moves the command to ACKED.

## 7. What is not modelled

* Time, except as a choice: a timeout has passed or not, a minute has changed, an
  hour's timestamp has left the window.
* The content of commands and configurations, formatting, logging, translation
  and layout.
* Several devices at once: no state that these modules follow is shared between
  devices except the watchdog's batch, whose rows behave alike.
* The limit of one wipe/reboot in the dispatcher (no caller reaches it).
* Kiosk commands and the default policy of the bridge (patches of a policy at
  Google), its mock devices, and the poller's soft alert.
* Creation, passwords and activity of accounts, and the entries of denied requests
  in the audit log.  `delete_audit_log`, which finds no entry (see 6).
* Several server processes: the deployment starts one, and locks and presence are
  in its memory.
* The components with status `not_modelled` in `PROJECT.json`, each with its reason.

## 8. Plan

Done: command engine with its promise; offline queue with the store it implements;
agent commands; presence; admission; compliance; enrollment; policies and their
merge; RBAC; the bridge; the proofs above, which state every safety property of
the runs except the two about what the merge computes.

To come:

1. `AgentLink` - `MDMForegroundService`'s socket, its reconnect job and its circuit
   breaker: while the service lives and the network returns, some connection
   attempt comes.
2. `AgentState` - `MDMStateMachine`'s two writes (state, checksum) and recovery.
3. A composition of `CommandQueue` and `CommandHandler`, in which the marks meet the
   retries: how often can one command take effect.

# Tandem in TLA+

Models, model-checking runs and machine-checked proofs for *tandem*, the system
in this repository that lets the members of a household delegate Things todos to
each other: a hub with a ledger of transfers, and a spoke next to each member's
Things account.

* `hub/` is 1,097 lines of Python, `spoke/` 1,108; everything else is
  documentation, tests and deployment.
* Every definition of a module is translated from the source; `PROJECT.json`
  maps each one to the lines it stands for.

## 1. The system

A member tags a todo with the trigger tag of another member. The sender's spoke
pushes it to the hub as a *transfer*; the hub queues a *create* delivery; the
recipient's spoke leases it, writes a copy into the recipient's account,
correlates the copy's uuid and acks with it. The sender's spoke then sees the
transfer applied, swaps the trigger tag for the delegated tag and completes the
sender's own todo (decision D2 of DESIGN.md). When somebody ends either copy, a
spoke reports the terminal state and the hub queues an *echo* (complete or
cancel) to the other party.

| Component | State it keeps | Operations | What makes it correct |
|---|---|---|---|
| Delivery ledger, `hub/ledger.py` | tables `transfers`, `deliveries` | `push_transfer`, `lease_deliveries`, `ack_delivery`, `nack_delivery`, `watchlist`, `observe` | no transfer and no terminal state is lost; echoes carry the state that won, to the party that did not report it, never before the copy; what is settled stays settled |
| Push primitive, `hub/ledger.py`, `hub/api.py`, `hub/server.py` | `_delivery_gen`, parked threads | `wait_for_delivery`, `_signal_delivery`, held long poll, gateway loop | no lost wake-up stops a delivery |
| Spoke core, `spoke/core.py` | local SQLite: `sent_cache`, `journal`, `retagged`, `observed`; in memory: the leased batch, the fetched watchlist | `_outbound`, `_inbound`, `_apply_create`, `_correlate`, `_apply_terminal`, `_observe_and_retag`, `_retag_sender_copy` | at most one copy; the copy mapped is the copy made; the trigger tag stays until the copy is confirmed; only people's ends are reported |
| Queue writer, `spoke/writer_queue.py` | none; operations in the queue service | `create`, `set_terminal`, `set_tags_and_terminal`, `_submit_and_wait` | returns only when applied; a create is performed once per delivery |
| Local writer, `spoke/writer_local.py` | none; URLs that Things has not performed | the same, `_open_json`, `_verify` | true only when applied, and then for good |
| Mirror reader, `spoke/things_db.py` | none (reads a copy of the account) | `outbound_candidates`, `status`, `tags_of`, `correlate`, `refresh` | lags, never invents |
| Snapshot script, `deploy/*/things-mirror.zsh` | the mirror and the marker file | one run: stat, copy, rename, mark | skips a copy only when the mirror is the database; catches up |
| Drivers, `spoke/main.py`, `hub/server.py` | timers | one loop (LAN spoke) or two threads (gateway) | phases go on after any exception |
| Hub clients, `hub/direct.py`, `spoke/hub_http.py` | none | one per endpoint | a call that raised may have taken effect |
| Members and devices, `hub/ledger.py`, `hub/server.py`, `hub/api.py` | tables `tenants`, `members`, `devices`; the specification and token files a start has read | `create_*`, `revoke_device`, `authenticate`, `ensure_gateway_device`, `bootstrap` | a start makes the tables agree with the specification and is idempotent; a revoked device stays revoked; tenants are separate |
| Routing, events, health, `hub/api.py`, `hub/ledger.py` | table `events` | - | - |

Interaction: spokes call the hub (HTTP or direct calls); they share no state with
each other. The hub never calls a spoke; it wakes parked readers. Spokes and
people share the Things accounts. Every ledger operation is one transaction
under one lock, so operations are atomic and the hard behaviour is *between*
them:

* leases that expire while their holder still works, so that two holders ack;
* watchlists, mirrors and generations that were read before something changed;
* calls whose effect is known to only one side, and writes that are performed
  after their writer has given up on them;
* a spoke that dies between journaling, writing, correlating and acking;
* the two threads of the gateway;
* failing deliveries that are retried for ever;
* a snapshot script that its own readers kill, between any two of its steps;
* a bootstrap that dies between two statements and starts on other files.

The `hazards` of `PROJECT.json` list these at the lines where they bite, with the
properties that cover each.

## 2. Modules

| Module | Models | Composes |
|---|---|---|
| `TransferLifecycle` | abstract specification: what one delegation promises | - |
| `TandemLedger` | `hub/ledger.py` | implements `TransferLifecycle` |
| `TandemLedgerLive` | the ledger with clients that keep going, and deliveries that never succeed | `TandemLedger` |
| `TandemLedgerProofs` | theorems about `TandemLedger` | `TandemLedger` |
| `LifecycleProofs` | `TandemLedger` implements `TransferLifecycle` | `TandemLedgerProofs` |
| `DeliveryPush` | the condition variable, the long poll and the gateway's inbound loop | `TandemLedger` |
| `DeliveryPushProofs` | theorems about `DeliveryPush` | `DeliveryPush`, `TandemLedgerProofs` |
| `Tandem` | spokes, accounts, people and the ledger | `TandemLedger` |
| `TandemLive` | the same with spokes that keep running | `Tandem` |
| `TandemQueue` | the whole system with the gateway's queue, late operations, restarts and lost state databases | `Tandem` |
| `TandemProofs` | the invariant of the whole system, and what follows from it | `Tandem`, `LifecycleProofs` |
| `TandemCopiesProofs` | theorems about copies, and about whose doing a report is | `TandemProofs` |
| `TandemQueueProofs` | theorems about `TandemQueue` | `TandemQueue`, `TandemCopiesProofs` |
| `ThingsMirror` | the snapshot script and the reader's refresh | - |
| `LocalWriter` | a Mac's asynchronous, verified writes on one delegated todo | `ThingsMirror` |
| `LocalWriterProofs` | theorems about `LocalWriter` and `ThingsMirror` | `LocalWriter` |
| `Provisioning` | bootstrap, admin requests, the start of the gateway's worker | - |
| `ProvisioningProofs` | theorems about `Provisioning` | `Provisioning` |
| `MC*` | instances for TLC | |

Three views of the same writes. `Tandem` orders a copy, which Things makes then or
later; it performs a completion or a retag at once, fails it, or performs it and
reports a failure, which is sound for writes that are verified before they are
believed. `TandemQueue` and `LocalWriter` open this up into what the queue writer and
the local writer do, the one in the whole system, the other around one todo, where
the mirror, the tags and the vocabulary matter.

### TandemLedger

`transfers` and `deliveries` are the two tables, as functions from the natural
keys that their UNIQUE constraints give: a transfer is named by its sender and
`(src_uuid, rev)`, a delivery by `(transfer, kind, to_member)`. An absent row is
an explicit value. Of a delivery row the model keeps `state`, whether its lease
is `live`, whether it was ever `handed` out (`attempts > 0`) and `at`, its rank
by `created_at`; `clock` counts inserts. `watched` accumulates what each member
was ever sent by `watchlist`, because a client acts on its list any time later;
so `SetTerminal` and `UpgradeTerminal` are enabled for any stale list.

| Action | Code |
|---|---|
| `PushTransfer` | `push_transfer`, the branch that inserts (the deduped branch changes nothing) |
| `LeaseDeliveries` | `lease_deliveries`, with the ordering guard in `Leasable` and the order and limit in `Batch` |
| `LeaseExpires` | time passing `lease_expires_at`; the row keeps state `leased`, as in the code |
| `AckCreate`, `AckTerminal` | the two branches of `ack_delivery` |
| `NackDelivery` | `nack_delivery` |
| `Watch` | `watchlist` |
| `SetTerminal`, `UpgradeTerminal` | the first report and the upgrade of `observe`, both with `_queue_echo` (`QueueEcho`) |

### DeliveryPush

The handlers commit and then signal in a second step; `clock - gen` handlers are
between the two. `reader` says where the inbound thread of each member is. A
member of `Gateway` is served by the in-process loop, which parks and then
leases; another by the long poll, which leases and then parks. Time-outs are
possible and not fair, so that one behaviour specification shows what signals
alone achieve; the property that needs time-outs has them as its premise
(`TimeOutsFire`).

### Tandem

`todo` are the sender's todos (status and tag), `copies` the recipient's copies,
in the order of creation. `sent`, `journal`, `retagged` and `observed` are the
four tables of the spoke's state database and survive `Crash`; `inbound` (the
batch and the place in `_apply_create` or `_apply_terminal`) and `view` (the rest
of the watchlist) do not. A LAN spoke's two phases exclude each other
(`InboundMayRun`, `LocalMayRun`); a member of `Gateway` runs them concurrently.

| Action | Code |
|---|---|
| `Outbound` | one candidate of `_outbound` |
| `Lease` | the poll of `_inbound` |
| `Intend`, `Fire`, `Reack`, `Recorrelate`, `Correlate`, `CorrelateTimesOut`, `AckCopy` | the steps of `_apply_create` and `_correlate` between which a process may die or another thread may run |
| `ApplyTerminal`, `AckEcho` | `_apply_terminal` |
| `GetWatch`, `Report`, `Retag`, `PassOver` | `_observe_and_retag`, one watchlist entry at a time |
| `ThingsMakes` | Things performs a create that it was told of (external) |
| `Crash`, `Expire` | a restart of the process, a lease that ends |
| `ActOnTodo`, `ActOnCopy` | people (external) |

`Faults` selects what may go wrong: `crash`; `request` and `reply`, a call that
fails before or after its effect; `write` and `unverified`, a write to Things
that fails without effect, or takes effect and is reported as failed; `lag`, the
mirror being behind when a status is read or a copy is looked for; `async` and
`late`, below. A mirror so far behind that the local writer's verification gives up
is `unverified`, and is kept apart because `ReportsArePeoples` holds under the one
and not under the other; `LocalWriter` says exactly when.

`writer_local.create` returns when `open` has, and verifies nothing; Things makes the
copy afterwards. A copy has its number from the moment that Things is told, and is
`coming` until it is made (`async`); nobody sees or finds it before. Of the time
window of `correlate` the model keeps which copies are older than it (`aged`,
`early`). A search that times out took 240 seconds, and the window of a later create
reaches back 120. So of the copies in the account only those that were made in the
last 120 seconds of the search (`late` of `inbound`) are still in such a window.
With `async` alone a copy is made in the first 120 seconds of the search for it;
with `late` also in the last 120, after it, or never, and before or after any other
todo's create. Nothing in the code bounds this time. Things makes copies in the
order in which it was told: one that was overtaken is never made.

`acted` is a history variable: on which side of which transfer a person acted.

### TandemQueue

A member of `Gateway` writes by posting an operation to a queue and polling its
record. `ops` is the state of every operation, named by what its idempotency key
says: the delivery for a create, the todo for a completion; a retag has no key
and every try is an operation of its own. The applier (external) performs an
operation any time after it was posted, in any order, or fails it; whether a
failed operation is tried again when its key is posted again is open, because
nothing in the repository says it. The inbound thread waits at the place "wait",
the local thread in `waiting`. A member with the URL scheme writes as in `Tandem`,
and the applier's creates are as late as its own. `forgot` counts the state databases
that each member lost, at most `Losses` in all. A restart that keeps the database
(`Restart`) is `Crash` of `Tandem` for a spoke whose threads may also poll the queue.

| Action | Code |
|---|---|
| `Submit`, `SubmitRetag` | the post in `_submit_and_wait`, which may raise after the queue received it |
| `PollReturns`, `RetagReturns` | a record that says applied or verified |
| `PollRaises`, `RetagRaises` | a record that says failed, a poll that raises, or 180 seconds |
| `Perform` | the applier (external) |
| `Restart`, `Forget` | a spoke is started again, with its state database or on an empty one |
| `TimePasses` | the window of `correlate` passes over the copies that are there |

### ThingsMirror and LocalWriter

`account` is the todo as Things has it, `mirror` the snapshot that readers see,
`agent` the run of the script in progress and the copy it holds. A stat never
comes back and is only compared with the present one, so of the stats that are
kept the model keeps whether they are the database's: `marked` for the marker,
`cur` for the run. `blurred` is a history variable: the last change left a stat as
it was.

`LocalWriter` is what happens on the sender's Mac to one delegated todo after its
create was acked. `opened` are the URLs that Things was handed and has not
performed, `vocabulary` the tags it knows (a tag it does not know is dropped),
`spoke` the place of the one thread, `transfer` what the hub thinks, `retagged`
the spoke's table. `acted` and `gaveUp` are history variables.

| Action | Code |
|---|---|
| `AgentStarts`, `AgentCopies`, `AgentFails`, `AgentRenames`, `AgentMarks` | the statements of `things-mirror.zsh` between which it may be killed |
| `Refresh` | `MirrorReader.refresh`, which kills the run in progress |
| `GetWatch`, `Report`, `GoOn` | one watchlist entry of `_observe_and_retag` |
| `RetagSenderCopy`, `ApplyTerminal` | the two writes, with `_open_json` (`Open`) |
| `VerifySucceeds`, `VerifyGoesOn`, `VerifyGivesUp` | `_verify`; giving up is also what a process that dies leaves |
| `PutTag`, `EndTodo`, `Perform`, `Drop`, `Change` | people and Things (external) |
| `RecipientEnds` | the other party's end, as this spoke sees it |

### Provisioning

`tenants`, `members`, `admins` and `devices` are the tables; a device's row keeps
its number, and rows are found in the order of insertion. A token and its hash are
not told apart. `hub` is where the process is and which specification and token
files this start has read: every start may find other contents, because only the
operator writes them. `calls` are the admins whose request was authenticated and
has not been carried out.

| Action | Code |
|---|---|
| `StartHub`, `EnsureTenant`, `EnsureMember`, `MembersDone`, `SkipDevice`, `EnsureDevice`, `BootFails`, `Serve` | `main` and `bootstrap`, one statement with a commit of its own at a time |
| `Die` | a crash or a restart at any point |
| `GatewayStarts` | `run_gateway_worker` up to its loops, with `ensure_gateway_device` |
| `Authenticate` | `_principal`, `authenticate` |
| `CreateTenant`, `CreateMember`, `CreateDevice`, `RevokeDevice`, `NothingToDo` | the admin routes of `_post`, the last for every answer that changes nothing |

### Slips

A definition commented "Slip" is not part of the model. It is a definition next
to it changed by one plausible mistake (a dropped guard, a forgotten test, a
swapped order); `PROJECT.json` lists, for every property, a slip that breaks it.

## 3. What the runs check

Bounds are in the configurations. Members: bradley and jill. A transfer involves
two members, a third adds only independent queues; two transfers are used where
transfers interact (one from each member in `ledger`, two from one sender in
`ledger_live` and `twins`).

| Run | Instance and bounds | Properties | States |
|---|---|---|---|
| `ledger` | `MCTandemLedger`: a todo of each member, two uuids to ack with, limit 10 | `TypeOK NoLoss EchoFollowsTerminal EchoAfterCopy TerminalNotLost DstSetOnce SettledIsFinal ImplementsLifecycle` | 128,929 |
| `ledger_live` | `MCTandemLedgerLive`: two todos, one of which may fail for ever, limit 2 | `CreateSettled TerminalResolved` | 4,992 |
| `push` | `MCDeliveryPush`: one delegation, bradley in the hub, jill polling | `PushTypeOK FreshIsLeased ParkedReaderIsWoken` | 29,344 |
| `tandem` | `MCTandem`: one todo, all eight faults, all three acts, the gateway's two threads | `NoDup TagIsRetryQueue BothSidesClosed NothingLeftOver` | 24,368 |
| `twins` | `MCTandem`: two todos with one title, lag and async; people complete | `DistinctCopies CopyIsOwn` | 334,026 |
| `live` | `MCTandemLive`: one todo, one loop per spoke, request, reply, lag, async, late; people complete or cancel | `ReportsArePeoples Delivered EveryEndEchoes` | 6,711 |
| `queue` | `MCTandemQueue`: a todo of either member, bradley's writes through the queue, operations that fail or are late, late copies, restarts while a thread polls, one lost database; people trash | `QueueTypeOK DuplicateNeedsAmnesia BothSidesClosed DeliveredOrOutOfSight EchoLandsOrFailed` | 63,200 |
| `local` | `MCLocalWriter`: two URLs at a time, Things with and without the delegated tag; a person tags and cancels | `LocalTypeOK SkipIsSafe TrueIsTrue SelfReportNeedsGivingUp MirrorCatchesUp WatchEntryEnds` | 52,944 |
| `provisioning` | `MCProvisioning`: three specifications in turn (a device renamed, another tenant), two token files with two tokens, seven rows, one admin request | `ProvisioningTypeOK Provisioned RevokedForever TenantsAreSeparate Idempotent HubComesUp GatewayComesUp` | 358,899 |

What they show: the ledger keeps its promises in every interleaving of its
clients, late and repeated ones included, and implements the life cycle of
`TransferLifecycle`; no missed signal stops a delivery; through all faults a todo
has at most one copy, keeps its tag until the copy is known, and a resolved
transfer has both sides closed and nothing left to deliver; two transfers never
share a copy, and each has its own, although the mirror lags and Things takes up to
two minutes to make one; and with spokes that keep running every delegation arrives and
every end is told. With a queue that performs operations late this is still so, a second
copy needs a lost database of a recipient without a queue, and what still hangs is
named. On a Mac, what a
writer reports as applied is applied and stays so, although it looks at a copy of
the database that is made behind its back, and every watch entry and echo is done
with in the end. Every start of the hub leaves tables that agree with what was
deployed, through crashes, rotations, revocations and admins.

One todo reaches every combination of the places of both spokes, the states of
its three deliveries and the acts on both sides. The number of copies is one more
than the number of todos (and of lost databases in `queue`), so that a copy too many
is possible and `NoDup` and `DuplicateNeedsAmnesia` could fail. In `queue` one database is lost in all; that each copy
beyond the first needs a loss of its own is left to the proof of
`DuplicatesNeedAmnesia`. Spokes are restarted as often as one likes, but only while a
thread polls the queue, a place that `Tandem` does not have (`restart` of
`QueueFaults`); with `crash` in `Faults` they are restarted anywhere, and the theorems
cover that. (The three invariants were also checked with `crash` and two losses:
912,229 states.) No counter needs a bound: rows are inserted at most once, except for
the cancel that an upgrade deletes, and an upgrade happens once.

Two URLs at a time are one late one and the one that is being verified.
`provisioning` has one request in a behaviour, next to any number of starts. A
request that outlives the revocation of its device takes two in progress, because a
restart ends them and the bootstrap revokes nothing, so that interleaving is not in
the run: `TenantsStaySeparate` and `RevocationLasts` prove it, for any number of
requests, rows and tokens. The proofs about the local writer cover any number of
URLs. `queue` delegates in one direction at a time, once with the gateway as the sender
and once as the recipient (`QueueInit`, `Delegated`); a retag that may fail once (`Retries`) is one that is
late or lost and one that succeeds.

The runs set `CHECK_DEADLOCK FALSE`: a system in which every delegation is
settled and everybody has acted may stop.

### Disagreements

Each of these runs checks one property that a comment, a test or a document
states and the code violates; `findings` quotes the lines.

| Run | Property | What happens |
|---|---|---|
| `lost_create` | `Delivered` | a create whose write failed without effect is never fired again: its open journal row makes the spoke correlate for ever |
| `threads` | `ReportsArePeoples` | without any fault, the gateway's inbound thread completes the sender's todo under an echo while its local thread walks a watchlist fetched before, and reports that completion as the sender's |
| `dead_todo` | `NoDeadTodo` | a create that was fired and nacked is skipped by a cancel; its copy stays open |

Three more have no run of their own. The head comment of `spoke/core.py` (line 17)
calls the correlation unambiguous; for two todos of one title it is not when a spoke
dies between the intent of a create and its write, or when Things makes a copy after
the search for it is over or nearly so: `CopyIsOwn` fails in `twins` with `crash`, or
with `late`, added to `Faults`. `_apply_terminal` completes the recipient's
copy also when the sender cancelled, where `tests/test_invariants.py:167` expects
the copy to be as the ledger has it; the code has no other branch. And a retag
that took effect but was not watched to its end is reported as the sender's
completion, which the comment at `spoke/core.py:394` means to exclude;
`SelfReportNeedsGivingUp` shows that this is the only way to such a report on a
Mac, and its proof that no number of late writes adds another.

### Where the passing properties end

Each of these marks the limit of what a passing run shows. Most are an exception
that the property names, or one changed value of a constant away:

* `CreateSettled` fails with `Limit = 1` in `ledger_live`: a nacked delivery keeps
  its `created_at`, so failing deliveries that fill a batch are leased first on
  every poll and starve the ones behind them.
* `NothingLeftOver` fails of the ledger alone (`MCTandemLedger.cfg`): when a cancel
  skipped the create and another device of the sender then reports completed, the
  upgrade queues an echo to a recipient without a copy. With one spoke per member
  (`tandem`) this does not happen.
* `CopyIsOwn` fails for todos of one title with any of the faults `crash`, `late` and
  `unverified` added to `twins`: each leaves a search for a copy that is not there yet
  or never comes, or a copy that is not looked for. `DistinctCopies` still holds then
  (theorem `CopiesAreDistinct`).
* `live` has a mirror that lags by less than a verification waits. One that lags by
  more is the fault `unverified`, with which `ReportsArePeoples` fails: the spoke does
  not know of its own write. `Delivered` assumes that Things makes a copy some time
  (`TandemFairness`); one that is never made is looked for for ever.
* `EveryEndEchoes` has an exception for a sender's end that the mirror did not
  show before the retag. DESIGN.md, section 3.2, accepts the loss of a cancel
  after the retag; this is one before it.
* `ParkedReaderIsWoken` speaks of deliveries committed while the reader was
  parked. One that is committed between a long poll's empty lease and its wait,
  or while the gateway's loop is applying a batch, has spent its signal when the
  reader parks, and waits for the time-out (`FreshIsLeased`).
* `DeliveredOrOutOfSight`: a spoke that lost its journal notes a new intent whose
  window begins after the copy was made. The queue makes no second copy and the
  first is never found: the create is nacked for ever. A copy in the trash hangs in
  the same way.
* `EchoLandsOrFailed`: `set_terminal` has one key per todo for all time. If the
  queue answers a repeated key with the old failure, the end never lands.
* With a lost journal and two todos of one title `DistinctCopies` does not hold;
  without a queue the second copy that `DuplicateNeedsAmnesia` allows is made.
* `SkipIsSafe` and `MirrorCatchesUp` except a change in the second, and of the
  size, of the one that was stat'd. `MirrorCatchesUp` also needs a copy that
  finishes between two kicks; a rename within a directory is assumed not to fail.
* `TrueIsTrue` is about the tags a retag is for. People put an unrelated tag on the
  todo and end it; somebody who opens it again or takes the delegated tag off undoes
  the retag. A tag that a person put on after the snapshot is lost when the retag
  sets the list.
* `HubComesUp` has the exception of a token that the bootstrap is about to write
  and that is another device's: a device that is renamed and keeps its token file, or
  two devices whose files are swapped, keep the hub from starting until the operator
  changes the files. A device without a member or a token file is skipped and is no
  exception.
* `TenantsAreSeparate` says whose doing a change of a tenant is: a request that one of
  its own admins makes and that ends with the change, or the step in which its own
  gateway's worker starts. What an admin may do in their own tenant is not limited.
* `Provisioned` assumes that a specification lists a device once
  (`SpecsAssumption`): with two tokens for one name the last one stays.
* Nothing is promised of what a start does *not* write, and the code writes no
  more: flags of a member that exists are not updated, devices that leave the
  specification stay active, and a device that was revoked but is still listed is
  provisioned again, as a new row.
* `GatewayComesUp` speaks of a member whose handle is found as given; the worker
  does not normalise `TANDEM_GATEWAY_MEMBER`, the table does, so a handle with a
  capital waits for ever.

### Fairness

* `TandemLedgerLive`: weak fairness of every member's lease and of the ack of
  every delivery outside `Poison`. Spokes poll on a timer and both drivers catch
  every exception (`spoke/main.py`, `hub/server.py`). Nacks, expiry, reports and
  pushes are unfair: nobody has to make them.
* `DeliveryPush`: weak fairness of the signal (the handler's next statement) and
  of the steps of each reader; that time-outs fire is a premise of `FreshIsLeased`
  only.
* `TandemLive`: weak fairness of the steps of both phases, because the loops run
  for ever; strong fairness of the success of a call that is tried again and
  again (a lease whose reply arrives, an ack, a push, a report, a verified write,
  a correlation). A network or mirror that fails every time would defeat any such
  protocol. People have no fairness. No run of `TandemLive` has `crash`: a spoke
  that always dies at the same place makes no progress.
  Things makes the copy that it was told to make (weak fairness of `ThingsMakes`).
* `TandemQueue`: the same, with strong fairness of a submission that is received,
  a poll that returns, and an ack that arrives or an operation that is applied
  (one condition, weaker than one for each). Nothing makes a failed operation be tried
  again. Its run restarts a spoke any number of times while it polls, and elsewhere
  only with the loss of its database.
* `ThingsMirror`: launchd starts the script every 5 seconds, which is weak fairness
  of its start and of the marker; a copy and a rename are strongly fair, because
  they may be killed again and again but not every time. `LocalWriter`: weak
  fairness of the spoke's one loop and of the 30 second limit, strong fairness of
  what is tried again and again (a URL that is received, that is performed, a
  report that arrives, a verification that looks when the mirror shows the
  result). `MirrorCatchesUp` has the premise that Things changes no more.
* `Provisioning`: weak fairness of the bootstrap (the service manager restarts the
  hub, `Restart=always`) and of the worker's loop. That the hub is not killed again
  and again is a premise of `HubComesUp`. Admins and `Die` are unfair.

## 4. What is proved

Each theorem is for all values of the constants that satisfy the named assumptions
of its module. Some constants are bounds that a guard of the specification reads:
`MaxDevices`, `MaxRequests`, `Retries`, `Losses`, `MaxOpen`. The theorems hold
for every value of them, and no proof uses one as a limit; in particular
`DuplicatesNeedAmnesia` counts the losses and does not rest on how many there may be.

### The ledger

`TandemLedgerProofs` proves, for any members, tenants, handles, todos, uuids and
batch limit, from the assumptions that `TandemLedger` names (senders and
receivers are members, handles are unique in a tenant, NULL is no value, the
limit is positive):

| Theorem | States |
|---|---|
| `Invariance` | `Spec => []IInv` |
| `TypeCorrect` | `Spec => []TypeOK` |
| `NoLossHolds` | `Spec => []NoLoss` |
| `EchoFollows` | `Spec => []EchoFollowsTerminal` |
| `EchoNotEarly` | `Spec => []EchoAfterCopy` |
| `TerminalKept` | `Spec => []TerminalNotLost` |
| `CopySetOnce` | `Spec => DstSetOnce` |
| `Settled` | `Spec => SettledIsFinal` |

None of the safety properties is inductive. That a late report cannot change a
settled transfer, for instance, needs to know that a resolved transfer with a
copy has its echo done (`EchoInv`), so that the upgrade of a delivered cancel is
refused and no second echo is queued; that in turn needs `EchoFollowsTerminal`,
to know which delivery that echo is; and that a recipient never reports on a
transfer without a copy needs `WatchInv`, about lists that were handed out
earlier. `IInv` is the conjunction of `TypeOK`, these parts (`TransferInv`,
`RowInv`, `CreateInv`, `EchoInv`, `WatchInv`) and three of the properties. One
lemma per operation (`InvPush`, `InvLease`, ..., `InvUpgrade`) shows that the
operation keeps it, with one step per conjunct that it can disturb; `QueueEcho`,
which both forms of `observe` share, has a lemma of its own. The action
properties follow from `IInv` and a lemma on what a step keeps (`StepKeeps`).

`LifecycleProofs` proves the refinement, `Spec => ImplementsLifecycle`
(`LedgerImplementsLifecycle`). The stage of a transfer is computed from its record
and the state of its create, so an operation is compared with the life cycle
transfer by transfer (`Same`, `Skips`, ...): at most one changes, the others keep
their stage, terminal state and echo. The invariant enters where an abstract step
has a condition that the code does not test: that only a transfer with a copy is
echoed, and that an upgrade is refused as soon as any echo is done.

### The push primitive

| Theorem | States |
|---|---|
| `PushIsClient` | `PushSpec => Spec` |
| `PushTypes` | `PushSpec => []PushTypeOK` |

Parking, waking and timing out are stutters of the ledger and every commit is one
of its operations, so the theorems above hold with these readers. `PushTypes` has
one thing in it that could go wrong: the generation never runs ahead of the
commits and no reader waits for a later one than there is.

### The whole system

For any members, todos, titles, gateways, faults and acts; from the ledger's
assumptions, that todos are keys, and that copies are numbered in the order of
creation and NULL is not a todo (`CopyAssumption`):

| Theorem | States |
|---|---|
| `SystemInvariance` | `TandemSpec => [](IInv /\ SpokeInv)` |
| `SystemIsClient`, `SystemImplementsLifecycle` | `TandemSpec => Spec`, `TandemSpec => ImplementsLifecycle` |
| `SystemTypes` | `TandemSpec => []TandemTypeOK` |
| `TagStaysRetryQueue` | `TandemSpec => []TagIsRetryQueue` |
| `BothSidesClose` | `TandemSpec => []BothSidesClosed` |
| `NothingIsLeftOver` | `TandemSpec => []NothingLeftOver` |
| `NoDuplicates` | `TandemSpec => []NoDup` |
| `CopiesAreDistinct` | `TandemSpec => []DistinctCopies` |
| `DistinctTitlesAreOwn` | `DistinctTitles => (TandemSpec => []CopyIsOwn)` |
| `OneAtATimeIsOwn` | `Orderly => (TandemSpec => []CopyIsOwn)` |
| `ReportsAreOfPeople` | `Alone /\ (DistinctTitles \/ Orderly) => (TandemSpec => []ReportsArePeoples)` |

The ledger's `IInv` and the spokes' `SpokeInv` are proved together: that a step of
a spoke is a step of the ledger (`SystemIsLedger`) needs to know that the spoke
acks with a uuid (`PlaceInv`), and what a spoke may do next is a fact about the
ledger. `SpokeInv` says which deliveries a spoke holds (`InboundInv`), what each
place in `_apply_create` and `_apply_terminal` implies (`PlaceInv`), that a
watchlist entry was sent and its `applied` is true for good (`ViewInv`), that
whoever is on record as the reporter has ended their own side (`ReporterInv`), and
that a sender who cancelled before there was a copy has a todo that stays cancelled
(`CancelInv`). The last one is what `NothingLeftOver` lacks in the ledger alone: the
upgrade that would queue an echo to nobody is never reported. Every action is shown
to do three things separately: what it makes of the ledger, of the accounts
(`AccountsKeep`: what has ended stays ended) and of the spokes' variables.

`CopiesInv` adds that a copy is made after its journal row and never while its spoke
is still at "fire" (`FiredInv`), that a journaled uuid is a copy which fits and which
no other row has (`MappedInv`), and that what the hub knows it has from the journal
(`DstInv`). `NoDup` needs no assumption on the faults.

`CopyIsOwn` needs one, and the model checker finds a counterexample without it. If
titles are distinct per sender, what fits is its own. If they are not, `Orderly` is
needed: no spoke dies, no write takes effect and is reported as failed, Things makes
no copy later than two minutes after it was told, and if a mirror lags, no write fails
and nobody trashes a copy. Each of the five (a crash, an unverified write, a late copy,
lag with trash, lag with failing writes) has a counterexample. Then (`OwnInv`), a copy
that is still to be made is being looked for and is the last one of its account, and no
search ends with a late one (`ComingInv`). With an up-to-date mirror, an unmapped copy
that nobody looks for is in the trash (`TrashInv`), so what is found is what was just
made. With a lagging one, an unmapped copy is being looked for or is older than the
window (`AgedInv`) and out of the window of every create fired later (`EarlyInv`); the
one just made has not been trashed and is among those found, so it is the oldest of
them. That Things is so quick is a premise on Things and not a promise of the code.

`ReportsArePeoples` is proved for spokes with one loop and without the faults
`crash` and `unverified`; each of the three breaks it (run `threads` for the gateway;
a spoke that dies, or whose writer raises, between completing the todo and
`mark_retagged`). `PeopleInv` says that whatever is not open was ended by a person, by
the retag or by an echo (`EndInv`), that an echo is held only while the local phase has
no list (`LoopInv`, `ToldInv`), and so that what ends while a list is walked over was
ended by a person or by the walk itself (`NewsInv`).

### The queue

| Theorem | States |
|---|---|
| `QueueInvariance` | `QueueSpec => [](IInv /\ SpokeInv /\ QueueInv)` |
| `QueueIsClient`, `QueueImplementsLifecycle` | `QueueSpec => Spec`, `QueueSpec => ImplementsLifecycle` |
| `QueueTypes` | `QueueSpec => []QueueTypeOK` |
| `QueueClosesBothSides` | `QueueSpec => []BothSidesClosed` |
| `DuplicatesNeedAmnesia` | `QueueSpec => []DuplicateNeedsAmnesia` |

A step is either one of `Tandem` that leaves the queue alone, whose lemmas are used
again, or one of the writer, the applier or a spoke that lost its database
(`DirectOrWriter`). `QueueInv` says that only what a transfer calls for was posted, and
by a member that writes through the queue (`CallsFor`), and that a completion which was
performed has ended its side, so that a record that says applied may be believed
(`OpInv`). `CountInv` bounds the number of copies of a todo, with the cardinalities of
`FiniteSetTheorems`: a recipient with a queue has one at most, and none before the one
operation that the key of its create names was performed; at any other the copies,
and one more as long as its spoke may still fire, are at most one more than the state
databases that it lost. A restart that keeps the database leaves both numbers alone.
`TandemInit` and `QueueInit` differ only in which todos are tagged (`SpokeInit` is
proved for any set).

### Provisioning

| Theorem | States |
|---|---|
| `ProvisioningTypes` | `Spec => []ProvisioningTypeOK` |
| `BootProvisions` | `Spec => []Provisioned` |
| `RevocationLasts` | `Spec => RevokedForever` |
| `TenantsStaySeparate` | `Spec => TenantsAreSeparate` |
| `StartIsIdempotent` | `Spec => Idempotent` |

From the assumptions that a token of the operator is not one of the hub's own and
that a specification lists a device once. The invariant `IInv` says, besides types
and where the process is, that rows fill the table from the front and that a token
which the operator wrote is on the *oldest* active row of its member and name
(`DevicesInv`); so the row that a later start finds is the one that has the token,
and no device that an admin creates under the same name comes before it. `Progress`
says that the devices the loop has passed have their tokens: a later device cannot
take one away, because it has another name and a free token. Three lemmas say what
a statement on the table does (`Insertion`, `Rotation`, `Revocation`), one lemma
per group of actions uses them.

### The mirror and the local writer

| Theorem | States |
|---|---|
| `LocalTypes` | `LocalSpec => []LocalTypeOK` |
| `SkipIsAlwaysSafe` | `LocalSpec => []SkipIsSafe` |
| `TrueStaysTrue` | `LocalSpec => []TrueIsTrue` |
| `SelfReportsNeedGivingUp` | `LocalSpec => []SelfReportNeedsGivingUp` |

The invariant has three parts. `MirrorInv`: a run in progress has no marker to rely
on, its copy is the account as long as the stat is current, and every snapshot
shows a todo that the account is `Before`'s future of: what has ended stays ended,
what is marked stays marked. So an old mirror can be wrong only about what has not
happened yet, and a verification that it passes is passed for good. `WriterInv`:
every URL that is still to be performed, and every one being verified, sets the
delegated tag and not the trigger, and that tag is on the account only if Things
knows it; so no late write undoes a marked todo. `ReportInv`: until the spoke has
opened its first URL nobody but a person can have ended the todo, and while it walks
the watchlist it has either opened none or given one up.

### Only model-checked

* Liveness under fairness (`CreateSettled`, `TerminalResolved`, `FreshIsLeased`,
  `ParkedReaderIsWoken`, `Delivered`, `EveryEndEchoes`, `DeliveredOrOutOfSight`,
  `EchoLandsOrFailed`, `MirrorCatchesUp`, `WatchEntryEnds`, `HubComesUp`,
  `GatewayComesUp`): the prover has neither ENABLED nor fairness.
* That the assumptions `Orderly` and `Alone` cannot be dropped: a counterexample is
  a behaviour of an instance.

Every other property of a passing run is stated by a theorem.

## 5. What is not modelled

* In the runs of the ledger and of the whole system members are constants. A sender
  without `can_receive` is never leased its echoes; the runs give everybody that
  flag. `Provisioning` leaves the flags out, apart from `can_admin`.
* The contents of a todo, apart from the title that `correlate` matches and the
  tags; the packed dates that the reader decodes.
* The queue service and the Things application, which are not in the repository:
  they are modelled from how the writers use them.
* The focus watchdog of the local writer: it moves windows and decides nothing
  about a todo.
* Two devices of one member, each with a journal of its own, in `Tandem` (in
  `TandemLedger` they are covered: any handed-out delivery may be acked).
* Clock skew between the machine that creates a copy and the spoke, beyond which
  copies the window of `correlate` leaves out.
* HTTP statuses and redirects of the hub client, the events table, health,
  installers, infrastructure: no state that a decision of the protocol reads.

## 6. Plan

Done: the ledger, the push primitive, the whole system, the queue writer, the
mirror and the local writer, provisioning; proofs of every safety property and
action property of the passing runs.

1. Proofs: `CopyIsOwn` and `DistinctCopies` of `TandemQueue` as long as no database is
   lost; what `Forget` leaves of them.
2. Two devices of one member in `Tandem`, the lease of 300 s against the 420 s
   that an apply may take.
3. `ThingsDate`: the packed dates, against a reference definition.

# A verification of FlowFuse

FlowFuse is a platform for running Node-RED: the *forge* application
(`forge/`, Node.js, Fastify and Sequelize) manages teams, hosted Node-RED
*instances* (called projects in the code), remote *devices*, snapshots and
pipelines, and talks to container drivers, an MQTT broker and Stripe. This
directory holds TLA+ modules that model its core, TLC configurations that check
them on small instances, and TLAPS proofs for every instance.

## The system

| Component | State it keeps | Operations | What is hard | What makes it correct |
|---|---|---|---|---|
| Instance lifecycle (`routes/api/projectActions.js`, `routes/api/project.js`, `ee/routes/ha`, `ee/routes/customHostnames`, `ee/lib/autoUpdateStacks`, `housekeeper/tasks/licenseCheck.js`) | `Project.state` in the database; caches of the transition, the launcher's last report and the deploy flag | start, stop, restart, suspend, rollback, restartStack, update, export, delete, deploy, import, scheduled tasks | every handler has its own copy of the row and awaits between any two steps; several reply before they are done; a start succeeds or fails after its handler has ended | a transition ends; row, container and bill agree; nothing runs uncounted |
| Container wrapper and drivers (`containers/`) | the containers | start, stop, remove, details, start/stop/restartFlows | failures between the row's update, the driver's and Stripe's | a failed start is undone |
| Live state publishing (`db/controllers/Project.js`, `comms/index.js`) | the state published last; a queue of publications per process | publishLiveState | cache accesses are awaited; several processes share the caches | clients end up with the current state |
| Billing: recounts (`ee/lib/billing`) | Stripe's quantities | a recount whenever an instance starts, stops or goes | a recount is a read and a later write to another service | the quantity is the number of live instances |
| Subscriptions, trials and team suspension (`ee/routes/billing`, `ee/lib/billing/trialTask.js`, `ee/lib/billing/Team.js`, `ee/db/models/Subscription.js`) | the subscription row, `Team.suspended`, subscriptions at Stripe | checkout, events from Stripe, trial task, manual billing, suspend, unsuspend | Stripe and the clock go on while a handler works; events about old subscriptions | the row follows Stripe; who pays runs, who does not is stopped |
| Device synchronisation (`comms/devices.js`, `db/controllers/Device.js`, `db/models/Device.js`, `routes/api/device*.js`) | owner, target snapshot and settings hash of a device | reports, update commands, changes of owner, target and settings | messages delayed, reordered, lost; copies of the row; hashes renewed by hooks | a device converges to its row |
| Commands that await a reply (`comms/devices.js`, `routes/api/deviceActions.js`) | `inFlightCommands` | send, reply, time out | replies late, repeated or lost | each command is settled once, each request ends |
| Device editor tunnel (`ee/lib/deviceEditor`, `ee/routes/deviceEditor`) | token and `editorConnected` of the row; tunnels by device, their sockets | enable, disable, connect, close, open an editor | events of old sockets; saves between them | row, tunnel and socket agree |
| Device groups (`ee/db/controllers/DeviceGroup.js`, `ee/routes/applicationDeviceGroups`) | group and target of each device, target of each group | membership, deploy, delete, a device leaving its application | decisions on what was read before a transaction | members run the group's snapshot and are of its application |
| Pipelines (`ee/db/controllers/Pipeline.js`, `ee/db/models/PipelineStage.js`, `lib/pipelineValidation.js`) | a linked list of stages and what they hold | add, change, delete a stage | concurrent edits of the list | the list is a chain; groups come last |
| Limits (`db/models/Team.js`, `licensing/`) | team types, counts | create checks | check and creation are separate | limits are kept |
| Tokens, sessions, nonces (`db/controllers/AccessToken.js`, `Session.js`, `lib/nonceStore.js`) | tokens and their expiry | issue, refresh, consume, expire | refresh and expiry racing | single use, no use after expiry |
| Membership and invitations (`db/controllers/Team.js`, `Invitation.js`) | members and their roles | add, change, remove, invite, accept | concurrent changes | a team keeps an owner |
| Housekeeper (`housekeeper/`) | votes of the forge processes | vote, run tasks | votes late or kept after a crash | a task runs in one process |
| Caches (`caches/`) | memory (LRU) or Redis maps | get, set, del | eviction; the same cache in several processes | — |

The remaining parts (permissions, broker ACLs, mail, audit log, storage API,
single sign-on, tables, GitOps, the expert and MCP services, and the Vue
frontend) are listed with the reason they are left out in `PROJECT.json` and
under *Not modelled* below.

The parts meet as follows. A request handler loads the `Project` row, sets the
transition through the project controller (which publishes it over MQTT), calls
the container wrapper, which saves the row, asks billing to recount the team and
calls the driver; the driver's promise, or the launcher's `update-state` call,
ends the transition. Scheduled tasks and webhooks run the same steps. A request
about a device changes its row and publishes an update command; the device's
next report is compared with the row and answered with another command if they
differ. Commands that need an answer carry correlation data, by which the reply
finds the promise that its handler awaits. Pipelines deploy to instances (an
operation of `InstanceLifecycle`) and to device groups, whose members' targets
they change.

## The modules

### `InstanceLifecycle`

One hosted instance on a platform with billing. In the code every handler is an
`async` function; control can move to another handler wherever it awaits, and a
handler that throws goes on in its `catch`. The module keeps this shape: a
handler is a *program*, the sequence of awaited steps its source takes, given
the state in the row when it was loaded (`StartProgram`, `SuspendProgram`,
`DeployProgram`, ...; one per route, task or webhook). `todo[r]` is what is left
of the program of slot `r`; one action per kind of step executes its head. A
step that throws replaces the rest by `Handler(op)`, what the source's `catch`
does; a start that has been replied to goes on with the continuation of the
driver's promise.

| Variable | Code |
|---|---|
| `row`, `copy` | `Project.state` in the database; in each handler's copy, loaded when it begins and again by `reload()` |
| `inflight`, `latest`, `deploying`, `published` | the four caches of `db/controllers/Project.js` |
| `box` | the driver's container (`containers/stub/index.js`) |
| `billed`, `subscribed`, `counted` | the instance is counted at Stripe; the subscription is active; the count a recount has read |
| `seen` | the container state in a launcher report or a `details` answer |
| `op`, `todo`, `served` | the operation of each slot, its remaining steps, operations so far |

`save()` is Sequelize's with the hook `afterSave` of `db/models/Project.js`
(`Save`): it writes the state only when the copy's value changes, does nothing
to a destroyed row, and publishes the live state as the copy now shows it. A recount is two steps
(`CountInstances`, then `AddProject` or `RemoveProject`), as the code awaits
Stripe in between. `Faults` lists what may go wrong outside the handlers: the
licence, a refused start, Stripe's read and its update, the launch, the other
driver calls, and database work.

Abstracted: which field an update changes, what a snapshot holds, audit
logging. A publication is a single step; `LiveStatePublish` refines that view.
The launcher's `safe` state behaves like `crashed` here. A new subscription
after a cancellation, and the creation of an instance, are not modelled.

### `LiveStatePublish`

The body of `publishLiveState`, one action per awaited cache access:
a handler changes a cache (`SetInflightState`, `ClearInflightState`,
`SetLatestState` then `ConfirmTransition`), joins the queue of its process
(`locks` is `publishLocks`), reads the transition, reads the latest report and
works the state out, compares it with the one published last, remembers it and
sends it. `Home` says which process a handler runs in; the caches are shared.
The handlers' copy of the row is fixed (`Row`), because stale copies are
`InstanceLifecycle`'s subject.

### `TeamBilling`

The subscription of one team with several instances. `row` is the
`Subscription` row (status, id, `trialEndsAt` as none, future or past),
`stripe` what Stripe keeps of each checkout session and the subscription it
becomes, `events` what Stripe has yet to report, `state` each instance's
`Project.state`, `suspended` the team's flag. One handler works at a time; it is
cut into steps (`handler`) where it calls Stripe or the clock matters, and
Stripe (`CompleteSession`, `StripeMoves`) and the clock (`TrialEnds`) move
between them. A subscription at Stripe may take a status that the row does not
track (`"unpaid"` stands for all of them): the handler logs it and the row keeps
its own (`Updated`). A recount works the quantity out (`Recount`) and charges it a step
later (`Charge`). `Sweep` stops one instance after the other, as a cancellation,
the trial task and `Team.suspend` do, each with its own choice of instances.
That Stripe refuses a quantity, which is only logged, is left to
`InstanceLifecycle` (fault `stripeUpdate`).

### `CommandReply` and `DeviceEditor`

`CommandReply` is an abstract specification: what `sendCommandAwaitReply`
promises its callers. `DeviceEditor` is the code: `inFlightCommands` (`monitor`),
messages under way in both directions (`commands`, `replies`), replies whose
device is being loaded before they are matched (`looking`), time-outs, and the
handlers that await them (`pc`, `cmd`, and `copy`, the row their preHandler
loaded). `Promise` instantiates the one with the state of the other, and the
property `KeepsPromise` is that specification, its fairness included.

`DeviceEditor` also has the editor tunnel: `current` is the manager's tunnel of
the device, `socketOf` its socket, `conn` what the handler of each websocket
request holds. `AcceptSocket` is the part of a websocket request before the row
is saved, `StartTunnel` the part after it; `HandleClose` and `SaveDisconnected`
are the close handler and the save it does not await. The history variable
`irregular` records that the device reconnected before the close of its last
socket was handled, or that a socket was lost in the midst of a request.

### `DeviceSync`

One device that has to become what its row says. `row` holds owner, target and
settings hash; a request handler holds the row as loaded and as changed, and a
save writes what differs. What a device is served, and what is hashed, is an
*env* (`Env`): the version of the device's own settings, with the application
and the target snapshot that `insertPlatformSpecificEnvVars` adds to them. The
hash is abstracted to what it covers (`HashOf(env)`), or to a fresh value where a
hook makes it random (`RandomHash`). A handler also holds the association
`targetSnapshot` as it was loaded (`assoc`), which is what the hash is worked out
from; only a copy that has a target and no association is loaded again
(`RenewHash`). The version is the only part of an env that `HashCoversSettings`
speaks of, because the rest does go stale: a change of owner renews no hash at
all (`db/models/Device.js:127`), and a device that is unassigned keeps the hash of
its old target, for `setTargetSnapshot(null)` leaves the association that is
hashed as it was (`db/models/Device.js:336`). `reports`, `handling` and `commands` are messages under way and
reports whose handler awaits; `dev` is the device, whose agent is not part of
the repository: it takes over what a command says and fetches the rest from
`deviceLive.js`, in steps. An agent older than 1.11.0 gets other commands.

### `DeviceGroups`

Devices, their application, group and target; groups and their target. A
transaction is one action, and what it was decided on is read in earlier ones
(`ReadMembers`, `ValidateDeviceList`, `ReadDeployMembers`). `Alone` names the
operations that run with no other at work.

### `PipelineStages`

Stages by their ids, with the link (`next`) and what each holds (`content`).
`Ordered` is `sortStages`, worked out from the last stage back; requests read,
decide, and write in separate steps. A stage is added behind any stage the
request names as `source`, or behind none, for the route asks for neither more.
The history variable `overlap` says whether requests have overlapped, and whether
two that change the list have; `strayed` whether a stage was ever added anywhere
but behind the last one. The frontend always adds there
(`frontend/src/components/pipelines/PipelineRow.vue:198`); the API, and the
repository's tests of it, do not.

### The MC modules

`MCInstanceLifecycle`, `MCDeviceEditor`, `MCDeviceGroups` and
`MCPipelineStages` give TLC the symmetry of slots, devices and the like;
`MCLiveStatePublish` gives it the two assignments of handlers to processes.
Runs with a temporal property of fairness use no symmetry.

### The proof modules

`InstanceLifecycleProofs`, `InstanceSerialProofs`, `LiveStatePublishProofs`,
`DeviceEditorProofs`, `DeviceSyncProofs`, `DeviceGroupsProofs`,
`PipelineStagesProofs` and `TeamBillingProofs` hold the theorems below and the
lemmas they rest on.

## What is checked

Runs that pass:

| Run | Instance | Properties |
|---|---|---|
| `lifecycle_serial` | one slot, 5 operations out of 16, failing launches | `TypeOK`; `ContainerMatchesRow`; `BillingMatchesRow`; `TransitionsEnd` |
| `lifecycle_serial_faults` | one slot, 4 operations out of 19, every fault but `stripeUpdate` | `ClientsSeeTheInstance`, `NoFreeLaunch` |
| `lifecycle_concurrent` | two slots, 3 operations out of 15, all faults | `NoStrandedTransition` |
| `lifecycle_progress` | two slots, 2 operations out of 15, no faults, fairness | `TransitionsClear` |
| `publish_chain` | one process, three handlers, 3 cache changes, fairness | `TypeOK`, `NoStaleState`, `NoRepeats`, `ClientsCatchUp` |
| `team_billing` | two instances, two checkout sessions, 7 requests or moves of Stripe, fairness | `TypeOK`, `RowFollowsStripe`, `QuantityMatches`, `NoFreeRide`, `PaidKeepsRunning`, `UnpaidIsStopped` |
| `editor_commands` | two slots, 2 of all requests, replies repeated and refused, no sockets, fairness | `NoStuckRestart`, `KeepsPromise`, `RequestsEnd` |
| `editor_tunnel` | two slots, 2 requests to enable or disable, two sockets | `TypeOK`, `RowFollowsTunnel` |
| `sync_device` | one slot, 2 requests out of 7, one message of each kind under way, old and new agent, fairness | `HashCoversSettings`, `Converges` |
| `groups_membership` | two slots, two devices, groups and snapshots, 6 requests | `TypeOK`, `MembersRunGroupSnapshot`, `MembersOfApplication` |
| `pipeline_stages` | two slots, two instances, three stages, requests without bound | `TypeOK`, `LinksGoForward`, `OneList`, `GroupsComeLast`, `HeldOnce` |

*Bounds.* `MaxOps`, `MaxRequests`, `MaxSessions`, `MaxSockets` and `MaxStages`
only bound how often a behaviour begins something. A handler depends on the past
through the row, the caches and the container alone, and two operations suffice
to bring those into any combination the source can produce, so the third to
fifth meet every start state. Two slots let any two handlers interleave; the
proofs cover any number. Publications interact pairwise through the queue; three
handlers let one change a cache while another publishes and a third waits. Two
commands, and two sockets, are what it takes for an old reply or an old close to
meet a new request. Of the messages about a device more than one under way at a
time (`MaxMessages`) only adds older ones that are lost or overtaken, which a
message that waits while the row changes shows already; a command more than that
replaces one, which is then lost. Seven requests bring a team through a trial,
two subscriptions and a suspension with instances in different states. Three
stages are the fewest in which a stage between two others is deleted.
`CHECK_DEADLOCK` is off where a bounded behaviour ends.

*Which operations run where.* A property speaks of what the code does hold; an
operation, a fault or an overlap is left out of a run, or excluded by the
property's condition, only where the code breaks the property with it. Adding it
to the run's constants, or dropping the condition, shows how (the one exception
is `billingDeleted` in `lifecycle_concurrent`, left out for size;
`NoStrandedTransition` is proved with it). For an instance:

* two slots: two recounts interleave and the older count reaches Stripe last
  (`BillingMatchesRow`); of two starts at once the failure of the second
  suspends the row of a running container (`ContainerMatchesRow`); two handlers
  with copies of different age send their states in either order, so that a
  `/stop` that ends after a `/suspend` leaves the clients with `stopped`
  (`ClientsSeeTheInstance`);
* the licence expires while an instance restarts (fault `license`): it is
  suspended, but counted (`BillingMatchesRow`);
* `restartStack` of a team that may not start instances (fault `billing`) leaves
  the row running without a container (`ContainerMatchesRow`);
* `customHostname` of an instance that is not running, and an update that fails
  after its early reply (fault `import`), leave it shown as starting for ever
  (`TransitionsEnd`);
* a subscription update that Stripe refuses (`stripeUpdate`) is only logged
  (`NoFreeLaunch`);
* the licence sweep (`licenseSuspend`) loads instances without their team, so
  that billing throws before the transition is cleared, and an `export` that
  fails does not clear it (`NoStrandedTransition`);
* `liveState` stores the driver's answer without publishing it
  (`ClientsSeeTheInstance`).

Elsewhere:

* a device that reconnects before the close of its last socket is handled, or
  loses a socket while the row is saved (`irregular`), ends with a row, a tunnel
  and a socket that disagree (`RowFollowsTunnel`);
* a second settings request that overlaps may leave the hash of the older
  settings, hence one slot in `sync_device` (`HashCoversSettings`); a device of
  an instance that is given a snapshot of another one is sent update commands
  without end, hence the condition `TargetOf(row) = row.target` in `Converges`.
  So is a device assigned to an instance and an application without being
  unassigned in between: neither assignment clears the other owner, the command
  names the instance alone, and the report then differs from the row for ever,
  hence `Reassigns = FALSE`: the settings page of a device offers to assign it
  only when it is unassigned (`frontend/src/pages/device/Settings/General.vue:61-64`);
* a device added to a group while a deployment has read its members keeps its old
  snapshot (`MembersRunGroupSnapshot`), and one that leaves its application while
  it is being added becomes a member all the same (`MembersOfApplication`), hence
  `Alone`; a target that a request gives to a member itself (`DeviceSync`'s
  `SetTarget`) is not an operation of `DeviceGroups`, as it may be any snapshot;
* of two stages added after the same one, one is not in the list, hence
  `overlap` in `OneList`; a stage added behind none, or behind one that has a
  successor, leaves two ends of which the list shows one, and may put a group
  first, for a group is refused only when there is no stage at all
  (`ee/db/controllers/Pipeline.js:291`), hence `strayed` in `OneList` and
  `GroupsComeLast`; overlapping changes can also put a group before an
  instance or an instance into two stages (`GroupsComeLast`, `HeldOnce`);
* a team whose row is cancelled without a subscription at Stripe keeps what its
  suspension, or the end of manual billing, did not stop (`LeftRunning` in
  `NoFreeRide`); a row whose subscription has a status it does not track keeps an
  older one, and the team its instances (`RowFollowsStripe` and `Paid` say so:
  what is paid for is what the platform can know of); Stripe's events are delivered once and in order, as
  `RowFollowsStripe` fails with a late `updated` event.

*Fairness.* The fair specifications assume of the code that what a handler
awaits settles and that its continuation is run by the event loop (`WF` of
`Advance(r)`, of the steps of a publication, of `HandlerStep`, of requests that
have begun), and that timers fire (`TimeOut(c)`, `TrialTask`, the device's
`Report`). `TeamBilling` adds that Stripe repeats an event until it is answered
(`TakeEvent`). `DeviceSync` adds strong fairness of `LoadsReport` and `Takes`: of
messages sent again and again one gets through in the end; any number may still
be lost. `DeviceEditor` assumes nothing of the broker or the device, so a reply
may never come and the time-out has to end the request. Nothing is assumed about
new operations, crashes, payments or cancellations. Without faults a start
settles; that no container driver hangs for ever is an assumption of the model,
as the code sets no timeout.

One run ends in a violation, a disagreement between the code and a statement of
the repository (`findings` in `PROJECT.json` quotes it): in
`publish_two_processes` two processes intermix their publications and strand a
stale state.

The mutants in `PROJECT.json` change one definition each, as a slip in the
code would, and each makes TLC find its property violated; they stand
before the definition they change, marked `mutant`.

## What is proved

For every value of the constants that satisfies the modules' assumptions
(`Ops`, `Faults` within the named ones, `InitRow` running or suspended, the
states and the home of each handler of the right kind, `Instance` of
`PipelineStages` apart from the names of other contents and of `TeamBilling`
finite, the bounds naturals). Where a theorem has a hypothesis it is the
condition under which the property is checked, for the reason given under
*Which operations run where*:

* `InstanceLifecycleProofs!TypeCorrect`: `Spec => []TypeOK`.
* `InstanceLifecycleProofs!NothingStranded`: when `export` and the licence
  sweep are not among the operations, `Spec => []NoStrandedTransition`, for any
  number of interleaved handlers, operations and any faults. The property speaks
  of quiescent states only, so it is not inductive. The invariant (`Claimed`)
  says why it holds: whenever a transition that no launcher report ends is on
  show, some handler still *owes* a step that replaces it by one that ends,
  or clears it: such a step is in its program, and every step before it either
  continues with the next one or throws into a `catch` that clears
  (`Owes`). `Tidy` says that the same is true of each transition a handler is
  still going to set (`Kept`). A handler that clears another's transition only
  makes the claim easier; one that sets its own takes the claim over. The
  lemmas show that every program has this form when it is received
  (`ClaimingPrograms`), and that every action keeps it (`AdvanceEffect`,
  `TidyContinues`).
* `InstanceSerialProofs!RowsHaveContainers`, `RunningIsBilled` and
  `TransitionsAreEnded`: `Spec => []` of `ContainerMatchesRow`,
  `BillingMatchesRow` and `TransitionsEnd`, for any number of operations with one handler at a
  time (`OneHandler`), when only launches fail (`OnlyLaunchesFail`) and without
  the four operations that leave something behind (`Settling`), as in
  `lifecycle_serial`. All three speak of the time between handlers, so the
  invariant has to say what a handler half-way through its program will do. It
  does so with a small logic of programs: a step acts on a *view* of the shared
  state (`View`, `Acts`; `Leads` adds where the program goes on), and
  `Ensures(A, p, B)` says that `p`, begun in a view of `A`, cannot throw and ends
  in a view of `B`. Rules for one step, for sequences and for a start (which
  ends in two ways) prove of each of the sixteen programs that it ensures
  `Settled` from any settled state. The invariant `OnCourse` is that what is left
  of the program ensures `Settled` from the view as it is; `Init` is settled, a
  program received ensures it, and an action takes one step of the program.
* `InstanceSerialProofs!ClientsAreUpToDate`: `Spec => []ClientsSeeTheInstance`
  for one handler at a time, every operation but `liveState` and every fault, as
  in `lifecycle_serial_faults`. A step may throw anywhere, but every step that
  changes the transition, the report or the row's state publishes what it leaves.
* `InstanceSerialProofs!LaunchesArePaid`: `Spec => NoFreeLaunch` for one handler
  at a time, every operation and every fault but Stripe's refusal of a quantity
  (`Accepted`), as in `lifecycle_serial_faults`. Any step may throw here, so the
  invariant (`Paying`) looks at what is left of the program instead of at where
  it ends: before a launch stand, at fixed distances, the write of a live state,
  a reload or a transition, the admission, the count and the bill (`Prepared`),
  and those of them that are done have had their effect on the row, the count and
  the subscription (`Underway`). The one program that would launch an instance
  in another state is one that finds a row left at `deleting` by a delete that
  failed; its container is gone by then, so that stopping it throws first
  (`Doomed`).
* `LiveStatePublishProofs!TypeCorrect`: `Spec => []TypeOK` for any number of
  processes. `TypeOK` alone is not inductive: that the queue a publication
  leaves is not empty needs `Queued`, that a publishing handler is at the
  head of its process's queue and a waiting one somewhere in it.
* `LiveStatePublishProofs!NoStaleStateInOneProcess` and
  `NoRepeatsInOneProcess`: with a single process, `Spec => []NoStaleState` and
  `Spec => NoRepeats`. By `Queued` at most one handler publishes at a time.
  `Fresh`: unless somebody is still going to publish, the state held by the one
  who publishes is the one in the caches, and if nobody publishes it is what
  clients were sent. `LastIsShown`: the cache of the state published last and
  the last message differ only between the two steps that write them. With
  two processes both theorems fail (`publish_two_processes`).
* `DeviceEditorProofs!TypeCorrect`: `Spec => []TypeOK`, which includes that a
  socket in a tunnel has shown the row's token; inductive with the type of
  `conn` and the fact that a socket not used yet is in no tunnel.
* `DeviceEditorProofs!ImplementsCommandReply`: every behaviour of `DeviceEditor`
  is one of `CommandReply` under the mapping of `Promise`, its fairness left
  aside. The step that sends a command maps to `Send` only if the command has
  left no trace before: `OwnNumber` (requests at work have numbers of their own)
  and `Unsent` say so. A reply maps to `Answer` only if the device has taken its
  command: `Replied`.
* `DeviceEditorProofs!RestartsAreUndone`: `Spec => []NoStuckRestart`, for any
  requests that overlap, fail and time out, when the device does not itself
  report the state `restarting` (`PlatformsWord`). While the row says
  `restarting`, a handler that found another state awaits its reply and will put
  that back (`WillPutBack`), or the device took a restart (`RestartInv`).
* `DeviceEditorProofs!TunnelIsFollowed`: `Spec => []RowFollowsTunnel`. `Stands`
  says where the row, the manager and the connection are at each stage of a
  socket's life, and `Regular` that one socket at a time is under way
  (`OneActive`) as long as the device reconnects in order; when none is, the row
  is disconnected and there is no tunnel.
* `DeviceSyncProofs!HashMeansSettings`: with one request at a time
  (`OneHandler`), `Spec => []HashCoversSettings`, of the device's own settings and
  whichever copy of the row and its target was hashed. That the device has the
  settings when it has the row's hash depends on what a hash in the row, in a
  handler's copies, in a command on its way or at the device can be of: a random
  one is that of the request that drew it, which is known nowhere before
  (`InHand`), any other is of the settings as they are unless a request is about
  to renew it (`HashInv`), and the device, which fetches what the hash in its
  command is of, has settings at least as new (`DeviceInv`).
* `DeviceGroupsProofs!TypeCorrect`, `GroupSnapshotRuns` and
  `MembershipWithinApplication`: `Spec => []` of `TypeOK`,
  `MembersRunGroupSnapshot` and `MembersOfApplication`, for any number of
  devices, groups and overlapping requests. The second needs deployments, and
  taking a device out of its application, to overlap nothing (`RunAlone`), the
  third that of all moves of a device (`MoveAlone`); `groups_membership` runs
  with these operations in `Alone`. In the midst of such a request a device may
  be a member that runs something else, or is of another application:
  `LosesItsGroup` and `Moves` say that its handler is about to clear its group,
  and `RunInv` and `HomeInv` that what the handlers have read still holds.
* `PipelineStagesProofs!TypeCorrect` and `NoCircle`: `Spec => []TypeOK` and
  `Spec => []LinksGoForward`, for any number of stages and of overlapping
  requests. A deletion links the stage before the deleted one, found in the
  list, to the stage after it, loaded with its row, both possibly out of date;
  `Requests` says that the one was created before the deleted stage and the
  other after it, which no later step can change. That the stage found in the
  list does link to the deleted one (`PrecededByPointing`) needs the recursion of
  `Back` to be defined on every list (`Recursion`), which is shown through a
  least counterexample (`LeastNat`).
* `PipelineStagesProofs!ListIsWhole`: `Spec => []OneList`, as long as no two
  requests that add or delete stages overlap and stages are added behind the last
  one (`~strayed`). `ListInv` says that no two stages
  link to the same one, or to none (`SingleFile`), and that what a request has
  read of the list still holds (`ListRead`). `WalkBack` shows that the walk from
  the last stage back then meets every stage once, in the order of their ids:
  the stages are finitely many, each link leads forward, and a stage that the
  walk misses would have to lead to another one missed, without end.
* `PipelineStagesProofs!GroupsAreLast` and `HeldByOne`: `Spec => []` of
  `GroupsComeLast` and `HeldOnce`, as long as no two requests overlap, the first
  for stages added behind the last one, the second wherever they are added. The
  code
  checks positions in the list it has sorted; by `ListIsSorted` these are
  positions in the order of ids, where `GroupLast` can be stated of a set of
  stages, and `Checked` says that what a request has validated still holds when
  it writes, in the steps between an update's emptying and filling a stage too
  (`FitsAt`).
* `TeamBillingProofs!TypeCorrect`, `RowAgrees`, `ChargedForWhatRuns`,
  `NobodyRidesFree` and `SweepsSparePaid`: `Spec => []` of `TypeOK`,
  `RowFollowsStripe`, `QuantityMatches` and `NoFreeRide`, and
  `Spec => PaidKeepsRunning`, for any number of instances and sessions. The
  properties speak of a team whose events are all handled; `Reported` and
  `RowInv` say what holds while some are under way (the last event about a
  subscription has its status; the row agrees with Stripe, as far as it tracks
  its statuses, once none is about its subscription), `ChargeInv` that the quantity is right but for the handler that
  is about to charge, `RideInv` that what runs without being paid for is in the
  list of a sweep, or of the one that the event of the cancellation will begin
  (`Cancels`), `SweepInv` that a sweep has a reason, and `NoRowInv` that a team
  without a row has nothing to count.

Liveness (`TransitionsClear`, `ClientsCatchUp`, `RequestsEnd`, `Converges`,
`UnpaidIsStopped`, and the fairness in `KeepsPromise`) is out of the prover's
reach and only model-checked.

## Plan

1. done: `InstanceLifecycle`, `LiveStatePublish` and their proofs; `TeamBilling`;
   `CommandReply`, `DeviceEditor` and the proof that it implements the former;
   `DeviceSync`; `DeviceGroups`; `PipelineStages` and its proofs.
2. done: a theorem for every safety property that a run checks. Left to prove:
   that `LiveStatePublish` with one process implements an abstract publication
   (clients are sent the states the caches take, some of them skipped, never an
   older one after a newer), which is what the single step of
   `InstanceLifecycle` stands for.
3. Left to model: the housekeeper's vote, membership and invitations, creation
   limits, tokens.

## Not modelled

The Vue frontend, templates and assets; broker ACLs and permissions (functions
without state); the audit log, mail and notifications (output nothing reads
back); the storage API and the contents of flows, settings and snapshots (data);
single sign-on, tables, GitOps, expert, MCP and assistant (calls to other
services); migrations; rate limits. Of the parts that are modelled: the creation
of instances; free allowances, device billing, team types and discount codes;
names, modes, provisioning, logs and resources of devices; HTTP requests proxied
through an editor tunnel, and tunnels kept by several forge processes; the
settings of a device group; deployment of a stage to a git repository; eviction
from the memory cache. Team membership, invitations, the housekeeper's vote and
creation limits have hazards worth a module and none yet; tokens and nonces are
rows or map entries that a single step reads and destroys. `PROJECT.json` lists
each part with its reason, and every hazard met while reading the code, with the
property that covers it or the reason none does.

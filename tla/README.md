# ProjectMonitors in TLA+

Models, model checks and proofs for the ProjectMonitors repository (paths below are relative to the
repository root).  ProjectMonitors is four programs that meet only through services:

* the **manager** (`src/dotnet/manager/...Web.Manager.Api`): an ASP.NET Core API that launches EC2 servers and runs
  monitor containers on them through their Docker daemons;
* its **console** (`src/dotnet/manager/...Web.Manager.Spa`): an Angular single-page application, "the SPA";
* the **webhook pipeline** (`src/golang/monitors/webhooks`): a Go manager and a Go sender around RabbitMQ that
  fan notifications out to Discord webhooks;
* the **monitors** (`src/golang/monitors/publishers`): scrapers that publish what they find.

There are no tests of this code and no design documents in the repository.  What the code is meant to do is taken from
log messages, exception texts, comments and the texts of the UI.

## 1. Inventory

`PROJECT.json` lists every component with its files and status, and the hazards of all of them at their lines.

### Server registry and refresh pipeline (C#)

*State.* The static dictionary `AwsInfrastructureClient.Instances` (id to `ServerInstance`), the objects in it
(`PublicDnsName`, `Status`, `IsAvailable`, `Images`), the singleton `DockerClientsProvider._clientsCache`
(id to Docker client), and outside: the EC2 account and one Docker daemon per server.

*Operations.* `RefreshInstancesAsync`: DescribeInstances, MergeInstances, DescribeInstanceStatus, apply the
statuses, list the images of the database, give every running server a client, ping each, list its containers,
replace its `Images`.  The hosted service does this for ever; most handlers do it at their end.

*Hard.* Every await lets another refresh run on the same dictionary and the same objects; there is one semaphore,
and it covers one merge only.  Old answers are applied late, enumerators break, `AddClient` races, and one exception
ends the refresh of all servers.

*Correct means.* Ids, states, names and containers end up as in EC2 and on the daemons; a server shown as
available has a client; a client and a container list belong to the server they are shown for; instances with
another key are never touched.

### Manager API handlers, unit of work (C#)

*State.* What a request captured (server object, image, container id), the rows of the image table, the
transaction of the request.  *Operations.* Spawn, shut down a container, create and remove an image, start or run,
stop and terminate a server; all but the image ones end in a refresh.  `TransactionScopeFilter` commits after
the handler.  *Hard.* Check-then-act on `IsAvailable`/`IsIdle` across awaits; results of `TryStopContainerAsync`
ignored; the commit may fail after the remote effects.  *Correct means.* Only requested containers and servers
are touched; a monitor goes to an idle server; every request is answered.

### Webhook pipeline (Go)

*State.* The subscriptions table and the manager's cache of it, two queues, the process states, the message each
loop is at.  *Operations.* Connect, refresh the settings every 30 s, take a notification, publish a job per
subscriber, acknowledge; the sender posts a job, waits when rate limited, acknowledges.
*Hard.* Stops at any point, since `WaitForShutdown` calls `os.Exit` under the goroutines; redelivery; a queue
that lives as long as its manager; a broker that is not up yet or restarts; settings that change under the loop.
*Correct means.* No acknowledged notification lacks a job, no job is queued twice, a webhook is posted again only
after a stop of the sender, the order is kept, a notification of an unknown slug or a refused job blocks nothing behind it.

### Session of the console (TypeScript)

*State.* The two stored tokens in the local storage, which all tabs of a browser share; per tab the user that
`IdentityService` tells, the timeout of the renewal job, the page.  *Operations.* Login, logout, the guards of the
routes, the scheduled renewal, navigation, reload.  *Hard.* Two tabs renew with one refresh token that can be used once;
answers come after a logout, a reload or another answer; a navigation is under way while another tab changes what its
guard will read; the job is scheduled by guards, logins and answers alike.
*Correct means.* A console has one way, not two, to renew; a logout lasts; no tab hangs at a guard or goes from one to the
other for ever; a console that lost its user tells one again.

### Pages of the console (TypeScript)

*State.* The lists that `ServerNodesProvider` and `ImagesProvider` cache, the loading indicators
(`AsyncProgressTracker`), an open dialog, the calls in flight.  *Operations.* The buttons of the two pages and the
answers to them; polling every five seconds.  *Hard.* Rows are replaced under their own operations and dialogs; lists
overtake each other; one boolean serves several operations; a provider that tells neither value nor error.
*Correct means.* A click reaches the action it is for, with the right ids; indicators and dialogs end; the rows end up
telling what the API tells; the list after an operation was made after it.

### Upload controls (TypeScript)

*State.* The form's value, the readers that run, name or preview.  *Operations.* Select, read, reset, disable, change the
inputs, destroy.  *Hard.* A file is given to the form before it is read, and reads end in any order.
*Correct means.* The form does not keep an unread file; what is shown is what is stored.

The shared module exports both controls, but no template of the application places one yet.  They are modelled all the
same, unlike the helpers of section 5, because their callbacks overtake each other; what the model says is what a form
that uses one gets.

### Others

The monitors, the never called `RefreshPublishers`, the migration at start-up, the Google Compute Engine client (not
registered in `Startup`), and a starter kit's helpers in the SPA: see section 5.

## 2. Modules

| Module | Models |
| --- | --- |
| `Ec2Docker` | external: EC2's instance life cycle and DNS names, Docker daemons, the account's owner |
| `InstanceRegistry` | the registry and the refresh pipeline, run by several workers |
| `ManagerApi` | the API's handlers and the transaction filter, over `InstanceRegistry` |
| `ManagedAccount` | abstract: what the API does to servers, containers and image rows |
| `WebhookPipeline` | publisher, broker, webhooks manager and sender |
| `WebhookDelivery` | abstract: what the sender side promises |
| `AuthSession` | the tokens, guards, login form and renewal jobs of several tabs |
| `ApiClient` | the requests of the generated client, and the routes of the controllers that take them |
| `AdminRoutes` | the route tables, menus and breadcrumb |
| `AdminConsole` | the admin pages over `ApiClient` and `AdminRoutes`, with an API that serves a request in one step |
| `FileUpload` | the two upload controls |
| `MC...` | one for each state machine: definitions for its constants, and symmetry |
| `...Proofs` | theorems about `InstanceRegistry`, `ManagerApi`, its refinement of `ManagedAccount`, `WebhookPipeline`, `AuthSession`, `AdminConsole`, `FileUpload`, and lemmas about `ApiClient` |

### InstanceRegistry

A *worker* is a flow of control that refreshes: the hosted service (`Hosted`) or a request.  `phase[w]` says what
it awaits or does next; what an awaited call returned is kept in `described`, `states`, `monitors`, `found` until
the step that uses it, so that any other worker's steps come between.  One action per stretch of code between two
awaits: `DescribeInstances`, `MergeInstances`, `DescribeInstanceStatus`, `ApplyStatus`, `ListImages`, `Visit`,
`AddClient`, `StartProbes`, `AnswerPing`, `PingReply`, `ListContainers`, `MergeImages`, `FinishRefresh`; the loop over
`Instances.Values` and the loop over the statuses are split further, because other threads change the dictionary
under them.  What throws is a disjunct that ends in `Abort`: a missing key in `ApplyStatus`, a modified collection
(`CollectionModified`), both exceptions of `AddClient`, a failed call (`RemoteCallFails`, `ListContainers`).
A removal does not invalidate an enumerator on .NET Core 3.1, an insertion does; the model follows that.

`AnswerPing` is the daemon's (or the timeout's) answer, `PingReply` the lambda that goes on with it and sets the flag.  The
server may stop in between, and the object may be emptied by a request, so the flag can be set on a server that no longer
runs; the next refresh takes it back.  `AvailabilityIsReal` is stated of the answer: that very server gave it, while it ran.

A `ServerInstance` is an *object* `<<id, k>>`, the k-th registered under its id: a request may hold one that the
registry has dropped.  A Docker client is the address it talks to.

### ManagerApi

EXTENDS `InstanceRegistry`: a worker other than the hosted service now serves a request, whose state is
`request[w]`: the command, the step its handler is at, and what the handler captured (the server object, the calls of
`TryStopContainerAsync` it has yet to make, the containers a list returned, the container it works on).  Every handler
runs through `Receive`, its own steps, for those that end in a refresh `Refresh`, the pipeline's steps and `EndRefresh`,
and `Commit` of the filter.  An exception at any step ends in `Throws`.  `TryStopContainerAsync` is a sub-machine that
four handlers use: `NextCall`, `ListVictims`, `StopContainer`, `RemoveContainer`, `EndCall`.  A remote call that took
effect may still lose its answer (`Replies`), one that did not may fail (`Fault`), which covers cancellation by the client.

An image removal enumerates the live `Images` list of a server across awaits; `modified` records that a `Merge` or `Clear`
happened since, which makes the enumerator throw (`ListModified`).  The database is the set of image rows; inserting one
that is there and deleting one that is gone make the commit fail.

Left out: the choice among providers (one is registered), image types, spawn parameters, authentication.  Image tags are
immutable.  When all container ids of an instance of the model are used up, the daemon refuses to create one.

### ManagedAccount

The abstract specification of the API, in the terms of the account's owner and of the users: servers, containers, image
rows and requests.  There is no registry, no refresh and no service in it.  A request is received (or refused, when its image has
no row), begun (its servers are looked up, or there are none), open, `made` when a spawn has its container, and over but for its
answer.  Open, a spawn makes one container; a shutdown, an image removal, a stop or a terminate stops and removes containers
it is for (`IsForServer`, `IsForContainer`), any number of them, since the code ignores a container it could not stop; a
request about a server then makes one call of EC2, for that server, and touches no container after it.  `ok` is answered
when no step that can refuse was refused (any number of the containers may have been passed over), `notFound` only before
anything was done, `badRequest` with the rows unchanged, `error` at any time, also
for a call that took effect.  When EC2 gives the DNS name of one server to another, a container operation may end up there, and
the specification says so.

`ImplementsAccount` maps `job` to `Stage` and `JobOf`: the step a handler is at, without its captured server, its calls and
what its lists returned.  External variables and image rows are mapped to themselves; the pipeline's steps, the service's and
those of a handler between two calls that change something are stutters.

### WebhookPipeline and WebhookDelivery

A queue is the sequence of its unacknowledged messages.  `manager` and `sender` say where the processes are;
`current`/`todo` and `hand` what their loops hold; the history variables (`handled`, `skipped`, `stranded`, `lookup`,
`unrouted`, `settled`, `wiped`, `versions`) record what happened to notifications and jobs.  A stop or crash
(`ManagerGone`) loses the process's memory and, since every manager declares a queue of its own, its unread messages
(`stranded`).  `StopBroker` loses the messages, which are published as transient, keeps the durable exchange,
queues and bindings, and ends both consumers, whose processes live on.  A sender that is posting meanwhile
finishes its post and fails to acknowledge (`linked`).

`WebhookDelivery` is the abstract specification: accept, post, settle, forget.  A webhook is accepted only if it is not
outstanding and was neither posted nor refused.  `ImplementsDelivery` maps
`outstanding` to the queue, preceded by the job in the hands of a sender that lost its connection.

Left out: duplicated rows of one subscription, the text of payloads, a network failure between a process and a
broker that stays up (for the consumers it is a broker restart without the loss).

### AuthSession

JavaScript runs to completion, so an action is one callback: a click, a guard, a timeout, an answer.  What the code
awaits is a call in flight (`call`), which `Serve` answers, `Lose` loses, and `Receive` hands to the code that awaits it:
`LoginSucceeds`/`LoginFails`, `GuardSucceeds` and its failure, `RenewalSucceeds`/`RenewalFails`.  A *grant* is a pair of
tokens; the storage has the grant of each token (`access`, `refresh`), and `grants` what the server and the clock know of
it: its user, whether its refresh token can still be used, its age.  Ages are not minutes: `Expire` and `Die` say that the
access token and then the refresh token are over, and happen at any time to a stored grant (answers are assumed to arrive
within the life of the token they bring).  A grant nobody holds is forgotten (`Remember`), so that a few grants make runs
without end.  `armed[t]` counts the pending timeouts of a tab's job, which the code means to be one at most.  A reload
drops a tab's calls and timers but not what the server does with its calls.  `RestartApi` makes every refresh
token unknown, because the API keeps them in memory.

`router.navigate` is asynchronous: `route[t]` is where a tab is going while `page[t]` is still what it shows, and the
latest navigation counts.  `EnterAdmin` and `EnterAccount` are the guards of the two routes, which read the storage when
they run, not when the navigation began; `LogOut`, `RenewalFails`, `LoginSucceeds`, `GuardSucceeds` and a guard that refuses
only set out for a route.  `"guard"` is the route of a tab whose `NotAuthenticatedGuard` awaits its renewal: a failure sends it
to the account route; any other navigation leaves it, and the renewal goes on.  `Navigate` is a link, or Back and Forward, from
any page and at any time.  `identity[t]` is what the tab's own `IdentityService` tells: it hears of tokens that its own tab
stores and drops, and reads the storage once, when it is made with the first page.  What a guard decides and the page that
is shown for it are one turn.

Reloads, navigations, lost calls and restarts are disturbances, counted together in `faults`: each run has one, at any point.

`AuthenticationScheduler.scheduleJob` and the stored session expiry have no caller or no writer before their reader,
and are left out.

### ApiClient, AdminRoutes and AdminConsole

`ApiClient` has one operator per method of `ImagesService` and `ServerInstancesService`: the request with its method,
path, query, body, headers and response type.  `Routes` and `Started` are the other side: which controller actions take it,
and with which arguments.  A path segment is a literal or an encoded value, never characters.

`AdminConsole` has one action per button (`StopServer` ... `RemoveImage`), for the dialogs `Confirm` and `Cancel`, for a
link `Navigate`, and one per answer: `OperationSucceeds`, `OperationFails`, `ImagesListed`, `ImagesNotListed`,
`ServersListed`.  An operation of `executeRangeAsAsync` is a record in `ops`: what was asked for, the call it waits
for, the tracker that tells it runs.  Server lists in flight are the set `lists`, answered in any order.  When the rows are
replaced or the page is left, the trackers of what is gone are disposed (`Disposed`).  Users of other consoles and EC2 act in
`Elsewhere`, lost answers are `LoseCall` and `LoseServers`.  The API takes one step per request here; what happens
between its steps is the business of `ManagerApi`.

### FileUpload

One action per callback of `FileUploadComponent`, `PhotoUploadComponent` and their base: `HandleFileSelected`,
`ReadEnds` (a result or an error), `Reset`, `SetDisabledState`, `ChangeUrl` (the inputs `fileUrl` and `previewSrc`),
`SetPhotoInputs` (`readOnly`, `showPreview`), `Destroy`.  A selection is numbered, so that two reads of one file differ.
`DisplayOf` is what is shown of a read: the file component shows the name even after an error, the photo component
a placeholder.  With `showPreview` false the form gets content that is not shown, which the history `unseen` records.

## 3. Runs

| Run | Shows | Bounds |
| --- | --- | --- |
| `registry_safety` | `AvailableHasClient`, `NoCrossTalk`, `OnlyOwnServers`, `AvailabilityIsReal` | 2 own servers and a foreign one, 2 workers, 1 console operation |
| `registry_new_server` | `RunningServersBecomeAvailable` | 1 server, 2 workers, 2 objects, 3 console operations, 1 fault |
| `registry_restart` | **violation** of `RunningServersBecomeAvailable` | 1 server, stop and start |
| `api_safety` | types (also of the registry), `HandlersHaveClients`, refinement of `ManagedAccount` | 1 own server and a foreign one, 2 containers, 2 images, 1 request of 5 kinds next to the service |
| `api_converges` | `RequestsAreAnswered`, `EventuallyMirrorsCloud`, `EventuallyMirrorsContainers`, refinement of `ManagedAccount` under a failure | 1 server, 1 container, 1 request of any kind but terminate, 1 failure |
| `api_spawn` | **violation** of `SpawnsOnIdleServers` | 1 server with a container, 1 spawn |
| `webhook_safety` | types, conservation, fan-out, uniqueness, at most one post per run of the sender, refinement | 2 slugs, 3 jobs, 1 stop of each process, 1 broker restart, 1 rate limit |
| `webhook_settings` | `NoMixedSettings`, `NotificationsAreConsumed`, `JobsAreSettled`, `EventuallyFollowsTable` | any table with 2 URLs, 1 edit, 1 fault, 1 stop of the manager, 2 notifications, one of them poison |
| `spa_session` | types, `OneRenewalTimer`, `TabsRenew`, `QuietLogoutsLast` | 2 tabs, 2 calls in flight, 3 grants, 1 user, 1 disturbance |
| `spa_renewal` | `ExpiredAccessIsRenewedOrDropped`, `TabsSettle` | 2 tabs, 1 call in flight, 2 grants, 1 user, 1 disturbance |
| `spa_console` | types, `RequestsAreRouted`, `LoadingMeansRunning`, `LinksLeadToPages`, `ListsFollowOperations`, `ServersEventuallyShown`, `DialogsEnd` | 1 server, 1 image, 2 operations and 2 lists in flight, 2 events, 1 fault |
| `spa_uploads` | types, `BareFilesAreBeingRead`, `ShownIsStored`, `BareFilesAreReplaced` | 3 files, one oversized, 3 selections |

*Why the bounds are enough.*  The races of the registry need two refreshes: one that holds an old answer and one
that applied a newer one.  Two own servers are needed for a client or a list to be at the wrong one, the foreign
one for the key filter and for the empty id list, two objects under one id for a server that was dropped and
listed again.  The runs of `ManagerApi` have one request next to the service's endless refreshes: a second refresh,
with all its old answers, is already there.  One server is enough for what they check; that clients and lists stay with
their server is the question of `registry_safety` and of the proofs.  `api_safety` also asks for the server
an operation ends at, so it has a foreign one that must never be it; one DNS name is enough, since
one of the two is stopped.  Terminate is left to the safety run, since it
doubles the objects, and stop to `api_converges`: up to its call of EC2 it does what terminate does.  In the pipeline two notifications and three jobs show order, partial fan-out and jobs of different
slugs; one stop, restart and rate limit each at every point show what the second would repeat.  In the session two tabs
and two calls are one renewal that overtakes another; three grants are the stored one and two under way.  `spa_renewal` has one
call in flight, and so no two renewals that race: what a race leaves behind is the question of the invariant `TabsRenew`,
which `spa_session` checks with two calls and which is proved for any number.
The pages need two operations and two lists for one to end under the indicator, or after the list, of the other; one server
is enough because no step of the console looks at two rows, and the proofs hold for any number.  Three selections are
two reads that end in the wrong order and one more.

*Deadlock* is checked in the registry and API runs: the hosted service always has a next step.  In the others it is
off, because there the system really may stop: everybody waits for a message that nobody has to send, the user may
do nothing, and bounded events run out.

*Fairness.*  Registry: EC2 finishes its transitions, an awaited call is answered or times out, the hosted service
never leaves its loop, a handler that runs goes on; nobody has to use the AWS console or send a request.  Pipeline: goroutines
run, the database answers in the end, Discord stops rate limiting (`MaxFaults`); nothing starts a process that is down, because
`env/webhooks/docker-compose.yml` has no restart policy, and nothing starts the broker.  A post is answered or fails: the HTTP
client has no timeout (`src/golang/monitors/core/http/http-client.go`), so a server that accepts a connection and never answers
would block the sender, and `JobsAreSettled` says nothing about that.  SPA: a browser runs the callbacks of
answers that came, of timeouts and intervals that are due, of guards that are to run and of readers that ended; the server answers
what is not lost.  `TabsSettle` is about sessions that last (`SessionLasts`): two tabs of which one drops again and again what
the other stores may never settle.  In `AuthSession` guards and timeouts have strong fairness, because a call needs one of the bounded `Slot`s:
another tab's call that takes it again and again is a matter of the model and not of the browser.

### What the violations show

* **Available comes before listed** (`api_spawn`).  `RefreshStateAsync` marks a server available before it lists its containers;
  in between, a server seen for the first time looks idle, and a spawn puts a second monitor there.
* **Restarted servers stay unavailable** (`registry_restart`).  `DockerClientsProvider.RemoveClient` has an empty body.  A
  server that was stopped and started has a new DNS name; its cached client pings the old one for ever.

### What else was seen

These need no run: the model has them as the code does, and the properties are stated around them.

* `for conn, err = amqp.Dial(...); err != nil; { ... }` logs "Retry in" but has no post statement: after one refused
  connection the webhooks manager spins for ever.
* After a broker restart the consuming goroutines of the webhooks manager and the sender have ended, while their processes live
  on and have logged that they wait for notifications.
* A logout with a login or renewal in flight is undone by its answer, which stores new tokens (`QuietLogoutsLast` says that
  nothing else does).
* When the list of images cannot be fetched after an operation, `invalidateImages` tells neither a value nor an error: the
  dialog and the indicator of the operation stay (`DialogsEnd` excepts it).
* A login of another tab, between the moment a tab drops the session and the moment its guard runs, lets that tab into the console
  with no user to show, because `IdentityService` hears only of its own tab's tokens.  Its next renewal tells one (`TabsSettle`).
* A server that stops after it answered a ping is shown as available until the next refresh.
* The console shows "Container stopped and removed." although `ShutdownContainer` ignores whether it was.
* Of two selections in an upload control, the one whose read ends last stays, which may be the earlier one
  (`ShownIsStored` holds all the same); and a disabled control still accepts files.

## 4. Proofs

Each holds for every value of the constants under the named ASSUMEs of the modules, which TLC evaluates in the runs: bounds
are natural numbers, the marks for "none" are not data, and the tables and maps of the constants have the types they are used at.

`InstanceRegistryProofs`

* `TypeCorrect`: one lemma per action over type invariants grouped by kind of state;
* `AvailableServersHaveClients`: `[]AvailableHasClient`.  Not inductive alone, since a ping is answered long after the
  client was looked up: `AcquiredClients` adds that a lambda past its lookup has a cached client.  It rests on
  the fact that no step empties the cache (an empty `RemoveClient` is what makes it true);
* `ForeignServersUntouched`: `[]OnlyOwnServers`, with the answers and lambdas in flight about own servers only;
* `NoServerCrossTalk`: `[]NoCrossTalk`.  The invariant follows an address from EC2 through the answer of
  DescribeInstances, `PublicDnsName`, the client and the captured client to the list that is merged.  It
  needs that EC2 hands out a name once (`~ReuseAddresses`), and is false otherwise;
* `AvailableServersAreReal`: the action property `AvailabilityIsReal`, in two halves: a ping is answered by the server it is for,
  running (`ServerAnswers`), and the flag is set only by a lambda whose ping was answered, through the cached client and at that
  server's address (`BecomesAvailable`).  Of `CrossTalkInv` it takes that an address leads to one server only; `LambdaInv` adds that
  the client a lambda captured is still the cached one, however long its ping takes.

`ManagerApiProofs` (over the registry's lemmas, since handlers and pipeline write the same variables)

* `ApiTypeCorrect`: `[]ApiTypeOK`, with what a handler's step says of what it captured (`RequestInv`);
* `ConnectedHandlers`: `[]HandlersHaveClients`.  A handler at a daemon has a target that was available when it was captured
  (`TargetInv`, `AvailableHasClient`), and clients are never taken away;
* `OnlyRequestedContainers`: `OnlyRequested`, an action property.  A container that changes is one that a handler at that step is for
  (`MayTouch`): created by a spawn, of its image and on its server; started by the spawn that made it; stopped or removed while a
  shutdown, an image removal, a stop or a terminate that names its image, server or id is under way.  `VictimInv` follows the containers from the list a daemon returned to the stop
  and the removal: they run at the request's server and are of its image, whatever was created, stopped or merged since.
  `CrossTalkInv` of the registry makes the daemon the right one; if names are reused (`ReuseAddresses`) what is left is that the
  containers are of its image;
* `AvailableServersHaveClientsInApi`, `ForeignServersUntouchedInApi`, `NoServerCrossTalkInApi`, `AvailableServersAreRealInApi`: what
  is proved of the registry holds with handlers at work.  The theorems of `InstanceRegistryProofs` are about its own `Spec`, where
  servers change only from outside and no handler empties a list or clears a flag in the middle of a refresh.  A step of `ApiNext`
  is a step of the pipeline, for which the registry's lemmas are reused, or a handler's, and what those may
  change of the registry, the cache and EC2 is stated once (`HandlerChanges`, `HandlersSwitchOff`);
* `OnlyRequestedServersChange`: `OnlyRequestedServers`, for any DNS names.  `RemoteInv` says that a handler on its way to EC2 has
  captured an object of the very id its request names, which is none of `Foreign`, or has none because it is to run a new
  server.  The object may be one the registry has dropped since: the id is what counts.  It rests on `ForeignInv`, for a
  handler takes its object from the registry.

`ManagedAccountProofs` (over the invariants of `ManagerApiProofs`)

* `AccountIsManaged`: `ApiSpec => ImplementsAccount`, with or without reused DNS names.  A step of `ApiNext` maps to a step of
  `ManagedAccount` or to none, from three invariants: `VictimsInv` (what is stopped or removed is what the request is for, however
  old the list), `ServersInv` (the captured server has the id of the request and is no foreign one) and `LambdaInv`, which the
  other two need of a refresh under way.  There is one lemma for the steps that are not seen (`SilentSteps`), and one for each that
  is: `BeginSteps`, `SpawnStep`, `StartStep`, `StopSteps`, `ListStep`, `Ec2Step`, `SettleSteps`, `RefreshStepOfUser`, `CommitStep`,
  `ReceiveStep`, `OutsideStep`.  `ItsServer` is the link between both levels: the daemon at a handler's client is that of
  a running own server, the target's if names are fresh.  `JobFacts`, `OneJob` and `MovesJob` say once how a change of `request` shows
  in the mapped `job`.  It takes two facts the safety properties did not: a spawn for a given server captured that very
  server (`TargetInv`), and nobody's step changes another's answer.

`OnlyRequested` and `OnlyRequestedServers` are not checked by a run of their own: what they say of containers and servers is part
of `ImplementsAccount`, which is checked; their theorems stay, since they are stated without the mapping.

`WebhookPipelineProofs`

* `TypeCorrect`, and `NothingIsLost`, `NoJobTwice`, `HandledHasItsJobs`, `PostedOnce`: `PlacesInv` (a notification is in one
  place), `JobsInv` (no job of a notification that is neither over nor at its turn in the fan-out), `FannedOutInv` (of the
  notification in hand, jobs are yet to do or known), `PostsInv` (posts counted against stops of the sender) and `HandInv` (the
  job in hand is the head of the queue as long as the connection lives);
* `SettingsAreNeverMixed`: what was fetched so far is part of one version of the table, and so is the cache;
* `DeliveryIsImplemented`: `Spec => Delivery!Spec`.  Every step maps to a step of `WebhookDelivery` or to none; it needs `JobsInv`
  for a job not to be accepted twice and `HandInv` and `WipedHand` for the head of `outstanding` to be the job in hand.

`AuthSessionProofs`

* `TypeCorrect`, `OneTimer`, `TabsAlwaysRenew`, from one invariant.  `OneGrantStored` (both tokens are of one answer),
  `HeldIsKnown` and `CallsAreComplete` are what it needs of the storage and the answers.  `ConsolesRenew` is inductive: a timeout
  that fires becomes a call, an answer arms a timeout or sets out for a route, and a guard that lets a tab into the console arms
  one, which rests on the token that let it in.  `GuardsHaveCalls` is inductive beside it: a call is taken only by its own answer,
  which leaves the guard, and a reload that drops a tab's calls starts that tab anew.  It is the safety half of `TabsSettle`: what is
  left to fairness is that guards run and calls are answered;
* `QuietLogoutsAreKept`: `QuietLogoutsLast`, an action property, from the same invariant.

`AdminConsoleProofs`

* `TypeCorrect`.  `ModalInv` is needed for it: a dialog's operation has the dialog open and busy, and is the only one of
  a dialog, or else its answer would write to a window that is gone;
* `NoStrayIndicator`: `[]LoadingMeansRunning`.  Its half about dialogs, `BlockedWindowsWait`, needs that no dialog asks to run a
  new server (`WaitInv`), and is the safety half of `DialogsEnd`;
* `RemovedImagesLeaveTheList`: `ListsFollowOperations`.  `RemovedInv` says at each step of a removal that the image is gone for
  good and in no list made since; `RemoveCall` that the request of `imagesRemove` starts the action `Remove` with that image;
* `RequestsReachTheirActions`: `[]RequestsAreRouted`.  `ApiClientProofs` has what it rests on, one lemma per
  method of the client: its method, path, query and body match one route of the controllers and no other, which takes
  exactly these arguments.  `AskedInv` says that what was clicked is complete (a server for an operation on one, an image for
  one about an image), also in a dialog whose row was replaced while it was open.

`FileUploadProofs`

* `TypeCorrect`, `BareFilesRead`, `ShownStored`; and `ReadOnlyPhotosStay`: `ReadOnlyStays`, which no run checks besides.

*Only model-checked.*  Liveness and everything under fairness (`RunningServersBecomeAvailable`, `RequestsAreAnswered`,
`EventuallyMirrors...`, `NotificationsAreConsumed`, `JobsAreSettled`, `EventuallyFollowsTable`, `ExpiredAccessIsRenewedOrDropped`,
`TabsSettle`, `ServersEventuallyShown`, `DialogsEnd`, `BareFilesAreReplaced`), which the prover has no means for; and
`LinksLeadToPages`: the links are built with `SelectSeq`, which no backend can expand, and since neither page nor table depends on a
constant, TLC's evaluation of both pages is complete.

## 5. Not modelled

* **Google Compute Engine client**: not registered in `Startup`, so no execution reaches it; parts are commented out.
* **Publishers list of the webhooks manager**: `RefreshPublishers` is commented out in `main.go` and never runs.
* **Monitors footlocker, adidas, frenzy**: HTTP scraping and parsing.  What they publish is the input of
  `WebhookPipeline`; their own state is a list of seen products.
* **Start-up and migration**: dependency wiring, and one migration before the server listens; nothing runs beside it.
* **Helpers of the SPA** (message bus, toolbar, caches, settings, validators, logging): a starter kit's services that no page
  uses, or that only show messages.

In part: of the **unit of work** the commit after a handler, its failure and its conflicts are modelled, nested transactions,
which nothing opens, are not; of the **repositories** the image rows that a refresh lists and handlers look up, insert and
delete, not `SaveGraph`, updates and queries without a caller.

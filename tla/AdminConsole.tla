----------------------------- MODULE AdminConsole -----------------------------
(***************************************************************************)
(* The admin pages of the single-page application: the two providers that  *)
(* cache what the API lists, the dashboard with a row for every server,    *)
(* the page of the images, their dialogs and loading indicators.           *)
(*                                                                         *)
(* JavaScript runs to completion, so an action is a click or an answer.    *)
(* The API handles a request in one step; ManagerApi has the steps.        *)
(***************************************************************************)
EXTENDS ApiClient, AdminRoutes, FiniteSets

CONSTANTS
    Provider, Server, Image,
    ProviderOf,      \* the provider that a server runs at
    Slot,            \* bounds the operations that run at once
    MaxLists,        \* bounds the server lists in flight
    MaxEvents,       \* bounds what users, of this console or another, do
    MaxFaults        \* bounds lost calls

ASSUME ProviderOfAssumption == ProviderOf \in [Server -> Provider]
ASSUME AbsentAssumption == Absent \notin Provider \cup Server \cup Image \cup (Server \X Image)
ASSUME BoundsAssumption == MaxLists \in Nat /\ MaxEvents \in Nat /\ MaxFaults \in Nat

VARIABLES
    servers, images,       \* what the API knows: servers, and stored images
    ids,                   \* images there ever were; ids are not used again
    shownServers,          \* ServerNodesProvider._nodes$
    shownImages,           \* ImagesProvider._images$
    lists,                 \* requests for the server list in flight
    ops,                   \* what executeRangeAsAsync runs
    dialog,                \* the modal window that is open
    loading,               \* the trackers that tell isLoading
    page,
    events, faults

api == <<servers, images, ids>>
shown == <<shownServers, shownImages>>
bounds == <<events, faults>>
vars == <<api, shown, lists, ops, dialog, loading, page, bounds>>

\* "None" is a server that is not there, and the statuses that offer nothing:
\* Unknown, Pending, Stopping, ShuttingDown and Terminated.
ServerInstanceStatus == {"None", "Running", "Stopped"}

\* A server runs one container at most, which its server and image identify.
ServerInstance == [status : ServerInstanceStatus, image : Image \cup {Absent}]
Idle(node) == node.status = "Running" /\ node.image = Absent
Gone == [status |-> "None", image |-> Absent]

\* The list of the servers, which the API groups by their provider.
InstanceList == [Server -> ServerInstance]

Kind == {"load", "stop", "terminate", "shutdown", "start", "run", "spawn", "create", "remove"}

\* What the user asked for.
Intent == [kind : Kind, provider : Provider \cup {Absent}, server : Server \cup {Absent},
           image : Image \cup {Absent}]

\* The indicator of a page, or of the row of a server; Absent once disposed.
Tracker == {"dashboard", "images"} \cup Server

\* The first call of an operation, then the list it waits for; "hung" when
\* that list never comes.
Op == [intent : Intent, step : {"operation", "list", "hung"},
       answer : {"none", "ok", "refused"}, list : SUBSET Image,
       tracker : Tracker \cup {Absent}, modal : BOOLEAN]

Dialog == [intent : Intent, tracker : Tracker \cup {Absent}, busy : BOOLEAN]

ASSUME NoRecordAssumption == Absent \notin Op \cup Dialog

TypeOK ==
    /\ servers \in [Server -> ServerInstance]
    /\ images \subseteq ids /\ ids \subseteq Image
    /\ shownServers \in InstanceList /\ shownImages \subseteq Image
    /\ lists \subseteq InstanceList \cup {Absent}
    /\ ops \in [Slot -> Op \cup {Absent}]
    /\ dialog \in Dialog \cup {Absent}
    /\ loading \subseteq Tracker
    /\ page \in Page
    /\ events \in 0..MaxEvents /\ faults \in 0..MaxFaults

Asked(kind, server, image) ==
    [kind |-> kind, provider |-> IF server = Absent THEN Absent ELSE ProviderOf[server],
     server |-> server, image |-> image]

Load == [intent |-> Asked("load", Absent, Absent), step |-> "list", answer |-> "none",
         list |-> {}, tracker |-> Absent, modal |-> FALSE]

\* The first page is the dashboard; both providers have asked for their lists.
Init ==
    /\ servers \in [Server -> {Gone, [Gone EXCEPT !.status = "Running"],
                               [Gone EXCEPT !.status = "Stopped"]}]
    /\ images \in SUBSET Image /\ ids = images
    /\ shownServers = [s \in Server |-> Gone] /\ shownImages = {}
    /\ lists = {Absent}
    /\ ops = [s \in Slot |-> IF s = CHOOSE first \in Slot : TRUE THEN Load ELSE Absent]
    /\ dialog = Absent
    /\ loading = {}
    /\ page = "dashboard"
    /\ events = 0 /\ faults = 0

-----------------------------------------------------------------------------
(* Operations *)

Container(server, image) == <<server, image>>

\* The request of an operation's first call.
RequestOf(intent) ==
    CASE intent.kind = "stop" -> ServerInstancesStopServer(intent.provider, intent.server)
      [] intent.kind = "terminate" ->
            ServerInstancesTerminateServer(intent.provider, intent.server)
      [] intent.kind = "shutdown" ->
            ImagesShutdownContainer(intent.server, intent.provider, intent.image,
                                    Container(intent.server, intent.image))
      [] intent.kind \in {"start", "run"} ->
            ServerInstancesStartOrRunServer(
                StartOrRunServerInstanceCommand(intent.provider, intent.server))
      [] intent.kind = "spawn" ->
            ImagesSpawnImage(SpawnImageCommand(intent.image, "parameters", intent.server))
      [] intent.kind = "create" ->
            ImagesCreate(CreateImageCommand("name", "slug", "Monitor", "parameters"))
      [] intent.kind = "remove" -> ImagesRemove(intent.image)

InUse(s) == ops[s] # Absent
Running == {s \in Slot : InUse(s)}

\* executeRangeAsAsync: the indicator goes on, and the first call out.
Execute(intent, tracker, modal) ==
    /\ \E s \in Slot : ~InUse(s)
    /\ LET s == CHOOSE s \in Slot : ~InUse(s) IN
       ops' = [ops EXCEPT ![s] =
                 [intent |-> intent, step |-> "operation", answer |-> "none",
                  list |-> {}, tracker |-> tracker, modal |-> modal]]
    /\ loading' = IF tracker = Absent THEN loading ELSE loading \cup {tracker}

\* Mutant: no finally, an error leaves the indicator on.
FinishUnlessRefused(s) ==
    /\ ops' = [ops EXCEPT ![s] = Absent]
    /\ loading' = IF ops[s].answer = "refused" THEN loading ELSE loading \ {ops[s].tracker}

\* The finally of executeRangeAsAsync.
Finish(s) ==
    /\ ops' = [ops EXCEPT ![s] = Absent]
    /\ loading' = loading \ {ops[s].tracker}

-----------------------------------------------------------------------------
(* Clicks *)

Click ==
    /\ events < MaxEvents
    /\ events' = events + 1
    /\ UNCHANGED <<api, shown, page, faults>>

\* A modal window masks the page.
At(p) == page = p /\ dialog = Absent

Open(intent, tracker) ==
    /\ Click
    /\ dialog' = [intent |-> intent, tracker |-> tracker, busy |-> FALSE]
    /\ UNCHANGED <<lists, ops, loading>>

StopServer(s) ==
    /\ At("dashboard") /\ shownServers[s].status = "Running"
    /\ Open(Asked("stop", s, Absent), s)

TerminateServer(s) ==
    /\ At("dashboard") /\ shownServers[s].status \in {"Running", "Stopped"}
    /\ Open(Asked("terminate", s, Absent), s)

Shutdown(s) ==
    /\ At("dashboard") /\ shownServers[s].image # Absent
    /\ Open(Asked("shutdown", s, shownServers[s].image), s)

\* No window, and nobody catches a refusal.
StartServer(s) ==
    /\ At("dashboard") /\ shownServers[s].status = "Stopped"
    /\ Click
    /\ Execute(Asked("start", s, Absent), s, FALSE)
    /\ UNCHANGED <<lists, dialog>>

\* The button is in the title of the card, which the indicator does not cover.
RunInstance(p) ==
    /\ At("dashboard")
    /\ Click
    /\ Execute([Asked("run", Absent, Absent) EXCEPT !.provider = p], "dashboard", FALSE)
    /\ UNCHANGED <<lists, dialog>>

ShowSpawnImageWindow(i) ==
    /\ At("server-images") /\ "images" \notin loading /\ i \in shownImages
    /\ Open(Asked("spawn", Absent, i), "images")

AddNewMonitor ==
    /\ At("server-images") /\ "images" \notin loading
    /\ Open(Asked("create", Absent, Absent), "images")

RemoveImage(i) ==
    /\ At("server-images") /\ "images" \notin loading /\ i \in shownImages
    /\ Click
    /\ Execute(Asked("remove", Absent, i), "images", FALSE)
    /\ UNCHANGED <<lists, dialog>>

\* SpawnMonitorDialogComponent: a server of the list, or none in particular.
ServerChoice == {Absent} \cup {s \in Server : shownServers[s] # Gone}

\* executeBlocking and showModal: the window can be used again after the answer.
\* A form that is not valid, or disabled while its call runs, is not submitted.
Confirm ==
    /\ dialog # Absent /\ ~dialog.busy
    /\ dialog' = [dialog EXCEPT !.busy = TRUE]
    /\ \E server \in IF dialog.intent.kind = "spawn" THEN ServerChoice
                     ELSE {dialog.intent.server} :
          Execute([dialog.intent EXCEPT !.server = server], dialog.tracker, TRUE)
    /\ UNCHANGED <<api, shown, lists, page, bounds>>

Cancel ==
    /\ dialog # Absent /\ ~dialog.busy
    /\ dialog' = Absent
    /\ UNCHANGED <<api, shown, lists, ops, loading, page, bounds>>

\* ngOnDestroy: trackers of what is not shown any more tell nothing.
Disposed(trackers) == [s \in Slot |->
    IF InUse(s) /\ ops[s].tracker \in trackers THEN [ops[s] EXCEPT !.tracker = Absent]
    ELSE ops[s]]

\* A link of the menu; the dashboard asks for the servers when it is created.
Navigate(url) ==
    /\ dialog = Absent
    /\ PageAt(url) # {page}
    /\ page' \in PageAt(url)
    /\ lists' = IF page' = "dashboard" THEN lists \cup {Absent} ELSE lists
    /\ ops' = Disposed(Tracker) /\ loading' = {}
    /\ UNCHANGED <<api, shown, dialog, bounds>>

-----------------------------------------------------------------------------
(* Answers *)

\* Mutant: only a success is handled.
CloseDialogOnSuccess(s, succeeded) ==
    dialog' = IF ops[s].modal /\ succeeded THEN Absent ELSE dialog

\* What becomes of the window: a form whose call failed can be sent again.
CloseDialog(s, succeeded) ==
    dialog' = IF ~ops[s].modal THEN dialog
              ELSE IF ~succeeded /\ ops[s].intent.kind \in {"spawn", "create"}
                   THEN [dialog EXCEPT !.busy = FALSE]
              ELSE Absent

Answered(s, step, answer) == InUse(s) /\ ops[s].step = step /\ ops[s].answer = answer

\* invalidateNodesList completes at once; invalidateImages waits for its list.
OperationSucceeds(s) ==
    /\ Answered(s, "operation", "ok")
    /\ \/ /\ ops[s].intent.kind = "run"
          /\ Finish(s)
          /\ lists' = lists \cup {Absent}
       \/ /\ ops[s].intent.kind # "run"
          /\ ops' = [ops EXCEPT ![s].step = "list", ![s].answer = "none"]
          /\ UNCHANGED <<lists, loading>>
    /\ UNCHANGED <<api, shown, dialog, page, bounds>>

OperationFails(s) ==
    /\ Answered(s, "operation", "refused")
    /\ Finish(s)
    /\ CloseDialog(s, FALSE)
    /\ UNCHANGED <<api, shown, lists, page, bounds>>

\* Mutant: The answer is merged into the list the provider has.
ImagesListedMerged(s) ==
    /\ Answered(s, "list", "ok")
    /\ shownImages' = shownImages \cup ops[s].list
    /\ Finish(s)
    /\ CloseDialog(s, TRUE)
    /\ UNCHANGED <<api, shownServers, lists, page, bounds>>

ImagesListed(s) ==
    /\ Answered(s, "list", "ok")
    /\ shownImages' = ops[s].list
    /\ Finish(s)
    /\ CloseDialog(s, TRUE)
    /\ UNCHANGED <<api, shownServers, lists, page, bounds>>

\* The observable tells neither a value nor an error: its promise stays pending.
ImagesNotListed(s) ==
    /\ Answered(s, "list", "refused")
    /\ ops' = [ops EXCEPT ![s].step = "hung"]
    /\ UNCHANGED <<api, shown, lists, dialog, loading, page, bounds>>

\* The rows are made anew, with indicators of their own.
ServersListed(list) ==
    /\ list \in lists \ {Absent}
    /\ lists' = lists \ {list}
    /\ shownServers' = list
    /\ ops' = Disposed(Server) /\ loading' = loading \ Server
    /\ dialog' = IF dialog # Absent /\ dialog.tracker \in Server
                 THEN [dialog EXCEPT !.tracker = Absent] ELSE dialog
    /\ UNCHANGED <<api, shownImages, page, bounds>>

\* Mutant: only the pages ask.
PollNever == FALSE /\ UNCHANGED vars

\* Every five seconds, whatever became of the request before.
Poll ==
    /\ Absent \notin lists /\ Cardinality(lists) < MaxLists
    /\ lists' = lists \cup {Absent}
    /\ UNCHANGED <<api, shown, ops, dialog, loading, page, bounds>>

Receive(s) ==
    OperationSucceeds(s) \/ OperationFails(s) \/ ImagesListed(s) \/ ImagesNotListed(s)

-----------------------------------------------------------------------------
(* The API *)

Arg(call, name) == CHOOSE value \in {pair[2] : pair \in {p \in call.args : p[1] = name}} : TRUE

SetServer(s, node) == servers' = [servers EXCEPT ![s] = node] /\ UNCHANGED <<images, ids>>

\* A stop takes the containers with it.
Stop(call) ==
    /\ call.action = "StopServer" /\ servers[Arg(call, "serverId")].status = "Running"
    /\ SetServer(Arg(call, "serverId"), [Gone EXCEPT !.status = "Stopped"])

Terminate(call) ==
    /\ call.action = "TerminateServer" /\ servers[Arg(call, "serverId")] # Gone
    /\ SetServer(Arg(call, "serverId"), Gone)

\* Whether the container was stopped is ignored.
ShutdownContainer(call) ==
    /\ call.action = "ShutdownContainer"
    /\ Arg(call, "imageId") \in images /\ servers[Arg(call, "serverId")].status = "Running"
    /\ \/ /\ Arg(call, "containerId") =
                Container(Arg(call, "serverId"), servers[Arg(call, "serverId")].image)
          /\ SetServer(Arg(call, "serverId"), [Gone EXCEPT !.status = "Running"])
       \/ UNCHANGED api

StartOrRun(call) ==
    /\ call.action = "StartOrRunServer"
    /\ \E s \in Server :
          /\ ProviderOf[s] = call.cmd.providerName
          /\ \/ s = call.cmd.stoppedInstanceId /\ servers[s].status = "Stopped"
             \/ call.cmd.stoppedInstanceId = Absent /\ servers[s] = Gone
          /\ SetServer(s, [Gone EXCEPT !.status = "Running"])

Spawn(call) ==
    /\ call.action = "SpawnImage" /\ call.cmd.imageId \in images
    /\ \E s \in Server :
          /\ call.cmd.serverId \in {s, Absent} /\ Idle(servers[s])
          /\ SetServer(s, [servers[s] EXCEPT !.image = call.cmd.imageId])

\* Mutant: the id of a removed image is given again.
CreateUnderOldId(call) ==
    /\ call.action = "Create"
    /\ \E i \in Image \ images : images' = images \cup {i}
    /\ UNCHANGED <<servers, ids>>

Create(call) ==
    /\ call.action = "Create"
    /\ \E i \in Image \ ids : images' = images \cup {i} /\ ids' = ids \cup {i}
    /\ UNCHANGED servers

Remove(call) ==
    /\ call.action = "Remove" /\ Arg(call, "imageId") \in images
    /\ images' = images \ {Arg(call, "imageId")}
    /\ servers' = [s \in Server |->
                     IF servers[s].image = Arg(call, "imageId")
                     THEN [servers[s] EXCEPT !.image = Absent] ELSE servers[s]]
    /\ UNCHANGED ids

Handle(call) ==
    \/ Stop(call) \/ Terminate(call) \/ ShutdownContainer(call) \/ StartOrRun(call)
    \/ Spawn(call) \/ Create(call) \/ Remove(call)

ServedBy(s) == InUse(s) /\ ops[s].answer = "none"

\* A request is refused when no route or no handler takes it, or a call behind
\* the API fails.
ServeOperation(s) ==
    /\ ServedBy(s) /\ ops[s].step = "operation"
    /\ \/ /\ \E call \in Started(RequestOf(ops[s].intent)) : Handle(call)
          /\ ops' = [ops EXCEPT ![s].answer = "ok"]
       \/ /\ ops' = [ops EXCEPT ![s].answer = "refused"]
          /\ UNCHANGED api
    /\ UNCHANGED <<shown, lists, dialog, loading, page, bounds>>

ServeImages(s) ==
    /\ ServedBy(s) /\ ops[s].step = "list"
    /\ ops' = [ops EXCEPT ![s].answer = "ok", ![s].list = images]
    /\ UNCHANGED <<api, shown, lists, dialog, loading, page, bounds>>

ServeServers ==
    /\ Absent \in lists
    /\ lists' = (lists \ {Absent}) \cup {servers}
    /\ UNCHANGED <<api, shown, ops, dialog, loading, page, bounds>>

Fault ==
    /\ faults < MaxFaults
    /\ faults' = faults + 1
    /\ UNCHANGED <<api, shown, dialog, loading, page, events>>

\* An answer is lost after the call was served, or to an expired token.
LoseCall(s) ==
    /\ Fault
    /\ InUse(s) /\ (ops[s].answer = "ok" \/ (ServedBy(s) /\ ops[s].step = "list"))
    /\ ops' = [ops EXCEPT ![s].answer = "refused", ![s].list = {}]
    /\ UNCHANGED lists

LoseServers(list) ==
    /\ Fault
    /\ list \in lists
    /\ lists' = lists \ {list}
    /\ UNCHANGED ops

\* Another console, or EC2.
Elsewhere ==
    /\ events < MaxEvents
    /\ events' = events + 1
    /\ \/ \E s \in Server, status \in ServerInstanceStatus :
             SetServer(s, [Gone EXCEPT !.status = status])
       \/ \E i \in images : /\ images' = images \ {i}
                            /\ UNCHANGED <<servers, ids>>
    /\ UNCHANGED <<shown, lists, ops, dialog, loading, page, faults>>

-----------------------------------------------------------------------------
OfServer(s) == StopServer(s) \/ TerminateServer(s) \/ Shutdown(s) \/ StartServer(s)

OfImage(i) == ShowSpawnImageWindow(i) \/ RemoveImage(i)

Next ==
    \/ \E s \in Server : OfServer(s)
    \/ \E p \in Provider : RunInstance(p)
    \/ \E i \in Image : OfImage(i)
    \/ AddNewMonitor \/ Confirm \/ Cancel \/ \E url \in SecondLvlMenu : Navigate(url)
    \/ \E s \in Slot : Receive(s) \/ ServeOperation(s) \/ ServeImages(s) \/ LoseCall(s)
    \/ \E list \in lists : ServersListed(list) \/ LoseServers(list)
    \/ ServeServers \/ Poll \/ Elsewhere

\* Calls that are not lost are served, answers are received, and the interval
\* of the provider fires.  The user is under no obligation.  (A user starts
\* MaxEvents operations, so none of them can starve another.)
Fairness ==
    /\ WF_vars(\E s \in Slot : Receive(s) \/ ServeOperation(s) \/ ServeImages(s))
    /\ WF_vars(ServeServers) /\ WF_vars(\E list \in lists : ServersListed(list))
    /\ WF_vars(Poll)

Spec == Init /\ [][Next]_vars /\ Fairness

-----------------------------------------------------------------------------
(* Properties *)

\* What the user meant, in terms of the controllers.
Call(action, args, cmd) == [action |-> action, args |-> args, cmd |-> cmd]

Meant(intent) ==
    LET p == intent.provider  s == intent.server  i == intent.image IN
    CASE intent.kind = "stop" ->
            Call("StopServer", {<<"provider", p>>, <<"serverId", s>>}, Absent)
      [] intent.kind = "terminate" ->
            Call("TerminateServer", {<<"provider", p>>, <<"serverId", s>>}, Absent)
      [] intent.kind = "shutdown" ->
            Call("ShutdownContainer",
                 {<<"serverId", s>>, <<"providerId", p>>, <<"imageId", i>>,
                  <<"containerId", <<s, i>>>>}, Absent)
      [] intent.kind \in {"start", "run"} ->
            Call("StartOrRunServer", {}, [providerName |-> p, stoppedInstanceId |-> s])
      [] intent.kind = "spawn" ->
            Call("SpawnImage", {},
                 [imageId |-> i, parameters |-> "parameters", serverId |-> s])
      [] intent.kind = "create" ->
            Call("Create", {},
                 [imageName |-> "name", slug |-> "slug", imageType |-> "Monitor",
                  requiredSpawnParameters |-> "parameters"])
      [] intent.kind = "remove" -> Call("Remove", {<<"imageId", i>>}, Absent)

\* A request starts one action, the one the user meant, for the server and the
\* image that were clicked, however often the rows were replaced since; the lists
\* are asked for with requests of their own, and answers are read as JSON (the
\* paths, queries and bodies of the client).
RequestsAreRouted ==
    \A s \in Slot : InUse(s) /\ ops[s].step = "operation" =>
        LET request == RequestOf(ops[s].intent) IN
        /\ Started(request) = {Meant(ops[s].intent)}
        /\ request.base = ApiHostName /\ request.responseType = "json"
        /\ Started(ImagesGetAvailableImagesList) = {Call("GetAvailableImagesList", {}, Absent)}
        /\ Started(ServerInstancesGetServersList) = {Call("GetServersList", {}, Absent)}

TrackersHaveOperations ==
    \A tracker \in loading : \E s \in Slot : InUse(s) /\ ops[s].tracker = tracker

BlockedWindowsWait ==
    dialog # Absent /\ dialog.busy =>
        \E s \in Slot : /\ InUse(s) /\ ops[s].modal
                       /\ ops[s].intent.kind = dialog.intent.kind
                       /\ ops[s].intent.image = dialog.intent.image

\* An indicator that is on belongs to an operation that runs, and a window that is
\* blocked to its own, for what it asked: none stays on, nor waits for another's,
\* after refusals, new rows and changes of the page (AsyncProgressTracker, and
\* executeBlocking and showModal of the dialogs).
LoadingMeansRunning == TrackersHaveOperations /\ BlockedWindowsWait

\* The list an operation ends with was made after it: an image that was removed
\* is not in it (the order of the calls of executeRangeAsAsync).
ListsFollowOperations ==
    [][\A s \in Slot :
         InUse(s) /\ ops'[s] = Absent /\ ops[s].step = "list" /\ ops[s].intent.kind = "remove"
            => ops[s].intent.image \notin shownImages']_vars

\* The rows end up telling what the API tells, although answers overtake each
\* other and get lost (ServerNodesProvider).
ServersEventuallyShown == <>[](shownServers = servers)

\* No window stays blocked (the finally of executeBlocking and showModal), as
\* long as no list of images that an operation waits for, the window's or
\* another, got lost: invalidateImages tells nothing then.
DialogsEnd ==
    []<>(dialog = Absent \/ ~dialog.busy \/ \E s \in Slot : InUse(s) /\ ops[s].step = "hung")

\* Menu and breadcrumb lead to pages, and the breadcrumb ends with the page that
\* is shown (RoutesProvider, LayoutComponent.buildNavSegments).
LinksLeadToPages ==
    /\ \A url \in MainMenu \cup SecondLvlMenu : PageAt(url) # {}
    /\ PageAt(GetAuthenticatedRedirectUrl) = {"dashboard"}
    /\ LET nav == BuildNavSegments(Chain(page)) IN
       /\ \A i \in DOMAIN nav : PageAt(nav[i].url) # {}
       /\ PageAt(nav[Len(nav)].url) = {page}
=============================================================================

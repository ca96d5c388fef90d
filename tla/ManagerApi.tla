------------------------------ MODULE ManagerApi ------------------------------
(***************************************************************************)
(* The handlers of the manager's API, over the registry: spawn an image,   *)
(* shut a container down, create and remove an image, start or run, stop   *)
(* and terminate a server.  Those that end in a refresh run the pipeline   *)
(* of InstanceRegistry as their worker; TransactionScopeFilter commits     *)
(* when the handler did not throw.                                         *)
(*                                                                         *)
(* Requests and the hosted service run in parallel threads.  An action     *)
(* ends at each await, and where a loop looks at objects that other        *)
(* threads change.                                                         *)
(***************************************************************************)
EXTENDS InstanceRegistry

CONSTANTS
    All,       \* no container id given: all containers of the image
    NoImage,   \* a request that names no image
    Commands   \* the requests that users send

ASSUME AllAssumption == All \notin Container
ASSUME NoImageAssumption == NoImage \notin Image

ImageHandler == {"spawn", "shutdown", "createImage", "removeImage"}
ServerHandler == {"startOrRun", "stop", "terminate"}

\* What a request asks for.  A shutdown may name a container; a spawn need not
\* name a server, and a startOrRun without one runs a new server.
Command ==
    [handler : ImageHandler, image : Image,
     server : Instance \cup {NoInstance}, only : Container \cup {All}]
    \cup [handler : ServerHandler, image : {NoImage},
          server : Instance \cup {NoInstance}, only : {All}]

ASSUME CommandsAssumption == Commands \subseteq Command

VARIABLE request   \* the request every worker serves

apiVars == <<vars, request>>

\* One call of TryStopContainerAsync: the container shown that led to it, the
\* image, the container id that is passed.
Call == [info : Container \cup {All}, image : Image, only : Container \cup {All}]

NoObject == <<NoInstance, 0>>
NoCommand == [handler |-> "none", image |-> NoImage, server |-> NoInstance, only |-> All]
NoCall == [info |-> All, image |-> NoImage, only |-> All]

\* Where a handler is: it has yet to look its server up; it makes its next
\* call of TryStopContainerAsync; in such a call it awaits the list, or stops
\* and removes what was listed; it creates, or starts, a container; it calls
\* EC2; it refreshes; the filter commits.
Stopping == {"next", "list", "stop", "remove"}
Step == {"none", "begin", "create", "run", "remote", "refresh", "refreshing", "commit"}
        \cup Stopping

Request ==
    [command : Command \cup {NoCommand},
     step : Step,
     target : Object \cup {NoObject},         \* the server object it captured
     nodes : SUBSET Object,                   \* servers an image removal has yet to visit
     calls : SUBSET Call,                     \* calls it has yet to make
     call : Call \cup {NoCall},               \* the call it is in
     victims : SUBSET (Container \X BOOLEAN), \* listed, not done; was it running?
     held : Container \cup {All},             \* the container it removes or created
     modified : BOOLEAN,                      \* did the list it enumerates change?
     answer : {"none", "ok", "notFound", "badRequest", "error"}]

Idle == [command |-> NoCommand, step |-> "none", target |-> NoObject, nodes |-> {},
         calls |-> {}, call |-> NoCall, victims |-> {}, held |-> All,
         modified |-> FALSE, answer |-> "none"]

ApiTypeOK == TypeOK /\ request \in [Worker -> Request]

ApiInit == Init /\ request = [w \in Worker |-> Idle]

-----------------------------------------------------------------------------
(* Steps that handlers share *)

At(w, s) == request[w].step = s
Handles(w, h) == request[w].command.handler = h
TargetId(w) == IdOf(request[w].target)

Goes(w, s) == request' = [request EXCEPT ![w].step = s]
Answers(w, a) == request' = [request EXCEPT ![w] = [Idle EXCEPT !.answer = a]]

\* An exception passes the filter, which commits nothing.  Mutant: it is
\* answered as if the handler had returned.
Swallows(w) == Answers(w, "ok")
Throws(w) == Answers(w, "error")

\* GetClient: the Docker client of the target server.  What is not cached is
\* not reachable either.
GetClient(w) == clients[TargetId(w)]

\* The containers of the daemon a handler talks to
Held(w) == UNION {ContainersOn(i) : i \in Answering(GetClient(w))}

\* The daemon does not answer, or the call is lost or cancelled on its way.
NoReply(w) == IF Reachable(GetClient(w)) THEN Fault ELSE UNCHANGED faults

\* The call took effect; its answer may be lost.
Replies(w, next) == \/ request' = next /\ UNCHANGED faults
                    \/ Throws(w) /\ Fault

managerUnchanged == <<registryVars, imageInfos, workerVars>>

\* A request arrives.  The image it names is read from the database first.
Receive(w) ==
    /\ w # Hosted /\ At(w, "none")
    /\ requests < MaxRequests
    /\ requests' = requests + 1
    /\ \E c \in Commands :
          IF c.handler \in {"spawn", "shutdown", "removeImage"} /\ c.image \notin imageInfos
            THEN Answers(w, "notFound")
            ELSE request' = [request EXCEPT ![w] = [Idle EXCEPT !.command = c, !.step = "begin"]]
    /\ UNCHANGED <<externalVars, managerUnchanged, faults>>

\* The trailing RefreshInstancesAsync: an exception of the refresh is one of
\* the handler.
Refresh(w) ==
    /\ At(w, "refresh")
    /\ \/ DescribeInstances(w) /\ Goes(w, "refreshing")
       \/ Fault /\ Throws(w) /\ UNCHANGED <<externalVars, managerUnchanged>>
    /\ UNCHANGED requests

EndRefresh(w) ==
    /\ At(w, "refreshing") /\ phase[w] = "idle"
    /\ IF failed[w] THEN Throws(w) ELSE Goes(w, "commit")
    /\ UNCHANGED vars

\* An image that exists already cannot be inserted, one that is gone cannot be
\* deleted.
Conflicts(w) ==
    \/ Handles(w, "createImage") /\ request[w].command.image \in imageInfos
    \/ Handles(w, "removeImage") /\ request[w].command.image \notin imageInfos

\* The filter: a failing commit is answered with 400, whatever was done
\* remotely stays done.
Commit(w) ==
    LET m == request[w].command.image IN
    /\ At(w, "commit")
    /\ \/ /\ ~Conflicts(w)
          /\ imageInfos' = CASE Handles(w, "createImage") -> imageInfos \cup {m}
                             [] Handles(w, "removeImage") -> imageInfos \ {m}
                             [] OTHER -> imageInfos
          /\ Answers(w, "ok")
          /\ UNCHANGED faults
       \/ /\ IF Conflicts(w) THEN UNCHANGED faults ELSE Fault
          /\ Answers(w, "badRequest")
          /\ UNCHANGED imageInfos
    /\ UNCHANGED <<externalVars, registryVars, workerVars, requests>>

-----------------------------------------------------------------------------
(* TryStopContainerAsync *)

Asks(i, m, c) == [info |-> i, image |-> m, only |-> c]

\* The image filter of the list.  Mutant: every container of the server.
ListsEvery(c, m) == TRUE
IsOfImage(c, m) == containers[c].image = m

\* The next call: a server that is not available is passed over, which no
\* caller notices.
NextCall(w) ==
    /\ At(w, "next") /\ ~request[w].modified
    /\ \E k \in request[w].calls :
          request' = IF isAvailable[request[w].target]
                       THEN [request EXCEPT ![w].calls = @ \ {k}, ![w].call = k, ![w].step = "list"]
                       ELSE [request EXCEPT ![w].calls = @ \ {k}]
    /\ UNCHANGED vars

\* What a removal does with the exception.  Mutant: enumerate the new list.
StartsOver(w) ==
    request' = [request EXCEPT ![w].modified = FALSE, ![w].calls = {},
                               ![w].nodes = @ \cup {request[w].target}]
BreaksOff(w) == Throws(w)

\* An image removal enumerates the live list of its server: a Merge or Clear
\* since the last turn makes the enumerator throw.
ListModified(w) ==
    /\ At(w, "next") /\ request[w].modified
    /\ BreaksOff(w)
    /\ UNCHANGED vars

ListVictims(w) ==
    LET k == request[w].call
        listed == {c \in Held(w) : IsOfImage(c, k.image) /\ k.only \in {All, c}}
    IN /\ At(w, "list")
       /\ \/ /\ Reachable(GetClient(w))
             /\ request' = [request EXCEPT ![w].step = "stop",
                   ![w].victims = {<<c, containers[c].state = "running">> : c \in listed}]
             /\ UNCHANGED faults
          \/ NoReply(w) /\ Throws(w)
       /\ UNCHANGED <<externalVars, managerUnchanged, requests>>

\* The turn of the loop for one container.  One that was listed as running is
\* stopped, and ends the call when it does not run any more; another one is
\* removed at once.
StopContainer(w) ==
    LET rest(v) == [request[w] EXCEPT !.victims = @ \ {v}, !.held = v[1], !.step = "remove"]
        endOfCall == [request[w] EXCEPT !.victims = {}, !.call = NoCall, !.step = "next"]
    IN /\ At(w, "stop")
       /\ \E v \in request[w].victims :
            LET c == v[1] IN
            \/ /\ ~v[2]
               /\ request' = [request EXCEPT ![w] = rest(v)]
               /\ UNCHANGED <<containers, faults>>
            \/ /\ v[2] /\ c \in Held(w) /\ containers[c].state = "running"
               /\ Exit(c)
               /\ Replies(w, [request EXCEPT ![w] = rest(v)])
            \/ /\ v[2] /\ c \in Held(w) /\ containers[c].state # "running"
               /\ request' = [request EXCEPT ![w] = endOfCall]
               /\ UNCHANGED <<containers, faults>>
            \/ /\ v[2]
               /\ IF c \in Held(w) THEN Fault ELSE UNCHANGED faults
               /\ Throws(w)
               /\ UNCHANGED containers
       /\ UNCHANGED <<cloudVars, consoleOps, managerUnchanged, requests>>

\* A container that is gone is an exception.
RemoveContainer(w) ==
    LET c == request[w].held
    IN /\ At(w, "remove")
       /\ \/ /\ c \in Held(w)
             /\ Remove(c)
             /\ Replies(w, [request EXCEPT ![w].step = "stop", ![w].held = All])
          \/ /\ IF c \in Held(w) THEN Fault ELSE UNCHANGED faults
             /\ Throws(w)
             /\ UNCHANGED containers
       /\ UNCHANGED <<cloudVars, consoleOps, managerUnchanged, requests>>

EndCall(w) ==
    /\ At(w, "stop") /\ request[w].victims = {}
    /\ request' = [request EXCEPT ![w].step = "next", ![w].call = NoCall]
    /\ UNCHANGED vars

TryStopContainer(w) ==
    \/ NextCall(w) \/ ListModified(w)
    \/ ListVictims(w)
    \/ StopContainer(w) \/ RemoveContainer(w)
    \/ EndCall(w)

CallsDone(w) == At(w, "next") /\ ~request[w].modified /\ request[w].calls = {}

-----------------------------------------------------------------------------
(* ImagesController *)

\* Pull the image to the local daemon, find its id, add the row.
CreateImage(w) ==
    /\ At(w, "begin") /\ Handles(w, "createImage")
    /\ \/ Goes(w, "commit") /\ UNCHANGED faults
       \/ Fault /\ Throws(w)
    /\ UNCHANGED <<externalVars, managerUnchanged, requests>>

\* GetRangeRunningImage
RemoveImage(w) ==
    LET m == request[w].command.image IN
    /\ At(w, "begin") /\ Handles(w, "removeImage")
    /\ request' = [request EXCEPT ![w].step = "next",
          ![w].nodes = {o \in Registered : IsRunning(o) /\ \E c \in images[o] : IsOfImage(c, m)}]
    /\ UNCHANGED vars

\* The loop reaches the next server and enumerates the list it has now.
VisitNode(w) ==
    LET m == request[w].command.image IN
    /\ CallsDone(w)
    /\ \E o \in request[w].nodes :
         request' = [request EXCEPT ![w].nodes = @ \ {o}, ![w].target = o,
                        ![w].calls = {Asks(c, m, c) : c \in {d \in images[o] : IsOfImage(d, m)}}]
    /\ UNCHANGED vars

\* Remove(image), whatever the calls returned
DeleteRow(w) ==
    /\ CallsDone(w) /\ Handles(w, "removeImage") /\ request[w].nodes = {}
    /\ Goes(w, "commit")
    /\ UNCHANGED vars

\* The choice of the server.  Mutant: idle is enough.
IsIdleOnly(o) == IsIdle(o)
IsAvailableIdle(o) == isAvailable[o] /\ IsIdle(o)

\* The first available idle server, or the one that was asked for
PickServer(w) ==
    LET s == request[w].command.server
        fitting == {o \in Registered : IsAvailableIdle(o) /\ s \in {NoInstance, IdOf(o)}}
    IN /\ At(w, "begin") /\ Handles(w, "spawn")
       /\ \/ \E o \in fitting : request' = [request EXCEPT ![w].target = o, ![w].step = "create"]
          \/ fitting = {} /\ Answers(w, "notFound")
       /\ UNCHANGED vars

\* Pull the image there, and create a container.  A daemon without room for one
\* refuses.
CreateContainer(w) ==
    LET room == Reachable(GetClient(w)) /\ \E c \in Container : containers[c].home = NoInstance
    IN
    /\ At(w, "create")
    /\ \/ \E c \in Container, i \in Answering(GetClient(w)) :
             /\ Create(c, i, request[w].command.image)
             /\ Replies(w, [request EXCEPT ![w].held = c, ![w].step = "run"])
       \/ /\ IF room THEN Fault ELSE UNCHANGED faults
          /\ Throws(w)
          /\ UNCHANGED containers
    /\ UNCHANGED <<cloudVars, consoleOps, managerUnchanged, requests>>

\* A container that cannot be started stays behind.
StartContainer(w) ==
    LET c == request[w].held
        startable == c \in Held(w) /\ containers[c].state # "running"
    IN /\ At(w, "run")
       /\ \/ /\ startable
             /\ Run(c)
             /\ Replies(w, [request EXCEPT ![w].held = All, ![w].step = "refresh"])
          \/ /\ IF startable THEN Fault ELSE UNCHANGED faults
             /\ Throws(w)
             /\ UNCHANGED containers
       /\ UNCHANGED <<cloudVars, consoleOps, managerUnchanged, requests>>

\* GetRunningById
ShutdownContainer(w) ==
    LET k == request[w].command
        fits == k.server # NoInstance /\ registry[k.server] # 0 /\ IsRunning(Current(k.server))
    IN /\ At(w, "begin") /\ Handles(w, "shutdown")
       /\ \/ /\ fits
             /\ request' = [request EXCEPT ![w].target = Current(k.server), ![w].step = "next",
                               ![w].calls = {Asks(All, k.image, k.only)}]
          \/ ~fits /\ Answers(w, "notFound")
       /\ UNCHANGED vars

\* The result of the call is not looked at.
ContainerShutDown(w) ==
    /\ CallsDone(w) /\ Handles(w, "shutdown")
    /\ Goes(w, "refresh")
    /\ UNCHANGED vars

-----------------------------------------------------------------------------
(* ServerInstancesController, InfrastructureClientBase *)

\* startOrRun looks for a stopped server, stop for a running one, terminate
\* for either.
LookUpServer(w) ==
    LET s == request[w].command.server
        o == Current(s)
        fits == /\ s # NoInstance /\ registry[s] # 0
                /\ \/ IsRunning(o) /\ request[w].command.handler \in {"stop", "terminate"}
                   \/ IsStopped(o) /\ request[w].command.handler \in {"startOrRun", "terminate"}
        toRun == s = NoInstance /\ Handles(w, "startOrRun")
    IN /\ At(w, "begin") /\ request[w].command.handler \in ServerHandler
       /\ \/ toRun /\ Goes(w, "remote")
          \/ /\ fits /\ Handles(w, "startOrRun")
             /\ request' = [request EXCEPT ![w].target = o, ![w].step = "remote"]
          \/ /\ fits /\ ~Handles(w, "startOrRun")
             /\ request' = [request EXCEPT ![w].target = o, ![w].step = "next",
                               ![w].calls = {Asks(c, containers[c].image, All) : c \in images[o]}]
          \/ ~toRun /\ ~fits /\ Handles(w, "startOrRun") /\ Answers(w, "notFound")
          \/ ~fits /\ ~Handles(w, "startOrRun") /\ Answers(w, "badRequest")
       /\ UNCHANGED vars

\* The removal of an image that enumerates the list of an object
Enumerates(w, o) ==
    Handles(w, "removeImage") /\ request[w].step \in Stopping /\ request[w].target = o

\* The end of ShutdownContainersAsync, whatever the calls returned
ClearServer(w) ==
    LET o == request[w].target IN
    /\ CallsDone(w) /\ request[w].command.handler \in ServerHandler
    /\ images' = [images EXCEPT ![o] = {}]
    /\ dnsName' = [dnsName EXCEPT ![o] = NoAddress]
    /\ Checked(o, FALSE)
    /\ request' = [v \in Worker |->
          IF v = w THEN [request[w] EXCEPT !.step = "remote"]
                   ELSE [request[v] EXCEPT !.modified = @ \/ Enumerates(v, o)]]
    /\ UNCHANGED <<externalVars, registry, born, status, clients, imageInfos, workerVars, boundVars>>

\* RunOrStartRemoteInstanceAsync, StopRemoteInstanceAsync, TerminateRemoteInstanceAsync
CallEc2(w) ==
    LET i == TargetId(w) IN
    \/ Handles(w, "startOrRun") /\ i = NoInstance /\ RunInstances
    \/ Handles(w, "startOrRun") /\ i # NoInstance /\ IsStopped(request[w].target) /\ StartInstances(i)
    \/ Handles(w, "stop") /\ StopInstances(i)
    \/ Handles(w, "terminate") /\ TerminateInstances(i)

\* What EC2 refuses is an exception, and so is starting an instance that is
\* not stopped any more.
Refused(w) ==
    LET i == TargetId(w) IN
    \/ Handles(w, "startOrRun") /\ i = NoInstance /\ \A j \in Instance \ Foreign : cloud[j] # "unlaunched"
    \/ /\ Handles(w, "startOrRun") /\ i # NoInstance
       /\ ~IsStopped(request[w].target) \/ cloud[i] \notin {"stopped", "pending", "running"}
    \/ Handles(w, "stop") /\ cloud[i] \notin {"running", "stopping", "stopped"}
    \/ Handles(w, "terminate") /\ cloud[i] = "gone"

RemoteCall(w) ==
    /\ At(w, "remote")
    /\ \/ CallEc2(w) /\ Replies(w, [request EXCEPT ![w].step = "refresh"])
       \/ /\ IF Refused(w) THEN UNCHANGED faults ELSE Fault
          /\ Throws(w)
          /\ UNCHANGED cloudVars
    /\ UNCHANGED <<containers, consoleOps, managerUnchanged, requests>>

-----------------------------------------------------------------------------
HandlerStep(w) ==
    \/ CreateImage(w)
    \/ RemoveImage(w) \/ VisitNode(w) \/ DeleteRow(w)
    \/ PickServer(w) \/ CreateContainer(w) \/ StartContainer(w)
    \/ ShutdownContainer(w) \/ ContainerShutDown(w)
    \/ LookUpServer(w) \/ ClearServer(w) \/ RemoteCall(w)
    \/ TryStopContainer(w)
    \/ Refresh(w) \/ EndRefresh(w)
    \/ Commit(w)

\* A step of somebody's refresh.  A merged list is not enumerated any further.
PipelineStep(w) ==
    /\ RefreshStep(w) \/ RemoteCallFails(w)
    /\ request' = [v \in Worker |-> [request[v] EXCEPT !.modified =
          @ \/ \E o \in Object : /\ Enumerates(v, o)
                                 /\ probe[w][o] = "answer" /\ probe'[w][o] = "none"]]

Outside == External /\ UNCHANGED request

HostedBegins == HostedRefresh /\ UNCHANGED request

ApiNext ==
    \/ Outside
    \/ HostedBegins
    \/ \E w \in Worker : Receive(w) \/ HandlerStep(w) \/ PipelineStep(w)

\* As in InstanceRegistry; a handler that runs is not abandoned.  Nobody has
\* to send requests.
ApiFairness ==
    /\ \A i \in Instance : WF_apiVars(Outside /\ CloudProgress(i))
    /\ WF_apiVars(HostedBegins)
    /\ \A w \in Worker : WF_apiVars(HandlerStep(w) \/ (PipelineStep(w) /\ RefreshStep(w)))

ApiSpec == ApiInit /\ [][ApiNext]_apiVars /\ ApiFairness

-----------------------------------------------------------------------------
(* Properties *)

\* GetClient never throws "Client for ... not connected" in the middle of a
\* handler: from the moment a server was picked because it was available,
\* through every await, it has a Docker client.
HandlersHaveClients ==
    \A w \in Worker :
        request[w].step \in {"create", "run", "list", "stop", "remove"} => GetClient(w) # NoAddress

\* A handler may touch this container: it works for a request for it.  A spawn
\* makes one, of its image, and starts the one it made; a request for servers or
\* for containers stops and removes.
MayTouch(w, c) ==
    LET k == request[w].command
        ended == containers'[c].state \in {"exited", "absent"}
    IN
    \/ /\ At(w, "create") /\ containers[c].state = "absent"
       /\ containers'[c].state = "created" /\ containers'[c].image = k.image
       /\ k.server \in {NoInstance, containers'[c].home}
    \/ At(w, "run") /\ request[w].held = c /\ containers'[c].state = "running"
    \/ /\ Handles(w, "shutdown") /\ containers[c].home = k.server
       /\ containers[c].image = k.image /\ k.only \in {All, c} /\ ended
    \/ Handles(w, "removeImage") /\ containers[c].image = k.image /\ ended
    \/ k.handler \in {"stop", "terminate"} /\ containers[c].home = k.server /\ ended

\* As long as EC2 hands out fresh DNS names, handlers create, stop and remove
\* only containers that a request under way is for: of the image, the server
\* and the id it names, whatever was listed, cached or replaced in between.
OnlyRequested ==
    [][ ~ReuseAddresses /\ consoleOps' = consoleOps =>
          \A c \in Container : containers'[c] # containers[c] =>
              \E w \in Worker \ {Hosted} : MayTouch(w, c) ]_apiVars

\* A handler may make EC2 move this server: it works for a request for it, or
\* to run a new one.
MayMove(w, i) ==
    LET k == request[w].command IN
    \/ /\ cloud'[i] = "pending" /\ k.handler = "startOrRun"
       /\ k.server = IF cloud[i] = "unlaunched" THEN NoInstance ELSE i
    \/ cloud'[i] = "stopping" /\ k.handler = "stop" /\ k.server = i
    \/ cloud'[i] = "shutting-down" /\ k.handler = "terminate" /\ k.server = i

\* Servers are run, started, stopped and terminated only for a request under
\* way that asks for just that, never those with another key: whatever else
\* refreshes, the server object looked up first leads to the right instance.
OnlyRequestedServers ==
    [][ consoleOps' = consoleOps =>
          \A i \in Instance :
              cloud'[i] # cloud[i] /\ cloud'[i] \in {"pending", "stopping", "shutting-down"} =>
                  i \notin Foreign /\ \E w \in Worker \ {Hosted} : MayMove(w, i) ]_apiVars

\* What users and the account's owner see of a request
Stage(w) ==
    LET s == request[w].step IN
    CASE s = "none" -> "none"
      [] s = "begin" -> "new"
      [] s = "run" -> "made"
      [] s \in {"refresh", "refreshing", "commit"} -> "over"
      [] OTHER -> "open"

JobOf(w) ==
    [command |-> request[w].command, stage |-> Stage(w),
     made |-> IF At(w, "run") THEN request[w].held ELSE All,
     answer |-> request[w].answer]

Account == INSTANCE ManagedAccount WITH
    Caller <- Worker \ {Hosted},
    job <- [w \in Worker \ {Hosted} |-> JobOf(w)]

\* Handlers, refreshes and the service together keep the promises of
\* ManagedAccount: a request does what it asks for, once, and nothing else, and
\* the answer tells what was done.
ImplementsAccount == Account!Spec

\* Every request is answered, whatever fails and whoever else refreshes.
RequestsAreAnswered == \A w \in Worker : request[w].step # "none" ~> request[w].step = "none"

\* "No available idle servers found to spawn image" (ImagesController), "Please
\* make sure there are available idle servers" (server-images-page.component.ts):
\* a monitor is spawned only on a server that runs none.
SpawnsOnIdleServers ==
    [][ \A c \in Container : containers[c].state = "absent" /\ containers'[c].state = "created" =>
          ContainersOn(containers'[c].home) = {} ]_apiVars
=============================================================================

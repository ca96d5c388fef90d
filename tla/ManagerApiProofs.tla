--------------------------- MODULE ManagerApiProofs ---------------------------
(***************************************************************************)
(* Proofs about ManagerApi, for any servers, containers and requests: the  *)
(* types, that a handler never loses the Docker client of the server it    *)
(* picked, that handlers change only containers and servers a request is   *)
(* for, and that the registry keeps its own properties under them.         *)
(***************************************************************************)
EXTENDS ManagerApi, InstanceRegistryProofs

\* Where every request is, without the variables of the registry.
RequestTypeOK == request \in [Worker -> Request]

-----------------------------------------------------------------------------
(* What the operators that handlers share assign *)

\* The names of the steps.
LEMMA Steps ==
    /\ {"begin", "create", "run", "remote", "refresh", "refreshing", "commit"} \subseteq Step
    /\ {"none", "next", "list", "stop", "remove"} \subseteq Step
  BY DEF Step, Stopping

\* The request of one worker changes.
LEMMA EditType ==
    ASSUME RequestTypeOK, NEW w \in Worker, NEW r \in Request, request' = [request EXCEPT ![w] = r]
    PROVE  RequestTypeOK'
  BY DEF RequestTypeOK

\* A handler goes to a step there is.
LEMMA GoesType ==
    ASSUME RequestTypeOK, NEW w \in Worker, NEW s \in Step, Goes(w, s)
    PROVE  RequestTypeOK'
<1>1. request' = [request EXCEPT ![w] = [request[w] EXCEPT !.step = s]]
  BY DEF Goes, RequestTypeOK
<1>2. [request[w] EXCEPT !.step = s] \in Request
  BY DEF RequestTypeOK, Request
<1> QED
  BY <1>1, <1>2, EditType

\* An answer ends the request.
LEMMA AnswersType ==
    ASSUME RequestTypeOK, NEW w \in Worker,
           NEW a \in {"none", "ok", "notFound", "badRequest", "error"}, Answers(w, a)
    PROVE  RequestTypeOK'
<1>1. [Idle EXCEPT !.answer = a] \in Request
  BY Steps DEF Idle, Request
<1> QED
  BY <1>1, EditType DEF Answers

\* So does an exception.
LEMMA ThrowsType ==
    ASSUME RequestTypeOK, NEW w \in Worker, Throws(w)
    PROVE  RequestTypeOK'
  BY AnswersType DEF Throws

-----------------------------------------------------------------------------
(* Steps of handlers *)

\* The objects of the registry.
LEMMA RegisteredObjects ==
    ASSUME TypeOK
    PROVE  /\ Registered \subseteq Object
           /\ \A i \in Instance : registry[i] # 0 => Current(i) \in Object /\ IdOf(Current(i)) = i
  BY BoundsAssumption DEF Registered, Current, Object, IdOf, TypeOK, RegistryTypeOK

\* TryStopContainerAsync moves through its own records.
LEMMA TryStopType ==
    ASSUME TypeOK, RequestTypeOK, NEW w \in Worker, TryStopContainer(w)
    PROVE  RequestTypeOK'
<1> DEFINE r == request[w]
<1>1. request \in [Worker -> Request] /\ r \in Request
  BY DEF RequestTypeOK
<1>2. CASE NextCall(w)
  <2>1. PICK k \in r.calls : \/ request' = [request EXCEPT ![w] =
                                     [r EXCEPT !.calls = @ \ {k}, !.call = k, !.step = "list"]]
                             \/ request' = [request EXCEPT ![w] = [r EXCEPT !.calls = @ \ {k}]]
    BY <1>1, <1>2 DEF NextCall
  <2>2. /\ [r EXCEPT !.calls = @ \ {k}, !.call = k, !.step = "list"] \in Request
        /\ [r EXCEPT !.calls = @ \ {k}] \in Request
    BY <1>1, Steps DEF Request
  <2> QED
    BY <2>1, <2>2, EditType
<1>3. CASE ListVictims(w)
  <2> DEFINE listed == {c \in Held(w) : IsOfImage(c, r.call.image) /\ r.call.only \in {All, c}}
             runs(c) == containers[c].state = "running"
             now == {<<c, runs(c)>> : c \in listed}
  <2>1. listed \subseteq Container
    BY DEF Held, ContainersOn
  <2>2. now \in SUBSET (Container \X BOOLEAN)
    <3>1. \A c \in listed : runs(c) \in BOOLEAN
      OBVIOUS
    <3> HIDE DEF runs, listed
    <3> QED
      BY <2>1, <3>1
  <2>3. \/ request' = [request EXCEPT ![w].step = "stop", ![w].victims = now]
        \/ Throws(w)
    BY <1>3 DEF ListVictims
  <2> HIDE DEF now
  <2>4. [r EXCEPT !.step = "stop", !.victims = now] \in Request
    BY <1>1, <2>2, Steps DEF Request
  <2>5. \/ request' = [request EXCEPT ![w] = [r EXCEPT !.step = "stop", !.victims = now]]
        \/ Throws(w)
    BY <1>1, <2>3
  <2> QED
    BY <2>4, <2>5, EditType, ThrowsType
<1>4. CASE StopContainer(w)
  <2> DEFINE rest(v) == [r EXCEPT !.victims = @ \ {v}, !.held = v[1], !.step = "remove"]
             endOfCall == [r EXCEPT !.victims = {}, !.call = NoCall, !.step = "next"]
  <2>1. endOfCall \in Request
    BY <1>1, Steps DEF Request
  <2>2. ASSUME NEW v \in r.victims PROVE rest(v) \in Request
    <3>1. v[1] \in Container
      BY <1>1 DEF Request
    <3> QED
      BY <1>1, <3>1, Steps DEF Request
  <2>3. \/ \E v \in r.victims : request' = [request EXCEPT ![w] = rest(v)]
        \/ request' = [request EXCEPT ![w] = endOfCall]
        \/ Throws(w)
    BY <1>4 DEF StopContainer, Replies
  <2> HIDE DEF rest, endOfCall
  <2> QED
    BY <2>1, <2>2, <2>3, ThrowsType, EditType
<1>5. CASE RemoveContainer(w)
  <2>1. \/ request' = [request EXCEPT ![w] = [r EXCEPT !.step = "stop", !.held = All]]
        \/ Throws(w)
    BY <1>1, <1>5 DEF RemoveContainer, Replies
  <2>2. [r EXCEPT !.step = "stop", !.held = All] \in Request
    BY <1>1, Steps DEF Request
  <2> QED
    BY <2>1, <2>2, ThrowsType, EditType
<1>6. CASE EndCall(w)
  <2>1. request' = [request EXCEPT ![w] = [r EXCEPT !.step = "next", !.call = NoCall]]
    BY <1>1, <1>6 DEF EndCall
  <2>2. [r EXCEPT !.step = "next", !.call = NoCall] \in Request
    BY <1>1, Steps DEF Request
  <2> QED
    BY <2>1, <2>2, EditType
<1>7. CASE ListModified(w)
  BY <1>7, ThrowsType DEF ListModified, BreaksOff
<1> QED
  BY <1>2, <1>3, <1>4, <1>5, <1>6, <1>7 DEF TryStopContainer

\* The handlers' own steps.
LEMMA HandlerStepType ==
    ASSUME TypeOK, RequestTypeOK, NEW w \in Worker, HandlerStep(w)
    PROVE  RequestTypeOK'
<1> DEFINE r == request[w]
<1>1. request \in [Worker -> Request] /\ r \in Request
  BY DEF RequestTypeOK
<1>2. r.command \in Command => r.command.image \in Image \cup {NoImage}
  BY DEF Command
<1>3. CASE \E s \in Step : Goes(w, s)
  BY <1>3, GoesType
<1>4. CASE \E a \in {"none", "ok", "notFound", "badRequest", "error"} : Answers(w, a)
  BY <1>4, AnswersType
<1>5. CASE CreateImage(w) \/ DeleteRow(w) \/ ContainerShutDown(w) \/ Refresh(w) \/ EndRefresh(w)
  BY <1>3, <1>4, <1>5, Steps DEF CreateImage, DeleteRow, ContainerShutDown, Refresh, EndRefresh, Throws
<1>6. CASE Commit(w)
  BY <1>4, <1>6 DEF Commit
<1>7. CASE RemoveImage(w)
  <2> DEFINE nodes == {o \in Registered :
                         IsRunning(o) /\ \E c \in images[o] : IsOfImage(c, r.command.image)}
  <2>1. nodes \in SUBSET Object
    BY RegisteredObjects
  <2>2. request' = [request EXCEPT ![w].step = "next", ![w].nodes = nodes]
    BY <1>7 DEF RemoveImage
  <2> HIDE DEF nodes
  <2>3. request' = [request EXCEPT ![w] = [r EXCEPT !.step = "next", !.nodes = nodes]]
    BY <1>1, <2>2
  <2>4. [r EXCEPT !.step = "next", !.nodes = nodes] \in Request
    BY <1>1, <2>1, Steps DEF Request
  <2> QED
    BY <2>3, <2>4, EditType
<1>8. CASE VisitNode(w)
  <2>1. PICK o \in r.nodes :
          request' = [request EXCEPT ![w].nodes = @ \ {o}, ![w].target = o,
             ![w].calls = {Asks(c, r.command.image, c) :
                             c \in {d \in images[o] : IsOfImage(d, r.command.image)}}]
    BY <1>8 DEF VisitNode
  <2> DEFINE calls == {Asks(c, r.command.image, c) :
                         c \in {d \in images[o] : IsOfImage(d, r.command.image)}}
  <2>2. o \in Object
    BY <1>1 DEF Request
  <2>3. calls \in SUBSET Call
    <3>1. images[o] \subseteq Container /\ \A c \in images[o] : containers[c].image \in Image
      BY <2>2 DEF TypeOK, RegistryTypeOK, ExternalTypeOK, ContainerRecord
    <3> QED
      BY <3>1 DEF Asks, Call, IsOfImage
  <2> HIDE DEF calls
  <2>4. request' = [request EXCEPT ![w] = [r EXCEPT !.nodes = @ \ {o}, !.target = o, !.calls = calls]]
    BY <1>1, <2>1 DEF calls
  <2>5. [r EXCEPT !.nodes = @ \ {o}, !.target = o, !.calls = calls] \in Request
    BY <1>1, <2>2, <2>3 DEF Request
  <2> QED
    BY <2>4, <2>5, EditType
<1>9. CASE PickServer(w)
  <2>1. \/ \E o \in Object : request' = [request EXCEPT ![w].target = o, ![w].step = "create"]
        \/ Answers(w, "notFound")
    BY <1>9, RegisteredObjects DEF PickServer
  <2>2. ASSUME NEW o \in Object PROVE [r EXCEPT !.target = o, !.step = "create"] \in Request
    BY <1>1, Steps DEF Request
  <2>3. \/ \E o \in Object :
              request' = [request EXCEPT ![w] = [r EXCEPT !.target = o, !.step = "create"]]
        \/ Answers(w, "notFound")
    BY <1>1, <2>1
  <2> QED
    BY <1>4, <2>2, <2>3, EditType
<1>10. CASE CreateContainer(w)
  <2>1. \/ \E c \in Container : request' = [request EXCEPT ![w] = [r EXCEPT !.held = c, !.step = "run"]]
        \/ Throws(w)
    BY <1>1, <1>10 DEF CreateContainer, Replies
  <2>2. ASSUME NEW c \in Container PROVE [r EXCEPT !.held = c, !.step = "run"] \in Request
    BY <1>1, Steps DEF Request
  <2> QED
    BY <2>1, <2>2, EditType, ThrowsType
<1>11. CASE StartContainer(w)
  <2>1. \/ request' = [request EXCEPT ![w] = [r EXCEPT !.held = All, !.step = "refresh"]]
        \/ Throws(w)
    BY <1>1, <1>11 DEF StartContainer, Replies
  <2>2. [r EXCEPT !.held = All, !.step = "refresh"] \in Request
    BY <1>1, Steps DEF Request
  <2> QED
    BY <2>1, <2>2, EditType, ThrowsType
<1>12. CASE ShutdownContainer(w)
  <2> DEFINE k == r.command
             calls == {Asks(All, k.image, k.only)}
  <2>1. \/ /\ Handles(w, "shutdown") /\ k.server # NoInstance /\ registry[k.server] # 0
           /\ request' = [request EXCEPT ![w].target = Current(k.server), ![w].step = "next",
                             ![w].calls = calls]
        \/ Answers(w, "notFound")
    BY <1>12 DEF ShutdownContainer
  <2>2. CASE Handles(w, "shutdown") /\ k.server # NoInstance /\ registry[k.server] # 0
    <3>1. k \in Command /\ k.image \in Image /\ k.only \in Container \cup {All} /\ k.server \in Instance
      BY <1>1, <2>2 DEF Handles, Request, NoCommand, Command, ImageHandler, ServerHandler
    <3>2. Current(k.server) \in Object /\ calls \in SUBSET Call
      BY <2>2, <3>1, RegisteredObjects DEF Asks, Call
    <3> HIDE DEF calls
    <3>3. [r EXCEPT !.target = Current(k.server), !.step = "next", !.calls = calls] \in Request
      BY <1>1, <3>2, Steps DEF Request
    <3>4. \/ request' = [request EXCEPT ![w] =
                [r EXCEPT !.target = Current(k.server), !.step = "next", !.calls = calls]]
          \/ Answers(w, "notFound")
      BY <1>1, <2>1
    <3> QED
      BY <1>4, <3>3, <3>4, EditType
  <2> QED
    BY <1>4, <2>1, <2>2
<1>13. CASE LookUpServer(w)
  <2> DEFINE s == r.command.server
             o == Current(s)
             calls == {Asks(c, containers[c].image, All) : c \in images[o]}
  <2>1. \/ Goes(w, "remote")
        \/ /\ s # NoInstance /\ registry[s] # 0
           /\ \/ request' = [request EXCEPT ![w].target = o, ![w].step = "remote"]
              \/ request' = [request EXCEPT ![w].target = o, ![w].step = "next", ![w].calls = calls]
        \/ Answers(w, "notFound") \/ Answers(w, "badRequest")
    BY <1>13 DEF LookUpServer
  <2>2. CASE r.command \in Command /\ s # NoInstance /\ registry[s] # 0
    <3>1. o \in Object
      BY <2>2, RegisteredObjects DEF Command
    <3>2. calls \in SUBSET Call
      <4>1. images[o] \subseteq Container /\ \A c \in images[o] : containers[c].image \in Image
        BY <3>1 DEF TypeOK, RegistryTypeOK, ExternalTypeOK, ContainerRecord
      <4> QED
        BY <4>1 DEF Asks, Call
    <3> HIDE DEF calls
    <3>3. /\ [r EXCEPT !.target = o, !.step = "next", !.calls = calls] \in Request
          /\ [r EXCEPT !.target = o, !.step = "remote"] \in Request
      BY <1>1, <3>1, <3>2, Steps DEF Request
    <3>4. \/ Goes(w, "remote")
          \/ request' = [request EXCEPT ![w] = [r EXCEPT !.target = o, !.step = "remote"]]
          \/ request' = [request EXCEPT ![w] =
                [r EXCEPT !.target = o, !.step = "next", !.calls = calls]]
          \/ Answers(w, "notFound") \/ Answers(w, "badRequest")
      BY <1>1, <2>1
    <3> QED
      BY <1>3, <1>4, <3>3, <3>4, EditType, Steps
  <2>3. r.command \in Command
    BY <1>1, <1>13 DEF LookUpServer, Request, NoCommand, ServerHandler
  <2> QED
    BY <1>3, <1>4, <2>1, <2>2, <2>3, Steps
<1>14. CASE ClearServer(w)
  <2> DEFINE one(v) == [request[v] EXCEPT !.modified = @ \/ Enumerates(v, r.target)]
             here == [r EXCEPT !.step = "remote"]
  <2>1. request' = [v \in Worker |-> IF v = w THEN here ELSE one(v)]
    BY <1>14 DEF ClearServer
  <2>2. here \in Request
    BY <1>1, Steps DEF Request
  <2>3. ASSUME NEW v \in Worker PROVE one(v) \in Request
    <3> DEFINE b == request[v].modified \/ Enumerates(v, r.target)
    <3>1. request[v] \in Request /\ b \in BOOLEAN
      BY <1>1
    <3> HIDE DEF b
    <3>2. [request[v] EXCEPT !.modified = b] \in Request
      BY <3>1 DEF Request
    <3> QED
      BY <3>2 DEF b
  <2> HIDE DEF one, here
  <2> QED
    BY <2>1, <2>2, <2>3 DEF RequestTypeOK
<1>15. CASE RemoteCall(w)
  <2>1. \/ request' = [request EXCEPT ![w] = [r EXCEPT !.step = "refresh"]]
        \/ Throws(w)
    BY <1>1, <1>15 DEF RemoteCall, Replies
  <2>2. [r EXCEPT !.step = "refresh"] \in Request
    BY <1>1, Steps DEF Request
  <2> QED
    BY <2>1, <2>2, EditType, ThrowsType
<1> QED
  BY <1>5, <1>6, <1>7, <1>8, <1>9, <1>10, <1>11, <1>12, <1>13, <1>14, <1>15, TryStopType
     DEF HandlerStep

\* A request that arrives is one of the commands, or is answered at once.
LEMMA ReceiveType ==
    ASSUME RequestTypeOK, NEW w \in Worker, Receive(w)
    PROVE  RequestTypeOK'
<1>1. \/ \E c \in Commands :
            request' = [request EXCEPT ![w] = [Idle EXCEPT !.command = c, !.step = "begin"]]
      \/ Answers(w, "notFound")
  BY DEF Receive
<1>2. ASSUME NEW c \in Commands
      PROVE  [Idle EXCEPT !.command = c, !.step = "begin"] \in Request
  <2>1. c \in Command
    BY CommandsAssumption
  <2> QED
    BY <2>1, Steps DEF Idle, Request
<1> QED
  BY <1>1, <1>2, EditType, AnswersType

\* A merge sets a flag of the requests whose list it modifies.
LEMMA PipelineStepType ==
    ASSUME RequestTypeOK, NEW w \in Worker, PipelineStep(w)
    PROVE  RequestTypeOK'
<1> DEFINE modifies(v) == request[v].modified \/ \E o \in Object :
                /\ Enumerates(v, o) /\ probe[w][o] = "answer" /\ probe'[w][o] = "none"
           one(v) == [request[v] EXCEPT !.modified = modifies(v)]
<1>1. request' = [v \in Worker |-> one(v)]
  BY DEF PipelineStep, RequestTypeOK
<1>2. ASSUME NEW v \in Worker PROVE one(v) \in Request
  <2>1. request[v] \in Request /\ modifies(v) \in BOOLEAN
    BY DEF RequestTypeOK
  <2> HIDE DEF modifies
  <2>2. [request[v] EXCEPT !.modified = modifies(v)] \in Request
    BY <2>1 DEF Request
  <2> QED
    BY <2>2
<1> HIDE DEF one
<1> QED
  BY <1>1, <1>2 DEF RequestTypeOK

-----------------------------------------------------------------------------
(* The registry's types under the handlers *)

\* Instances move through the states of EC2.
LEMMA CallEc2Type ==
    ASSUME TypeOK, NEW w \in Worker, CallEc2(w)
    PROVE  cloud' \in [Instance -> CloudState] /\ UNCHANGED <<addr, owner>>
  BY DEF CallEc2, RunInstances, StartInstances, StopInstances, TerminateInstances, Launch, Start,
     Stop, Terminate, Move, cloudVars, CloudState, TypeOK, ExternalTypeOK

\* What a handler's step other than its refresh leaves alone.
LEMMA HandlerFrame ==
    ASSUME NEW w \in Worker, HandlerStep(w), ~DescribeInstances(w)
    PROVE  UNCHANGED <<addr, owner, consoleOps, registry, born, status, clients, workerVars, requests>>
<1> USE DEF vars, externalVars, cloudVars, registryVars, objectVars, managerUnchanged, boundVars
<1>1. CASE CreateImage(w) \/ RemoveImage(w) \/ VisitNode(w) \/ DeleteRow(w)
  BY <1>1 DEF CreateImage, RemoveImage, VisitNode, DeleteRow
<1>2. CASE PickServer(w) \/ CreateContainer(w) \/ StartContainer(w)
  BY <1>2 DEF PickServer, CreateContainer, StartContainer
<1>3. CASE ShutdownContainer(w) \/ ContainerShutDown(w) \/ LookUpServer(w) \/ ClearServer(w)
  BY <1>3 DEF ShutdownContainer, ContainerShutDown, LookUpServer, ClearServer
<1>4. CASE RemoteCall(w)
  <2>1. UNCHANGED <<addr, owner>>
    BY <1>4 DEF RemoteCall, CallEc2, RunInstances, StartInstances, StopInstances,
       TerminateInstances, Launch, Start, Stop, Terminate
  <2> QED
    BY <1>4, <2>1 DEF RemoteCall
<1>5. CASE TryStopContainer(w)
  BY <1>5 DEF TryStopContainer, NextCall, ListModified, ListVictims, StopContainer,
     RemoveContainer, EndCall
<1>6. CASE Refresh(w) \/ EndRefresh(w) \/ Commit(w)
  BY <1>6 DEF Refresh, EndRefresh, Commit
<1> QED
  BY <1>1, <1>2, <1>3, <1>4, <1>5, <1>6 DEF HandlerStep

\* What a handler does to containers: a created one gets its home and image for
\* ever, whatever is done to it later.
LEMMA HandlerContainers ==
    ASSUME TypeOK, NEW w \in Worker, HandlerStep(w)
    PROVE  \/ UNCHANGED containers
           \/ \E c \in Container, i \in Answering(GetClient(w)) :
                 /\ At(w, "create") /\ Create(c, i, request[w].command.image)
           \/ At(w, "run") /\ Run(request[w].held)
           \/ At(w, "stop") /\ \E v \in request[w].victims : Exit(v[1])
           \/ At(w, "remove") /\ Remove(request[w].held)
<1> USE DEF vars, externalVars, managerUnchanged
<1>1. CASE CreateImage(w) \/ RemoveImage(w) \/ VisitNode(w) \/ DeleteRow(w) \/ PickServer(w)
  BY <1>1 DEF CreateImage, RemoveImage, VisitNode, DeleteRow, PickServer
<1>2. CASE \/ ShutdownContainer(w) \/ ContainerShutDown(w)
           \/ LookUpServer(w) \/ ClearServer(w) \/ RemoteCall(w)
  BY <1>2 DEF ShutdownContainer, ContainerShutDown, LookUpServer, ClearServer, RemoteCall
<1>3. CASE CreateContainer(w) \/ StartContainer(w)
  BY <1>3 DEF CreateContainer, StartContainer
<1>4. CASE TryStopContainer(w)
  BY <1>4 DEF TryStopContainer, NextCall, ListModified, ListVictims, StopContainer,
     RemoveContainer, EndCall
<1>5. CASE Refresh(w) \/ EndRefresh(w) \/ Commit(w)
  BY <1>5 DEF Refresh, EndRefresh, Commit, DescribeInstances
<1> QED
  BY <1>1, <1>2, <1>3, <1>4, <1>5 DEF HandlerStep

-----------------------------------------------------------------------------
(* What a handler knows of its request *)

StopHandler == {"shutdown", "removeImage", "stop", "terminate"}

\* A call of TryStopContainerAsync asks for what the request names.
Matches(command, k) ==
    /\ command.handler \in {"shutdown", "removeImage"} => k.image = command.image
    /\ command.handler = "shutdown" => k.only = command.only

\* The steps at which the handler talks to the daemon of its target
Connected == {"create", "run", "list", "stop", "remove"}

ControlInv(w) ==
    /\ request[w].step # "none" => request[w].command \in Command /\ w # Hosted
    /\ request[w].step \in {"create", "run"} => Handles(w, "spawn")
    /\ request[w].step \in Stopping => request[w].command.handler \in StopHandler

TargetInv(w) ==
    /\ request[w].step \in Connected \/ request[w].calls # {} =>
          /\ request[w].target \in Object
          /\ request[w].command.handler \in {"shutdown", "stop", "terminate"} =>
                TargetId(w) = request[w].command.server
          /\ Handles(w, "spawn") => request[w].command.server \in {NoInstance, TargetId(w)}
    /\ request[w].step \in Connected => GetClient(w) # NoAddress

CallsInv(w) ==
    /\ \A k \in request[w].calls : Matches(request[w].command, k)
    /\ request[w].step \in {"list", "stop", "remove"} => Matches(request[w].command, request[w].call)

RequestInv(w) == ControlInv(w) /\ TargetInv(w) /\ CallsInv(w)

\* Only the removal of an image visits servers.
NodesInv(w) == request[w].nodes # {} => Handles(w, "removeImage")

\* A worker's step changes nothing but the flag of another one's request.
SameRequest(v) ==
    /\ request'[v].step = request[v].step /\ request'[v].command = request[v].command
    /\ request'[v].target = request[v].target /\ request'[v].calls = request[v].calls
    /\ request'[v].call = request[v].call /\ request'[v].victims = request[v].victims
    /\ request'[v].held = request[v].held /\ request'[v].nodes = request[v].nodes
    /\ request'[v].answer = request[v].answer

\* Clients are never taken away.
ClientsStay == \A i \in Instance : clients[i] # NoAddress => clients'[i] # NoAddress

\* A request that is not touched stays what it is.
LEMMA SameRequestInv ==
    ASSUME NEW w \in Worker, RequestInv(w), NodesInv(w), SameRequest(w), ClientsStay
    PROVE  RequestInv(w)' /\ NodesInv(w)'
<1>1. TargetInv(w)'
  BY ObjectIds DEF RequestInv, TargetInv, SameRequest, ClientsStay, Connected, GetClient, TargetId,
     Handles
<1> QED
  BY <1>1 DEF RequestInv, ControlInv, CallsInv, NodesInv, SameRequest, Handles

\* Nor is one that was answered of any interest.
LEMMA AnswersInv ==
    ASSUME RequestTypeOK, NEW w \in Worker, NEW a, Answers(w, a)
    PROVE  RequestInv(w)'
<1>1. request'[w] = [Idle EXCEPT !.answer = a]
  BY DEF Answers, RequestTypeOK
<1>2. request'[w].step = "none" /\ request'[w].calls = {}
  BY <1>1 DEF Idle
<1> QED
  BY <1>2 DEF RequestInv, ControlInv, TargetInv, CallsInv, Stopping, Connected

\* Requests of other workers.
LEMMA OthersStay ==
    ASSUME RequestTypeOK, NEW w \in Worker, HandlerStep(w) \/ Receive(w),
           NEW v \in Worker \ {w}
    PROVE  SameRequest(v)
<1> USE DEF SameRequest
<1>1. CASE TryStopContainer(w)
  BY <1>1 DEF TryStopContainer, NextCall, ListModified, ListVictims, StopContainer, RemoveContainer,
     EndCall, Replies, BreaksOff, Throws, Answers, RequestTypeOK
<1>2. CASE CreateImage(w) \/ RemoveImage(w) \/ VisitNode(w) \/ DeleteRow(w)
  BY <1>2 DEF CreateImage, RemoveImage, VisitNode, DeleteRow, Goes, Throws, Answers, RequestTypeOK
<1>3. CASE PickServer(w) \/ CreateContainer(w) \/ StartContainer(w)
  BY <1>3 DEF PickServer, CreateContainer, StartContainer, Replies, Throws, Answers, RequestTypeOK
<1>4. CASE ShutdownContainer(w) \/ ContainerShutDown(w) \/ LookUpServer(w) \/ RemoteCall(w)
  BY <1>4 DEF ShutdownContainer, ContainerShutDown, LookUpServer, RemoteCall, Goes, Replies,
     Throws, Answers, RequestTypeOK
<1>5. CASE Refresh(w) \/ EndRefresh(w) \/ Commit(w) \/ Receive(w)
  BY <1>5 DEF Refresh, EndRefresh, Commit, Receive, Goes, Throws, Answers, RequestTypeOK
<1>6. CASE ClearServer(w)
  <2>1. request'[v] = [request[v] EXCEPT !.modified = @ \/ Enumerates(v, request[w].target)]
    BY <1>6 DEF ClearServer
  <2> QED
    BY <2>1 DEF RequestTypeOK, Request
<1> QED
  BY <1>1, <1>2, <1>3, <1>4, <1>5, <1>6 DEF HandlerStep

\* No step of a handler touches the cache.
LEMMA HandlersKeepClients ==
    ASSUME NEW w \in Worker, HandlerStep(w)
    PROVE  UNCHANGED clients
<1>1. CASE DescribeInstances(w)
  BY <1>1 DEF DescribeInstances, registryVars
<1> QED
  BY <1>1, HandlerFrame

\* TryStopContainerAsync works for the request, on an available server.
LEMMA TryStopInv ==
    ASSUME TypeOK, RequestTypeOK, AvailableHasClient, NEW w \in Worker, RequestInv(w),
           TryStopContainer(w), UNCHANGED clients
    PROVE  RequestInv(w)'
<1> DEFINE r == request[w]
<1> USE DEF RequestInv, ControlInv, TargetInv, CallsInv, Handles, Connected, Stopping, At,
        GetClient, TargetId
<1>1. request \in [Worker -> Request] /\ r \in Request
  BY DEF RequestTypeOK
<1>2. CASE NextCall(w)
  <2>1. PICK k \in r.calls :
          \/ /\ isAvailable[r.target]
             /\ request'[w] = [r EXCEPT !.calls = @ \ {k}, !.call = k, !.step = "list"]
          \/ request'[w] = [r EXCEPT !.calls = @ \ {k}]
    BY <1>1, <1>2 DEF NextCall
  <2>2. r.step = "next" /\ Matches(r.command, k) /\ r.target \in Object
    BY <1>2 DEF NextCall
  <2>3. CASE request'[w] = [r EXCEPT !.calls = @ \ {k}]
    BY <1>1, <2>2, <2>3 DEF Request
  <2>4. CASE /\ isAvailable[r.target]
             /\ request'[w] = [r EXCEPT !.calls = @ \ {k}, !.call = k, !.step = "list"]
    <3>1. clients[IdOf(r.target)] # NoAddress
      BY <2>2, <2>4 DEF AvailableHasClient
    <3>2. /\ request'[w].step = "list" /\ request'[w].call = k /\ request'[w].calls \subseteq r.calls
          /\ request'[w].command = r.command /\ request'[w].target = r.target
      BY <1>1, <2>4 DEF Request
    <3> QED
      BY <2>2, <3>1, <3>2
  <2> QED
    BY <2>1, <2>3, <2>4
<1>3. CASE ListModified(w)
  BY <1>3, AnswersInv DEF ListModified, BreaksOff, Throws
<1>4. ASSUME request'[w].command = r.command, request'[w].target = r.target,
             request'[w].calls = r.calls, request'[w].step \in {"stop", "remove"},
             request'[w].call = r.call, r.step \in {"list", "stop", "remove"}
      PROVE  RequestInv(w)'
  BY <1>4
<1>5. CASE ListVictims(w)
  <2>1. Throws(w) \/ \E V : request' = [request EXCEPT ![w].step = "stop", ![w].victims = V]
    BY <1>5 DEF ListVictims
  <2>2. CASE \E V : request' = [request EXCEPT ![w].step = "stop", ![w].victims = V]
    BY <1>1, <1>4, <1>5, <2>2 DEF Request, ListVictims
  <2> QED
    BY <2>1, <2>2, AnswersInv DEF Throws
<1>6. ASSUME request'[w].command = r.command, request'[w].target = r.target,
             request'[w].calls = r.calls, request'[w].step = "next", r.step = "stop"
      PROVE  RequestInv(w)'
  BY <1>6
<1>7. CASE StopContainer(w)
  <2>1. \/ \E v : request'[w] = [r EXCEPT !.victims = @ \ {v}, !.held = v[1], !.step = "remove"]
        \/ request'[w] = [r EXCEPT !.victims = {}, !.call = NoCall, !.step = "next"]
        \/ Throws(w)
    BY <1>1, <1>7 DEF StopContainer, Replies
  <2>2. CASE \E v : request'[w] = [r EXCEPT !.victims = @ \ {v}, !.held = v[1], !.step = "remove"]
    BY <1>1, <1>4, <1>7, <2>2 DEF Request, StopContainer
  <2>3. CASE request'[w] = [r EXCEPT !.victims = {}, !.call = NoCall, !.step = "next"]
    BY <1>1, <1>6, <1>7, <2>3 DEF Request, StopContainer
  <2> QED
    BY <2>1, <2>2, <2>3, AnswersInv DEF Throws
<1>8. CASE RemoveContainer(w)
  <2>1. \/ request'[w] = [r EXCEPT !.step = "stop", !.held = All]
        \/ Throws(w)
    BY <1>1, <1>8 DEF RemoveContainer, Replies
  <2>2. CASE request'[w] = [r EXCEPT !.step = "stop", !.held = All]
    BY <1>1, <1>4, <1>8, <2>2 DEF Request, RemoveContainer
  <2> QED
    BY <2>1, <2>2, AnswersInv DEF Throws
<1>9. CASE EndCall(w)
  <2>1. request'[w] = [r EXCEPT !.step = "next", !.call = NoCall]
    BY <1>1, <1>9 DEF EndCall
  <2> QED
    BY <1>1, <1>6, <1>9, <2>1 DEF Request, EndCall
<1> QED
  BY <1>2, <1>3, <1>5, <1>7, <1>8, <1>9 DEF TryStopContainer

\* Every step of a handler works for the request, on servers that have a client.
LEMMA HandlerInv ==
    ASSUME TypeOK, RequestTypeOK, AvailableHasClient, NEW w \in Worker, RequestInv(w), NodesInv(w),
           HandlerStep(w)
    PROVE  RequestInv(w)'
<1> DEFINE r == request[w]
<1> USE DEF RequestInv, ControlInv, TargetInv, CallsInv, Handles, Connected, Stopping, At,
        GetClient, TargetId
<1>1. request \in [Worker -> Request] /\ r \in Request /\ UNCHANGED clients
  BY HandlersKeepClients DEF RequestTypeOK
<1>2. CASE \E a : Answers(w, a)
  BY <1>2, AnswersInv
\* A step that leads to one at which nothing is promised but the request.
<1>3. ASSUME request'[w].command = r.command, request'[w].calls = r.calls, request'[w].target = r.target,
             r.step # "none", request'[w].step \in {"remote", "refresh", "refreshing", "commit"}
      PROVE  RequestInv(w)'
  BY <1>3
<1>4. CASE \E s \in {"remote", "refresh", "refreshing", "commit"} : r.step # "none" /\ Goes(w, s)
  BY <1>1, <1>3, <1>4 DEF Goes, Request
<1>5. CASE \/ CreateImage(w) \/ DeleteRow(w) \/ ContainerShutDown(w)
           \/ Refresh(w) \/ EndRefresh(w) \/ Commit(w)
  BY <1>2, <1>4, <1>5
     DEF CreateImage, DeleteRow, ContainerShutDown, Refresh, EndRefresh, Commit, CallsDone, Throws
<1>6. CASE RemoveImage(w)
  <2>1. request'[w].step = "next" /\ request'[w].command = r.command /\ request'[w].calls = r.calls
        /\ request'[w].target = r.target
    BY <1>1, <1>6 DEF RemoveImage, Request
  <2> QED
    BY <1>6, <2>1 DEF RemoveImage, StopHandler
<1>7. CASE VisitNode(w)
  <2> DEFINE m == r.command.image
  <2>1. PICK o \in r.nodes :
          request' = [request EXCEPT ![w].nodes = @ \ {o}, ![w].target = o,
             ![w].calls = {Asks(c, m, c) : c \in {d \in images[o] : IsOfImage(d, m)}}]
    BY <1>7 DEF VisitNode
  <2>2. /\ request'[w].step = "next" /\ request'[w].command = r.command /\ request'[w].target = o
        /\ request'[w].calls = {Asks(c, m, c) : c \in {d \in images[o] : IsOfImage(d, m)}}
    BY <1>1, <1>7, <2>1 DEF Request, VisitNode, CallsDone
  <2>3. o \in Object /\ r.step = "next"
    BY <1>1, <1>7, <2>1 DEF Request, VisitNode, CallsDone
  <2>4. r.command.handler = "removeImage"
    BY <1>7 DEF VisitNode, NodesInv
  <2>5. \A k \in request'[w].calls : Matches(r.command, k)
    BY <2>2, <2>4 DEF Matches, Asks
  <2> QED
    BY <2>2, <2>3, <2>4, <2>5
<1>8. CASE PickServer(w)
  <2>1. \/ \E o \in Registered : isAvailable[o] /\ r.command.server \in {NoInstance, IdOf(o)}
                /\ request' = [request EXCEPT ![w].target = o, ![w].step = "create"]
        \/ Answers(w, "notFound")
    BY <1>8 DEF PickServer, IsAvailableIdle
  <2>2. ASSUME NEW o \in Registered, isAvailable[o], r.command.server \in {NoInstance, IdOf(o)},
               request' = [request EXCEPT ![w].target = o, ![w].step = "create"]
        PROVE  RequestInv(w)'
    <3>1. o \in Object /\ clients[IdOf(o)] # NoAddress
      BY <2>2, RegisteredObjects DEF AvailableHasClient
    <3>2. /\ request'[w].step = "create" /\ request'[w].command = r.command
          /\ request'[w].calls = r.calls /\ request'[w].target = o
      BY <1>1, <2>2 DEF Request
    <3>3. r.command.handler = "spawn" /\ r.step = "begin"
      BY <1>8 DEF PickServer
    <3> QED
      BY <1>1, <2>2, <3>1, <3>2, <3>3
  <2> QED
    BY <1>2, <2>1, <2>2
<1>9. CASE CreateContainer(w)
  <2>1. \/ \E c : request' = [request EXCEPT ![w].held = c, ![w].step = "run"]
        \/ Throws(w)
    BY <1>9 DEF CreateContainer, Replies
  <2>2. CASE \E c : request' = [request EXCEPT ![w].held = c, ![w].step = "run"]
    <3>1. /\ request'[w].step = "run" /\ request'[w].command = r.command
          /\ request'[w].calls = r.calls /\ request'[w].target = r.target
      BY <1>1, <2>2 DEF Request
    <3> QED
      BY <1>1, <1>9, <3>1 DEF CreateContainer
  <2> QED
    BY <1>2, <2>1, <2>2 DEF Throws
<1>10. CASE StartContainer(w)
  <2>1. \/ request' = [request EXCEPT ![w].held = All, ![w].step = "refresh"]
        \/ Throws(w)
    BY <1>10 DEF StartContainer, Replies
  <2>2. CASE request' = [request EXCEPT ![w].held = All, ![w].step = "refresh"]
    BY <1>1, <1>3, <1>10, <2>2 DEF Request, StartContainer
  <2> QED
    BY <1>2, <2>1, <2>2 DEF Throws
<1>11. CASE ShutdownContainer(w)
  <2> DEFINE k == r.command
  <2>1. \/ /\ k.server # NoInstance /\ registry[k.server] # 0
           /\ request' = [request EXCEPT ![w].target = Current(k.server), ![w].step = "next",
                             ![w].calls = {Asks(All, k.image, k.only)}]
        \/ Answers(w, "notFound")
    BY <1>11 DEF ShutdownContainer
  <2>2. CASE /\ k.server # NoInstance /\ registry[k.server] # 0
             /\ request' = [request EXCEPT ![w].target = Current(k.server), ![w].step = "next",
                               ![w].calls = {Asks(All, k.image, k.only)}]
    <3>1. k \in Command /\ k.handler = "shutdown"
      BY <1>11 DEF ShutdownContainer
    <3>2. Current(k.server) \in Object /\ IdOf(Current(k.server)) = k.server
      BY <2>2, <3>1, RegisteredObjects DEF Command
    <3>3. /\ request'[w].step = "next" /\ request'[w].command = k
          /\ request'[w].calls = {Asks(All, k.image, k.only)} /\ request'[w].target = Current(k.server)
      BY <1>1, <2>2 DEF Request
    <3>4. \A call \in request'[w].calls : Matches(k, call)
      BY <3>3 DEF Matches, Asks
    <3> QED
      BY <1>11, <3>1, <3>2, <3>3, <3>4 DEF StopHandler, ShutdownContainer
  <2> QED
    BY <1>2, <2>1, <2>2
<1>12. CASE LookUpServer(w)
  <2> DEFINE k == r.command
             o == Current(k.server)
             calls == {Asks(c, containers[c].image, All) : c \in images[o]}
  <2>1. \/ Goes(w, "remote")
        \/ /\ k.server # NoInstance /\ registry[k.server] # 0 /\ Handles(w, "startOrRun")
           /\ request' = [request EXCEPT ![w].target = o, ![w].step = "remote"]
        \/ /\ k.server # NoInstance /\ registry[k.server] # 0 /\ ~Handles(w, "startOrRun")
           /\ request' = [request EXCEPT ![w].target = o, ![w].step = "next", ![w].calls = calls]
        \/ \E a : Answers(w, a)
    BY <1>12 DEF LookUpServer
  <2>2. k \in Command /\ k.handler \in ServerHandler /\ r.step = "begin"
    BY <1>12 DEF LookUpServer
  <2>3. CASE /\ k.server # NoInstance /\ registry[k.server] # 0 /\ Handles(w, "startOrRun")
             /\ request' = [request EXCEPT ![w].target = o, ![w].step = "remote"]
    <3>1. /\ request'[w].step = "remote" /\ request'[w].command = k /\ request'[w].calls = r.calls
          /\ request'[w].target = o
      BY <1>1, <2>3 DEF Request
    <3>2. o \in Object
      BY <2>2, <2>3, RegisteredObjects DEF Command
    <3> QED
      BY <2>2, <2>3, <3>1, <3>2
  <2>4. CASE /\ k.server # NoInstance /\ registry[k.server] # 0 /\ ~Handles(w, "startOrRun")
             /\ request' = [request EXCEPT ![w].target = o, ![w].step = "next", ![w].calls = calls]
    <3>1. o \in Object /\ IdOf(o) = k.server
      BY <2>2, <2>4, RegisteredObjects DEF Command
    <3>2. k.handler \in {"stop", "terminate"}
      BY <2>2, <2>4 DEF ServerHandler
    <3> HIDE DEF calls
    <3>3. /\ request'[w].step = "next" /\ request'[w].command = k
          /\ request'[w].calls = calls /\ request'[w].target = o
      BY <1>1, <2>4 DEF Request
    <3>4. \A call \in request'[w].calls : Matches(k, call)
      BY <3>2 DEF Matches
    <3> QED
      BY <2>2, <3>1, <3>2, <3>3, <3>4 DEF StopHandler
  <2> QED
    BY <1>2, <1>4, <2>1, <2>2, <2>3, <2>4
<1>13. CASE ClearServer(w)
  <2>1. request'[w] = [r EXCEPT !.step = "remote"]
    BY <1>13 DEF ClearServer
  <2> QED
    BY <1>1, <1>3, <1>13, <2>1 DEF Request, ClearServer, CallsDone
<1>14. CASE RemoteCall(w)
  <2>1. \/ request' = [request EXCEPT ![w].step = "refresh"]
        \/ Throws(w)
    BY <1>14 DEF RemoteCall, Replies
  <2>2. CASE request' = [request EXCEPT ![w].step = "refresh"]
    BY <1>1, <1>3, <1>14, <2>2 DEF Request, RemoteCall
  <2> QED
    BY <1>2, <2>1, <2>2 DEF Throws
<1>15. CASE TryStopContainer(w)
  BY <1>1, <1>15, TryStopInv
<1> QED
  BY <1>5, <1>6, <1>7, <1>8, <1>9, <1>10, <1>11, <1>12, <1>13, <1>14, <1>15 DEF HandlerStep

\* Nothing else fills the list of the servers to visit.
LEMMA NodesStep ==
    ASSUME RequestTypeOK, NEW w \in Worker, NodesInv(w), HandlerStep(w) \/ Receive(w)
    PROVE  NodesInv(w)'
<1> DEFINE r == request[w]
<1> USE DEF NodesInv, Handles
<1>1. request \in [Worker -> Request] /\ r \in Request
  BY DEF RequestTypeOK
<1>2. ASSUME request'[w].nodes \subseteq r.nodes, request'[w].command = r.command
      PROVE  NodesInv(w)'
  BY <1>2
<1>3. CASE \E a : Answers(w, a)
  <2>1. request'[w].nodes = {}
    BY <1>1, <1>3 DEF Answers, Idle
  <2> QED
    BY <2>1
<1>4. CASE \E s : Goes(w, s)
  BY <1>1, <1>2, <1>4 DEF Goes, Request
<1>5. CASE RemoveImage(w)
  <2>1. request'[w].command = r.command /\ r.command.handler = "removeImage"
    BY <1>1, <1>5 DEF RemoveImage, Request
  <2> QED
    BY <2>1
<1>6. CASE TryStopContainer(w)
  <2> DEFINE same == request'[w].nodes = r.nodes /\ request'[w].command = r.command
  <2>1. CASE NextCall(w)
    <3>1. same
      BY <1>1, <2>1 DEF NextCall, Request
    <3> QED
      BY <1>2, <3>1
  <2>2. CASE ListModified(w)
    BY <1>3, <2>2 DEF ListModified, BreaksOff, Throws
  <2>3. CASE ListVictims(w)
    <3>1. Throws(w) \/ \E V : request' = [request EXCEPT ![w].step = "stop", ![w].victims = V]
      BY <2>3 DEF ListVictims
    <3>2. Throws(w) \/ same
      BY <1>1, <3>1 DEF Request
    <3> QED
      BY <1>2, <1>3, <3>2 DEF Throws
  <2>4. CASE StopContainer(w)
    <3>1. \/ \E v : request'[w] = [r EXCEPT !.victims = @ \ {v}, !.held = v[1], !.step = "remove"]
          \/ request'[w] = [r EXCEPT !.victims = {}, !.call = NoCall, !.step = "next"]
          \/ Throws(w)
      BY <1>1, <2>4 DEF StopContainer, Replies
    <3>2. Throws(w) \/ same
      BY <1>1, <3>1 DEF Request
    <3> QED
      BY <1>2, <1>3, <3>2 DEF Throws
  <2>5. CASE RemoveContainer(w) \/ EndCall(w)
    <3>1. Throws(w) \/ same
      BY <1>1, <2>5 DEF RemoveContainer, EndCall, Replies, Request
    <3> QED
      BY <1>2, <1>3, <3>1 DEF Throws
  <2> QED
    BY <1>6, <2>1, <2>2, <2>3, <2>4, <2>5 DEF TryStopContainer
<1>7. CASE \/ CreateImage(w) \/ DeleteRow(w) \/ ContainerShutDown(w)
           \/ Refresh(w) \/ EndRefresh(w) \/ Commit(w)
  BY <1>2, <1>3, <1>4, <1>7
     DEF CreateImage, DeleteRow, ContainerShutDown, Refresh, EndRefresh, Commit, Throws
<1>8. CASE VisitNode(w)
  <2>1. request'[w].nodes \subseteq r.nodes /\ request'[w].command = r.command
    BY <1>1, <1>8 DEF VisitNode, Request
  <2> QED
    BY <1>2, <2>1
<1>9. CASE PickServer(w) \/ CreateContainer(w) \/ StartContainer(w)
  <2>1. \/ \E a : Answers(w, a)
        \/ \E o : request' = [request EXCEPT ![w].target = o, ![w].step = "create"]
        \/ \E c : request' = [request EXCEPT ![w].held = c, ![w].step = "run"]
        \/ request' = [request EXCEPT ![w].held = All, ![w].step = "refresh"]
    BY <1>9 DEF PickServer, CreateContainer, StartContainer, Replies, Throws
  <2>2. CASE \E o : request' = [request EXCEPT ![w].target = o, ![w].step = "create"]
    BY <1>1, <1>2, <2>2 DEF Request
  <2>3. CASE \E c : request' = [request EXCEPT ![w].held = c, ![w].step = "run"]
    BY <1>1, <1>2, <2>3 DEF Request
  <2>4. CASE request' = [request EXCEPT ![w].held = All, ![w].step = "refresh"]
    BY <1>1, <1>2, <2>4 DEF Request
  <2> QED
    BY <1>3, <2>1, <2>2, <2>3, <2>4
<1>10. CASE ShutdownContainer(w) \/ LookUpServer(w) \/ RemoteCall(w)
  <2>1. \/ \E a : Answers(w, a)
        \/ \E s : Goes(w, s)
        \/ \E o, C : request' = [request EXCEPT ![w].target = o, ![w].step = "next", ![w].calls = C]
        \/ \E o : request' = [request EXCEPT ![w].target = o, ![w].step = "remote"]
        \/ request' = [request EXCEPT ![w].step = "refresh"]
    BY <1>10 DEF ShutdownContainer, LookUpServer, RemoteCall, Replies, Throws
  <2>2. ASSUME NEW o, NEW C,
               request' = [request EXCEPT ![w].target = o, ![w].step = "next", ![w].calls = C]
        PROVE  NodesInv(w)'
    BY <1>1, <1>2, <2>2 DEF Request
  <2>3. CASE \E o : request' = [request EXCEPT ![w].target = o, ![w].step = "remote"]
    BY <1>1, <1>2, <2>3 DEF Request
  <2>4. CASE request' = [request EXCEPT ![w].step = "refresh"]
    BY <1>1, <1>2, <2>4 DEF Request
  <2> QED
    BY <1>3, <1>4, <2>1, <2>2, <2>3, <2>4
<1>11. CASE ClearServer(w)
  <2>1. request'[w] = [r EXCEPT !.step = "remote"]
    BY <1>11 DEF ClearServer
  <2> QED
    BY <1>1, <1>2, <2>1 DEF Request
<1>12. CASE Receive(w)
  <2>1. request'[w].nodes = {}
    BY <1>1, <1>12 DEF Receive, Answers, Idle
  <2> QED
    BY <2>1
<1> QED
  BY <1>5, <1>6, <1>7, <1>8, <1>9, <1>10, <1>11, <1>12 DEF HandlerStep

\* A request that arrives has nothing to do with a server yet.
LEMMA ReceiveInv ==
    ASSUME RequestTypeOK, NEW w \in Worker, Receive(w)
    PROVE  RequestInv(w)'
<1>1. CASE Answers(w, "notFound")
  BY <1>1, AnswersInv
<1>2. ASSUME NEW c \in Commands,
             request' = [request EXCEPT ![w] = [Idle EXCEPT !.command = c, !.step = "begin"]]
      PROVE  RequestInv(w)'
  <2>1. request'[w].step = "begin" /\ request'[w].command = c /\ request'[w].calls = {}
    BY <1>2 DEF RequestTypeOK, Idle
  <2>2. c \in Command /\ w # Hosted
    BY CommandsAssumption DEF Receive
  <2> QED
    BY <2>1, <2>2 DEF RequestInv, ControlInv, TargetInv, CallsInv, Stopping, Connected
<1> QED
  BY <1>1, <1>2 DEF Receive

\* A merge only tells a removal that its list changed.
LEMMA PipelineStaysRequest ==
    ASSUME RequestTypeOK, NEW w \in Worker, PipelineStep(w), NEW v \in Worker
    PROVE  SameRequest(v)
<1> DEFINE modifies == request[v].modified \/ \E o \in Object :
               /\ Enumerates(v, o) /\ probe[w][o] = "answer" /\ probe'[w][o] = "none"
<1>1. request'[v] = [request[v] EXCEPT !.modified = modifies]
  BY DEF PipelineStep
<1> HIDE DEF modifies
<1> QED
  BY <1>1 DEF RequestTypeOK, Request, SameRequest

-----------------------------------------------------------------------------
(* The types and the clients, over all steps *)

ApiInv ==
    /\ TypeOK /\ RequestTypeOK
    /\ AvailableHasClient /\ AcquiredClients
    /\ \A w \in Worker : RequestInv(w) /\ NodesInv(w)

\* What else a handler's step may change.
LEMMA HandlerChanges ==
    ASSUME NEW w \in Worker, HandlerStep(w), ~DescribeInstances(w)
    PROVE  /\ UNCHANGED cloud \/ CallEc2(w)
           /\ UNCHANGED <<images, dnsName, isAvailable>> \/ ClearServer(w)
           /\ UNCHANGED imageInfos \/ Commit(w)
           /\ UNCHANGED faults \/ Fault
<1> USE DEF vars, externalVars, cloudVars, registryVars, objectVars, managerUnchanged, boundVars
<1>1. CASE CreateImage(w) \/ RemoveImage(w) \/ VisitNode(w) \/ DeleteRow(w) \/ PickServer(w)
  BY <1>1 DEF CreateImage, RemoveImage, VisitNode, DeleteRow, PickServer
<1>2. CASE CreateContainer(w) \/ StartContainer(w)
  BY <1>2 DEF CreateContainer, StartContainer, Replies
<1>3. CASE ShutdownContainer(w) \/ ContainerShutDown(w) \/ LookUpServer(w) \/ ClearServer(w)
  BY <1>3 DEF ShutdownContainer, ContainerShutDown, LookUpServer, ClearServer
<1>4. CASE RemoteCall(w)
  BY <1>4 DEF RemoteCall, Replies
<1>5. CASE TryStopContainer(w)
  BY <1>5 DEF TryStopContainer, NextCall, ListModified, ListVictims, StopContainer,
     RemoveContainer, EndCall, Replies, NoReply
<1>6. CASE Refresh(w) \/ EndRefresh(w) \/ Commit(w)
  BY <1>6 DEF Refresh, EndRefresh, Commit
<1> QED
  BY <1>1, <1>2, <1>3, <1>4, <1>5, <1>6 DEF HandlerStep

\* The variables of the registry keep their types under a handler.
LEMMA HandlerTypeOK ==
    ASSUME TypeOK, RequestTypeOK, NEW w \in Worker, ControlInv(w), HandlerStep(w)
    PROVE  TypeOK'
<1>1. CASE DescribeInstances(w)
  <2>1. Refresh(w) \/ UNCHANGED requests
    BY DEF HandlerStep, CreateImage, RemoveImage, VisitNode, DeleteRow, PickServer, CreateContainer,
       StartContainer, ShutdownContainer, ContainerShutDown, LookUpServer, ClearServer, RemoteCall,
       TryStopContainer, NextCall, ListModified, ListVictims, StopContainer, RemoveContainer,
       EndCall, EndRefresh, Commit, vars, boundVars
  <2>2. requests' \in 0 .. MaxRequests
    BY <2>1 DEF Refresh, TypeOK, ControlTypeOK
  <2> QED
    BY <1>1, <2>2, DescribeInstancesType
<1>2. CASE ~DescribeInstances(w)
  <2>1. UNCHANGED <<addr, owner, consoleOps, registry, born, status, clients, workerVars, requests>>
    BY <1>2, HandlerFrame
  <2>2. /\ containers \in [Container -> ContainerRecord] /\ cloud \in [Instance -> CloudState]
        /\ request[w] \in Request
    BY DEF TypeOK, ExternalTypeOK, RequestTypeOK
  <2>3. containers' \in [Container -> ContainerRecord]
    <3>1. ASSUME NEW c \in Container, NEW i \in Answering(GetClient(w)), At(w, "create"),
                 Create(c, i, request[w].command.image)
          PROVE  containers' \in [Container -> ContainerRecord]
      <4>1. request[w].command.image \in Image /\ i \in Instance
        BY <3>1 DEF ControlInv, At, Handles, Answering, Command, ImageHandler, ServerHandler
      <4> QED
        BY <2>2, <3>1, <4>1 DEF Create, ContainerRecord, ContainerState
    <3>2. ASSUME NEW c, Run(c) \/ Exit(c) \/ Remove(c)
          PROVE  containers' \in [Container -> ContainerRecord]
      BY <2>2, <3>2 DEF Run, Exit, Remove, ContainerRecord, ContainerState
    <3> QED
      BY <2>2, <3>1, <3>2, HandlerContainers
  <2>4. cloud' \in [Instance -> CloudState]
    BY <1>2, <2>2, HandlerChanges, CallEc2Type
  <2>5. ExternalTypeOK'
    BY <2>1, <2>3, <2>4 DEF TypeOK, ExternalTypeOK
  <2>6. RegistryTypeOK'
    <3>1. CASE UNCHANGED <<images, dnsName, isAvailable>>
      BY <2>1, <3>1 DEF TypeOK, RegistryTypeOK
    <3>2. CASE ClearServer(w)
      <4>1. /\ images' \in [Object -> SUBSET Container]
            /\ dnsName' \in [Object -> Address \cup {NoAddress}]
        BY <3>2 DEF ClearServer, TypeOK, RegistryTypeOK
      <4>2. isAvailable' \in [Object -> BOOLEAN]
        BY <3>2, Zenon DEF ClearServer, Checked, TypeOK, RegistryTypeOK
      <4> QED
        BY <2>1, <4>1, <4>2 DEF TypeOK, RegistryTypeOK
    <3> QED
      BY <1>2, <3>1, <3>2, HandlerChanges
  <2>7. imageInfos' \subseteq Image
    <3>1. CASE Commit(w)
      <4>1. Handles(w, "createImage") => request[w].command.image \in Image
        BY <3>1 DEF Commit, At, ControlInv, Handles, Command, ImageHandler, ServerHandler
      <4> QED
        BY <3>1, <4>1 DEF Commit, TypeOK, ControlTypeOK
    <3> QED
      BY <1>2, <3>1, HandlerChanges DEF TypeOK, ControlTypeOK
  <2>8. ControlTypeOK'
    BY <1>2, <2>1, <2>7, HandlerChanges, FaultType DEF TypeOK, ControlTypeOK, workerVars
  <2> QED
    BY <2>1, <2>5, <2>6, <2>8, FrameAnswer, FrameProbe DEF TypeOK, workerVars
<1> QED
  BY <1>1, <1>2

\* A handler makes no server available,
LEMMA HandlersSwitchOff ==
    ASSUME TypeOK, NEW w \in Worker, HandlerStep(w)
    PROVE  \A o \in Object : isAvailable'[o] => isAvailable[o]
<1>1. CASE ClearServer(w)
  BY <1>1 DEF ClearServer, Checked, TypeOK, RegistryTypeOK
<1>2. CASE DescribeInstances(w)
  BY <1>2 DEF DescribeInstances, registryVars, objectVars
<1> QED
  BY <1>1, <1>2, HandlerChanges

\* ... nor does it take a client.
LEMMA HandlerAvailable ==
    ASSUME TypeOK, AvailableHasClient, AcquiredClients, NEW w \in Worker, HandlerStep(w)
    PROVE  AvailableHasClient' /\ AcquiredClients'
<1>1. CASE DescribeInstances(w)
  BY <1>1 DEF DescribeInstances, registryVars, objectVars, probeVars, AvailableHasClient, AcquiredClients
<1>2. CASE ~DescribeInstances(w)
  <2>1. UNCHANGED <<clients, probe>>
    BY <1>2, HandlerFrame DEF workerVars, probeVars
  <2>2. \A o \in Object : isAvailable'[o] => isAvailable[o]
    BY HandlersSwitchOff
  <2> QED
    BY <2>1, <2>2 DEF AvailableHasClient, AcquiredClients
<1> QED
  BY <1>1, <1>2

\* The cache only grows.
LEMMA RefreshKeepsClients ==
    ASSUME TypeOK, NEW w \in Worker, RefreshStep(w) \/ RemoteCallFails(w)
    PROVE  ClientsStay
<1> USE DEF ClientsStay
<1>1. CASE UNCHANGED clients
  BY <1>1
<1>2. ASSUME NEW o \in Object, AddClient(w, o) PROVE ClientsStay
  BY <1>1, <1>2, ObjectIds DEF AddClient, CacheClient, TypeOK, RegistryTypeOK
<1>3. CASE \E o \in Object : Visit(w, o) \/ AnswerPing(w, o) \/ PingReply(w, o) \/ ListContainers(w, o) \/ MergeImages(w, o)
  BY <1>1, <1>3 DEF Visit, AnswerPing, PingReply, ListContainers, MergeImages, registryVars
<1>4. CASE MergeInstances(w) \/ DescribeInstanceStatus(w) \/ ApplyStatus(w) \/ ListImages(w)
  BY <1>1, <1>4 DEF MergeInstances, DescribeInstanceStatus, ApplyStatus, ListImages, registryVars
<1>5. CASE CollectionModified(w) \/ StartProbes(w) \/ FinishRefresh(w) \/ RemoteCallFails(w)
  BY <1>1, <1>5 DEF CollectionModified, StartProbes, FinishRefresh, RemoteCallFails, registryVars
<1> QED
  BY <1>2, <1>3, <1>4, <1>5 DEF RefreshStep

\* At first nothing is requested.
LEMMA ApiInitInv == ApiInit => ApiInv
<1> SUFFICES ASSUME ApiInit PROVE ApiInv
  OBVIOUS
<1>1. TypeOK
  BY InitType DEF ApiInit
<1>2. RequestTypeOK
  <2>1. Idle \in Request
    BY Steps DEF Idle, Request
  <2> QED
    BY <2>1 DEF ApiInit, RequestTypeOK
<1>3. AvailableHasClient /\ AcquiredClients
  BY DEF ApiInit, Init, RegistryInit, NoProbe, AvailableHasClient, AcquiredClients
<1>4. \A w \in Worker : request[w].step = "none" /\ request[w].calls = {} /\ request[w].nodes = {}
  BY DEF ApiInit, Idle
<1>5. \A w \in Worker : RequestInv(w) /\ NodesInv(w)
  BY <1>4 DEF NodesInv, RequestInv, ControlInv, TargetInv, CallsInv, Stopping, Connected
<1> QED
  BY <1>1, <1>2, <1>3, <1>5 DEF ApiInv

\* Every step keeps the invariant.
LEMMA ApiInvNext == ApiInv /\ [ApiNext]_apiVars => ApiInv'
<1> SUFFICES ASSUME ApiInv, [ApiNext]_apiVars PROVE ApiInv'
  OBVIOUS
<1> USE DEF ApiInv
<1>1. ASSUME NEW w \in Worker, HandlerStep(w) PROVE ApiInv'
  <2>1. TypeOK' /\ RequestTypeOK'
    BY <1>1, HandlerTypeOK, HandlerStepType DEF RequestInv
  <2>2. RequestInv(w)' /\ NodesInv(w)'
    BY <1>1, HandlerInv, NodesStep
  <2>3. ASSUME NEW v \in Worker \ {w} PROVE RequestInv(v)' /\ NodesInv(v)'
    BY <1>1, OthersStay, HandlersKeepClients, SameRequestInv DEF ClientsStay
  <2> QED
    BY <1>1, <2>1, <2>2, <2>3, HandlerAvailable
<1>2. ASSUME NEW w \in Worker, Receive(w) PROVE ApiInv'
  <2>1. UNCHANGED <<externalVars, registryVars, imageInfos, workerVars, faults>>
    BY <1>2 DEF Receive, managerUnchanged
  <2>2. requests' \in 0 .. MaxRequests
    BY <1>2, BoundsAssumption DEF Receive, TypeOK, ControlTypeOK
  <2>3. TypeOK'
    BY <2>1, <2>2, FrameExternal, FrameRegistry, FrameAnswer, FrameProbe
       DEF TypeOK, ControlTypeOK, workerVars
  <2>4. ASSUME NEW v \in Worker \ {w} PROVE RequestInv(v)' /\ NodesInv(v)'
    BY <1>2, <2>1, OthersStay, SameRequestInv DEF ClientsStay, registryVars
  <2>5. AvailableHasClient' /\ AcquiredClients'
    BY <2>1 DEF registryVars, objectVars, workerVars, probeVars, AvailableHasClient, AcquiredClients
  <2> QED
    BY <1>2, <2>3, <2>4, <2>5, ReceiveType, ReceiveInv, NodesStep
<1>3. ASSUME NEW w \in Worker, PipelineStep(w) PROVE ApiInv'
  <2>1. RefreshStep(w) \/ RemoteCallFails(w)
    BY <1>3 DEF PipelineStep
  <2>2. [Next]_vars
    BY <2>1 DEF Next
  <2>3. ClientInv'
    BY <2>2, ClientInvNext DEF ClientInv
  <2>4. \A v \in Worker : RequestInv(v)' /\ NodesInv(v)'
    BY <1>3, <2>1, PipelineStaysRequest, RefreshKeepsClients, SameRequestInv
  <2> QED
    BY <1>3, <2>3, <2>4, PipelineStepType DEF ClientInv
<1>4. CASE Outside \/ HostedBegins \/ UNCHANGED apiVars
  <2>1. [Next]_vars /\ UNCHANGED request
    BY <1>4 DEF Outside, HostedBegins, apiVars, Next
  <2>2. UNCHANGED clients
    BY <1>4 DEF Outside, External, HostedBegins, HostedRefresh, DescribeInstances,
                apiVars, vars, registryVars
  <2>3. ClientInv'
    BY <2>1, ClientInvNext DEF ClientInv
  <2>4. ASSUME NEW v \in Worker PROVE RequestInv(v)' /\ NodesInv(v)'
    BY <2>1, <2>2, SameRequestInv DEF SameRequest, ClientsStay, NodesInv, Handles
  <2> QED
    BY <2>1, <2>3, <2>4 DEF ClientInv, RequestTypeOK
<1> QED
  BY <1>1, <1>2, <1>3, <1>4 DEF ApiNext

\* The invariant holds for ever.
LEMMA ApiInvariant == ApiSpec => []ApiInv
  BY ApiInitInv, ApiInvNext, PTL DEF ApiSpec

\* Registry, refreshes and requests keep their types, for any servers, images,
\* containers, workers and requests.
THEOREM ApiTypeCorrect == ApiSpec => []ApiTypeOK
<1>1. ApiInv => ApiTypeOK
  BY DEF ApiInv, RequestTypeOK, ApiTypeOK
<1> QED
  BY <1>1, ApiInvariant, PTL

\* A handler that picked an available server has its Docker client through every
\* await, whatever other requests and the hosted service do meanwhile.
THEOREM ConnectedHandlers == ApiSpec => []HandlersHaveClients
<1>1. ApiInv => HandlersHaveClients
  BY DEF ApiInv, RequestInv, TargetInv, Connected, HandlersHaveClients
<1> QED
  BY <1>1, ApiInvariant, PTL

-----------------------------------------------------------------------------
(* Handlers change what a request is for.  What ListVictims saw through the *)
(* client of its target are containers of that target, because clients and  *)
(* addresses do not mix servers up (NoCrossTalk), unless EC2 uses a DNS     *)
(* name twice; and a container keeps its home and its image, so what was    *)
(* listed is still what was asked for when it is stopped and removed, many  *)
(* steps later.                                                             *)

\* The call a request is in, and a container of its target, image and id
IsVictim(w, c) ==
    /\ c \in Container /\ containers[c].home # NoInstance
    /\ ReuseAddresses \/ containers[c].home = TargetId(w)
    /\ IsOfImage(c, request[w].call.image)
    /\ request[w].call.only \in {All, c}

VictimInv(w) ==
    /\ request[w].step \in {"stop", "remove"} => \A v \in request[w].victims : IsVictim(w, v[1])
    /\ request[w].step = "remove" => IsVictim(w, request[w].held)

\* A container that was created stays where it is, and what it is.
HomesStay ==
    \A c \in Container : containers[c].home # NoInstance =>
        /\ containers'[c].home = containers[c].home
        /\ containers'[c].image = containers[c].image

\* Handlers do not move containers,
LEMMA HandlerHomes ==
    ASSUME TypeOK, NEW w \in Worker, HandlerStep(w)
    PROVE  HomesStay
<1>1. containers \in [Container -> ContainerRecord]
  BY DEF TypeOK, ExternalTypeOK
<1>2. ASSUME NEW c, NEW i, NEW m, Create(c, i, m) PROVE HomesStay
  BY <1>1, <1>2 DEF Create, HomesStay
<1>3. ASSUME NEW c, Run(c) \/ Exit(c) \/ Remove(c) PROVE HomesStay
  BY <1>1, <1>3 DEF Run, Exit, Remove, HomesStay, ContainerRecord
<1>4. CASE UNCHANGED containers
  BY <1>4 DEF HomesStay
<1> QED
  BY <1>2, <1>3, <1>4, HandlerContainers

\* ... nor does the outside world,
LEMMA ExternalHomes ==
    ASSUME TypeOK, External
    PROVE  HomesStay
<1>1. containers \in [Container -> ContainerRecord]
  BY DEF TypeOK, ExternalTypeOK
<1>2. \/ UNCHANGED containers
      \/ \E c \in Container, i \in Instance, m \in Image : Create(c, i, m)
      \/ \E c \in Container : Remove(c)
  BY DEF External, CloudProgress, Console, ConsoleStep, ContainersOn
<1>3. ASSUME NEW c, NEW i, NEW m, Create(c, i, m) PROVE HomesStay
  BY <1>1, <1>3 DEF Create, HomesStay
<1>4. ASSUME NEW c, Remove(c) PROVE HomesStay
  BY <1>1, <1>4 DEF Remove, HomesStay, ContainerRecord
<1> QED
  BY <1>2, <1>3, <1>4 DEF HomesStay

\* ... nor a refresh.
LEMMA RefreshExternal ==
    ASSUME NEW w \in Worker, RefreshStep(w) \/ RemoteCallFails(w)
    PROVE  UNCHANGED externalVars
  BY DEF RefreshStep, RemoteCallFails, MergeInstances, DescribeInstanceStatus, ApplyStatus,
     ListImages, CollectionModified, Visit, AddClient, AnswerPing, PingReply, ListContainers,
     MergeImages,
     StartProbes, FinishRefresh

\* So the victims of a request that is not touched stay victims.
LEMMA SameVictims ==
    ASSUME NEW w \in Worker, VictimInv(w), SameRequest(w), HomesStay
    PROVE  VictimInv(w)'
<1>1. ASSUME NEW c, IsVictim(w, c) PROVE IsVictim(w, c)'
  BY <1>1 DEF IsVictim, IsOfImage, SameRequest, HomesStay, TargetId
<1> QED
  BY <1>1 DEF VictimInv, SameRequest

\* Handlers hand on no address, and drop lists at most.
LEMMA CrossTalkHandler ==
    ASSUME CrossTalkInv, TypeOK', NEW w \in Worker, HandlerStep(w)
    PROVE  CrossTalkInv'
<1>1. CASE DescribeInstances(w)
  <2>1. \A v \in Worker, i \in Instance : described'[v][i] \in {Unlisted, addr[i], described[v][i]}
    BY <1>1 DEF DescribeInstances, CrossTalkInv, TypeOK, AnswerTypeOK
  <2> QED
    BY <1>1, <2>1 DEF DescribeInstances, registryVars, objectVars, probeVars, CrossTalkInv,
       AddressesOwned, ContainersAtHome, OwnerOf, externalVars, cloudVars
<1>2. CASE ~DescribeInstances(w)
  <2>1. UNCHANGED <<addr, owner, clients, described, via, found>>
    BY <1>2, HandlerFrame DEF workerVars, answerVars, probeVars
  <2>2. ASSUME NEW o \in Object
        PROVE  dnsName'[o] \in {NoAddress, dnsName[o]} /\ images'[o] \subseteq images[o]
    <3>1. CASE ClearServer(w)
      BY <3>1 DEF ClearServer, CrossTalkInv, TypeOK, RegistryTypeOK
    <3> QED
      BY <1>2, <3>1, HandlerChanges
  <2>3. ASSUME NEW o \in Object, NEW c \in Container, containers[c].home = IdOf(o)
        PROVE  containers'[c].home = IdOf(o)
    BY <2>3, ObjectIds, NoInstanceAssumption, HandlerHomes DEF HomesStay, CrossTalkInv
  <2>4. AddressesOwned'
    BY <2>1, <2>2 DEF CrossTalkInv, AddressesOwned, OwnerOf
  <2>5. \A o \in Object : \A c \in images'[o] : containers'[c].home = IdOf(o)
    <3> SUFFICES ASSUME NEW o \in Object, NEW c \in images'[o] PROVE containers'[c].home = IdOf(o)
      OBVIOUS
    <3>1. c \in images[o] /\ c \in Container
      BY <2>2 DEF CrossTalkInv, TypeOK, RegistryTypeOK
    <3> QED
      BY <2>3, <3>1 DEF CrossTalkInv, ContainersAtHome
  <2>6. \A v \in Worker, o \in Object : \A c \in found'[v][o] : containers'[c].home = IdOf(o)
    <3> SUFFICES ASSUME NEW v \in Worker, NEW o \in Object, NEW c \in found[v][o]
                 PROVE  containers'[c].home = IdOf(o)
      BY <2>1
    <3>1. c \in Container
      BY DEF CrossTalkInv, TypeOK, ProbeTypeOK
    <3> QED
      BY <2>3, <3>1 DEF CrossTalkInv, ContainersAtHome
  <2> QED
    BY <2>4, <2>5, <2>6 DEF CrossTalkInv, ContainersAtHome
<1> QED
  BY <1>1, <1>2

\* Only TryStopContainerAsync gets to its steps.
LEMMA VictimSteps ==
    ASSUME RequestTypeOK, NEW w \in Worker, HandlerStep(w) \/ Receive(w),
           request'[w].step \in {"stop", "remove"}
    PROVE  ListVictims(w) \/ StopContainer(w) \/ RemoveContainer(w)
<1> DEFINE r == request[w]
<1>1. request \in [Worker -> Request] /\ r \in Request
  BY DEF RequestTypeOK
<1>2. ~\E a : Answers(w, a)
  BY <1>1 DEF Answers, Idle
<1>3. ASSUME NEW s \in {"next", "begin", "remote", "refresh", "refreshing", "commit"}
      PROVE  ~Goes(w, s)
  BY <1>1 DEF Goes, Request
<1>4. ~(\/ CreateImage(w) \/ DeleteRow(w) \/ ContainerShutDown(w)
        \/ Refresh(w) \/ EndRefresh(w) \/ Commit(w))
  BY <1>2, <1>3
     DEF CreateImage, DeleteRow, ContainerShutDown, Refresh, EndRefresh, Commit, Throws
<1>5. ~RemoveImage(w)
  BY <1>1 DEF RemoveImage, Request
<1>6. ~VisitNode(w)
  <2> SUFFICES ASSUME VisitNode(w) PROVE FALSE
    OBVIOUS
  <2>1. PICK o, C :
          request' = [request EXCEPT ![w].nodes = @ \ {o}, ![w].target = o, ![w].calls = C]
    BY DEF VisitNode
  <2>2. request'[w].step = r.step /\ r.step = "next"
    BY <1>1, <2>1 DEF VisitNode, CallsDone, At, Request
  <2> QED
    BY <2>2
<1>7. ~PickServer(w)
  <2>1. ASSUME NEW o, request' = [request EXCEPT ![w].target = o, ![w].step = "create"]
        PROVE  FALSE
    BY <1>1, <2>1 DEF Request
  <2> QED
    BY <1>2, <2>1 DEF PickServer
<1>8. ~CreateContainer(w)
  <2>1. ASSUME NEW c, request' = [request EXCEPT ![w].held = c, ![w].step = "run"]
        PROVE  FALSE
    BY <1>1, <2>1 DEF Request
  <2> QED
    BY <1>2, <2>1 DEF CreateContainer, Replies, Throws
<1>9. ~StartContainer(w)
  <2>1. request' # [request EXCEPT ![w].held = All, ![w].step = "refresh"]
    BY <1>1 DEF Request
  <2> QED
    BY <1>2, <2>1 DEF StartContainer, Replies, Throws
<1>10. ~ShutdownContainer(w)
  BY <1>1, <1>2 DEF ShutdownContainer, Request
<1>11. ~LookUpServer(w)
  BY <1>1, <1>2, <1>3 DEF LookUpServer, Request
<1>12. ~ClearServer(w)
  <2>1. ClearServer(w) => request'[w] = [r EXCEPT !.step = "remote"]
    BY DEF ClearServer
  <2> QED
    BY <1>1, <2>1 DEF Request
<1>13. ~RemoteCall(w)
  BY <1>1, <1>2 DEF RemoteCall, Replies, Throws, Request
<1>14. ~Receive(w)
  BY <1>1, <1>2 DEF Receive, Idle
<1>15. ~NextCall(w)
  <2> SUFFICES ASSUME NextCall(w) PROVE FALSE
    OBVIOUS
  <2>1. PICK k : \/ request' = [request EXCEPT ![w].calls = @ \ {k}, ![w].call = k, ![w].step = "list"]
                 \/ request' = [request EXCEPT ![w].calls = @ \ {k}]
    BY DEF NextCall
  <2>2. request'[w].step \in {"list", r.step} /\ r.step = "next"
    BY <1>1, <2>1 DEF NextCall, At, Request
  <2> QED
    BY <2>2
<1>16. ~(ListModified(w) \/ EndCall(w))
  BY <1>1, <1>2 DEF ListModified, EndCall, BreaksOff, Throws, Request
<1> QED
  BY <1>4, <1>5, <1>6, <1>7, <1>8, <1>9, <1>10, <1>11, <1>12, <1>13, <1>14, <1>15, <1>16
     DEF HandlerStep, TryStopContainer

\* What is listed, and what is left of it, are victims.
LEMMA HandlerVictims ==
    ASSUME TypeOK, RequestTypeOK, NEW w \in Worker, RequestInv(w), VictimInv(w),
           ReuseAddresses \/ CrossTalkInv, HandlerStep(w) \/ Receive(w), HandlerStep(w) => HomesStay
    PROVE  VictimInv(w)'
<1> DEFINE r == request[w]
<1> SUFFICES ASSUME request'[w].step \in {"stop", "remove"} PROVE VictimInv(w)'
  BY DEF VictimInv
<1>1. request \in [Worker -> Request] /\ r \in Request
  BY DEF RequestTypeOK
<1>2. ListVictims(w) \/ StopContainer(w) \/ RemoveContainer(w)
  BY VictimSteps
<1>3. r.step \in {"list", "stop", "remove"} /\ ~Throws(w) /\ HomesStay
  <2>1. ~Throws(w)
    BY <1>1 DEF Throws, Answers, Idle
  <2>2. HomesStay
    BY <1>2 DEF HandlerStep, TryStopContainer
  <2> QED
    BY <1>2, <2>1, <2>2 DEF ListVictims, StopContainer, RemoveContainer, At
<1>4. ASSUME NEW c, IsVictim(w, c), request'[w].target = r.target, request'[w].call = r.call
      PROVE  IsVictim(w, c)'
  BY <1>3, <1>4 DEF IsVictim, IsOfImage, HomesStay, TargetId
<1>5. CASE ListVictims(w)
  <2> DEFINE listed == {c \in Held(w) : IsOfImage(c, r.call.image) /\ r.call.only \in {All, c}}
             now == {<<c, containers[c].state = "running">> : c \in listed}
  <2>1. request' = [request EXCEPT ![w].step = "stop", ![w].victims = now] /\ Reachable(GetClient(w))
    BY <1>3, <1>5 DEF ListVictims
  <2>2. TargetId(w) \in Instance /\ r.target \in Object
    BY <1>5, ObjectIds DEF ListVictims, At, RequestInv, TargetInv, Connected, TargetId
  <2>3. \A i \in Answering(GetClient(w)) : ReuseAddresses \/ i = TargetId(w)
    BY <2>1, <2>2 DEF Answering, Reachable, GetClient, OwnerOf, CrossTalkInv, AddressesOwned
  <2>4. \A c \in listed : IsVictim(w, c)
    BY <2>2, <2>3, NoInstanceAssumption DEF Held, Answering, ContainersOn, IsVictim
  <2>5. \A v \in now : v[1] \in listed
    OBVIOUS
  <2> HIDE DEF now, listed
  <2>6. /\ request'[w].step = "stop" /\ request'[w].victims = now
        /\ request'[w].target = r.target /\ request'[w].call = r.call
    BY <1>1, <2>1 DEF Request
  <2> QED
    BY <1>4, <2>4, <2>5, <2>6 DEF VictimInv
<1>6. CASE StopContainer(w)
  <2> DEFINE endOfCall == [r EXCEPT !.victims = {}, !.call = NoCall, !.step = "next"]
  <2>1. PICK v \in r.victims :
           \/ request'[w] = [r EXCEPT !.victims = @ \ {v}, !.held = v[1], !.step = "remove"]
           \/ request'[w] = endOfCall
    BY <1>1, <1>3, <1>6 DEF StopContainer, Replies
  <2>2. endOfCall.step = "next"
    BY <1>1 DEF Request
  <2> HIDE DEF endOfCall
  <2>3. request'[w] = [r EXCEPT !.victims = @ \ {v}, !.held = v[1], !.step = "remove"]
    BY <2>1, <2>2
  <2>4. /\ request'[w].step = "remove" /\ request'[w].victims \subseteq r.victims
        /\ request'[w].held = v[1] /\ request'[w].target = r.target /\ request'[w].call = r.call
    BY <1>1, <2>3 DEF Request
  <2>5. r.step = "stop"
    BY <1>6 DEF StopContainer, At
  <2> QED
    BY <1>4, <2>4, <2>5 DEF VictimInv
<1>7. CASE RemoveContainer(w)
  <2>1. request' = [request EXCEPT ![w].step = "stop", ![w].held = All]
    BY <1>3, <1>7 DEF RemoveContainer, Replies
  <2>2. /\ request'[w].step = "stop" /\ request'[w].victims = r.victims
        /\ request'[w].target = r.target /\ request'[w].call = r.call
    BY <1>1, <2>1 DEF Request
  <2>3. r.step = "remove"
    BY <1>7 DEF RemoveContainer, At
  <2> QED
    BY <1>4, <2>2, <2>3 DEF VictimInv
<1> QED
  BY <1>2, <1>5, <1>6, <1>7

VictimsInv ==
    ApiInv /\ (ReuseAddresses \/ CrossTalkInv) /\ \A w \in Worker : VictimInv(w)

\* At first nobody has victims.
LEMMA InitVictims == ApiInit => VictimsInv
<1>1. ApiInit => \A w \in Worker : VictimInv(w)
  BY DEF ApiInit, Idle, VictimInv
<1> QED
  BY <1>1, ApiInitInv, InitCrossTalk DEF ApiInit, VictimsInv

\* Every step keeps them.
LEMMA VictimsNext == VictimsInv /\ [ApiNext]_apiVars => VictimsInv'
<1> SUFFICES ASSUME VictimsInv, [ApiNext]_apiVars PROVE VictimsInv'
  OBVIOUS
<1>1. /\ ApiInv /\ ApiInv' /\ TypeOK /\ TypeOK' /\ RequestTypeOK
      /\ ReuseAddresses \/ CrossTalkInv
  BY ApiInvNext DEF VictimsInv, ApiInv
<1>2. ASSUME NEW w \in Worker, HandlerStep(w) PROVE VictimsInv'
  <2>1. HomesStay
    BY <1>1, <1>2, HandlerHomes
  <2>2. VictimInv(w)'
    BY <1>1, <1>2, <2>1, HandlerVictims DEF VictimsInv, ApiInv
  <2>3. ASSUME NEW v \in Worker \ {w} PROVE VictimInv(v)'
    BY <1>1, <1>2, <2>1, OthersStay, SameVictims DEF VictimsInv
  <2> QED
    BY <1>1, <1>2, <2>2, <2>3, CrossTalkHandler DEF VictimsInv
<1>3. ASSUME NEW w \in Worker, Receive(w) PROVE VictimsInv'
  <2>1. UNCHANGED <<externalVars, registryVars, workerVars>>
    BY <1>3 DEF Receive, managerUnchanged
  <2>2. HomesStay
    BY <2>1 DEF HomesStay, externalVars
  <2>3. ReuseAddresses \/ CrossTalkInv'
    BY <1>1, <2>1, CrossTalkFrame DEF registryVars, objectVars, workerVars, answerVars, probeVars
  <2>4. VictimInv(w)'
    BY <1>1, <1>3, <2>2, HandlerVictims DEF VictimsInv, ApiInv
  <2>5. ASSUME NEW v \in Worker \ {w} PROVE VictimInv(v)'
    BY <1>1, <1>3, <2>2, OthersStay, SameVictims DEF VictimsInv
  <2> QED
    BY <1>1, <2>3, <2>4, <2>5 DEF VictimsInv
<1>4. ASSUME NEW w \in Worker, PipelineStep(w) PROVE VictimsInv'
  <2>1. RefreshStep(w) \/ RemoteCallFails(w)
    BY <1>4 DEF PipelineStep
  <2>2. ReuseAddresses \/ CrossTalkInv'
    BY <1>1, <2>1, CrossTalkNext DEF Next
  <2>3. HomesStay
    BY <2>1, RefreshExternal DEF HomesStay, externalVars
  <2>4. ASSUME NEW v \in Worker PROVE VictimInv(v)'
    BY <1>1, <1>4, <2>3, PipelineStaysRequest, SameVictims DEF VictimsInv
  <2> QED
    BY <1>1, <2>2, <2>4 DEF VictimsInv
<1>5. CASE Outside \/ HostedBegins \/ UNCHANGED apiVars
  <2>1. [Next]_vars /\ UNCHANGED request
    BY <1>5 DEF Outside, HostedBegins, apiVars, Next
  <2>2. HomesStay
    <3>1. External \/ UNCHANGED containers
      BY <1>5 DEF Outside, HostedBegins, HostedRefresh, DescribeInstances, apiVars, vars, externalVars
    <3> QED
      BY <1>1, <3>1, ExternalHomes DEF HomesStay
  <2>3. ASSUME NEW v \in Worker PROVE VictimInv(v)'
    BY <2>1, <2>2, SameVictims DEF VictimsInv, SameRequest
  <2> QED
    BY <1>1, <2>1, <2>3, CrossTalkNext DEF VictimsInv
<1> QED
  BY <1>2, <1>3, <1>4, <1>5 DEF ApiNext

\* A changed container is one that a request under way is for.
LEMMA VictimsRequested ==
    ASSUME ~ReuseAddresses, VictimsInv, [ApiNext]_apiVars, consoleOps' = consoleOps,
           NEW c \in Container, containers'[c] # containers[c]
    PROVE  \E w \in Worker \ {Hosted} : MayTouch(w, c)
<1>1. PICK w \in Worker : HandlerStep(w)
  <2>1. ~(External /\ consoleOps' = consoleOps)
    <3> SUFFICES ASSUME External, consoleOps' = consoleOps PROVE FALSE
      OBVIOUS
    <3>1. consoleOps \in Nat
      BY DEF VictimsInv, ApiInv, TypeOK, ExternalTypeOK
    <3> QED
      BY <3>1 DEF External, CloudProgress, Console
  <2>2. ~UNCHANGED containers
    OBVIOUS
  <2> QED
    BY <2>1, <2>2, RefreshExternal DEF ApiNext, Outside, HostedBegins, HostedRefresh,
       DescribeInstances, Receive, PipelineStep, apiVars, vars, externalVars
<1> DEFINE r == request[w]
<1>2. /\ TypeOK /\ RequestInv(w) /\ VictimInv(w)
      /\ containers \in [Container -> ContainerRecord]
  BY DEF VictimsInv, ApiInv, TypeOK, ExternalTypeOK
<1>3. ASSUME NEW d \in Container, NEW i \in Answering(GetClient(w)), r.step = "create",
             Create(d, i, r.command.image)
      PROVE  w # Hosted /\ MayTouch(w, c)
  <2>1. w # Hosted /\ Handles(w, "spawn") /\ r.target \in Object /\ GetClient(w) # NoAddress
    BY <1>2, <1>3 DEF RequestInv, ControlInv, TargetInv, Connected
  <2>2. r.command.server \in {NoInstance, TargetId(w)}
    BY <1>2, <1>3, <2>1 DEF RequestInv, TargetInv, Connected
  <2>3. i = TargetId(w)
    BY <2>1, ObjectIds DEF Answering, GetClient, TargetId, OwnerOf, VictimsInv, CrossTalkInv,
       AddressesOwned
  <2>4. c = d /\ containers'[c] = [home |-> i, image |-> r.command.image, state |-> "created"]
    BY <1>2, <1>3 DEF Create
  <2> QED
    BY <1>3, <2>1, <2>2, <2>3, <2>4 DEF Create, MayTouch, At
<1>8. CASE r.step = "run" /\ Run(r.held)
  <2>1. w # Hosted
    BY <1>2, <1>8 DEF RequestInv, ControlInv
  <2>2. r.held = c /\ containers'[c].state = "running"
    BY <1>2, <1>8 DEF Run, ContainerRecord
  <2> QED
    BY <1>8, <2>1, <2>2 DEF MayTouch, At
<1>4. ASSUME r.step \in {"stop", "remove"}, IsVictim(w, c),
             containers'[c].state \in {"exited", "absent"}
      PROVE  w # Hosted /\ MayTouch(w, c)
  <2>1. w # Hosted /\ r.command.handler \in StopHandler /\ Matches(r.command, r.call)
    BY <1>2, <1>4 DEF RequestInv, ControlInv, CallsInv, Stopping
  <2>2. r.command.handler \in {"shutdown", "stop", "terminate"} => TargetId(w) = r.command.server
    BY <1>2, <1>4 DEF RequestInv, TargetInv, Connected
  <2> QED
    BY <1>4, <2>1, <2>2 DEF StopHandler, Matches, IsVictim, IsOfImage, MayTouch, Handles
<1>5. \/ \E d \in Container, i \in Answering(GetClient(w)) :
             r.step = "create" /\ Create(d, i, r.command.image)
      \/ r.step = "run" /\ Run(r.held)
      \/ r.step = "stop" /\ \E v \in r.victims : Exit(v[1])
      \/ r.step = "remove" /\ Remove(r.held)
  BY <1>1, <1>2, HandlerContainers DEF At
<1>6. CASE r.step = "stop" /\ \E v \in r.victims : Exit(v[1])
  <2>1. PICK v \in r.victims : Exit(v[1])
    BY <1>6
  <2>2. v[1] = c /\ containers'[c].state = "exited"
    BY <1>2, <2>1 DEF Exit, ContainerRecord
  <2> QED
    BY <1>2, <1>4, <1>6, <2>2 DEF VictimInv
<1>7. CASE r.step = "remove" /\ Remove(r.held)
  <2>1. r.held = c /\ containers'[c].state = "absent"
    BY <1>2, <1>7 DEF Remove, ContainerRecord
  <2> QED
    BY <1>2, <1>4, <1>7, <2>1 DEF VictimInv
<1> QED
  BY <1>3, <1>5, <1>6, <1>7, <1>8

\* While EC2 hands out fresh DNS names, no handler creates, stops or removes a
\* container that no request under way is for, in whatever order it, refreshes,
\* other requests and the account's owner take their steps.
THEOREM OnlyRequestedContainers == ApiSpec => OnlyRequested
<1>1. VictimsInv /\ [ApiNext]_apiVars =>
        [~ReuseAddresses /\ consoleOps' = consoleOps =>
            \A c \in Container : containers'[c] # containers[c] =>
                \E w \in Worker \ {Hosted} : MayTouch(w, c)]_apiVars
  BY VictimsRequested
<1> QED
  BY <1>1, InitVictims, VictimsNext, PTL DEF ApiSpec, OnlyRequested

-----------------------------------------------------------------------------
(* The registry's own properties, with handlers at work on it: requests       *)
(* clear servers, start refreshes of their own and change the account, and    *)
(* none of that breaks what the pipeline keeps by itself.                     *)

\* The refresh a handler begins has the filter too, and its other steps leave
\* the registry, the answers and the lambdas alone.
LEMMA HandlersLeaveForeign ==
    ASSUME ForeignInv, TypeOK', NEW w \in Worker, HandlerStep(w)
    PROVE  ForeignInv'
<1>1. CASE ~DescribeInstances(w)
  <2>1. UNCHANGED <<registry, clients, described, probe>>
    BY <1>1, HandlerFrame DEF workerVars, answerVars, probeVars
  <2> QED
    BY <2>1 DEF ForeignInv, OnlyOwnServers, OwnAnswers, OwnProbes
<1> QED
  BY <1>1, DescribeForeign

\* Lambdas keep the cached clients.
LEMMA HandlersLeaveLambdas ==
    ASSUME LambdaInv, TypeOK', NEW w \in Worker, HandlerStep(w)
    PROVE  LambdaInv'
<1>1. UNCHANGED <<clients, via, probe>>
  <2>1. CASE DescribeInstances(w)
    BY <2>1 DEF DescribeInstances, registryVars, probeVars
  <2> QED
    BY <2>1, HandlerFrame DEF workerVars, probeVars
<1> QED
  BY <1>1 DEF LambdaInv, LambdasHoldClients

\* What does not come from a handler is a step of the registry, or a request
\* that arrives.
LEMMA RegistrySteps ==
    ASSUME [ApiNext]_apiVars
    PROVE  \/ [Next]_vars
           \/ \E w \in Worker : HandlerStep(w)
           \/ UNCHANGED <<externalVars, registryVars, imageInfos, workerVars>>
<1>1. CASE \E w \in Worker : Receive(w)
  BY <1>1 DEF Receive, managerUnchanged
<1>2. CASE \E w \in Worker : PipelineStep(w)
  BY <1>2 DEF PipelineStep, Next
<1>3. CASE Outside \/ HostedBegins \/ UNCHANGED apiVars
  BY <1>3 DEF Outside, HostedBegins, apiVars, Next
<1> QED
  BY <1>1, <1>2, <1>3 DEF ApiNext

\* The registry's invariants, under every step.
LEMMA RegistryUnderApi ==
    ASSUME ApiInv, ForeignInv, LambdaInv, [ApiNext]_apiVars
    PROVE  ForeignInv' /\ LambdaInv'
<1>1. TypeOK'
  BY ApiInvNext DEF ApiInv
<1>2. CASE [Next]_vars
  BY <1>2, ForeignNext, LambdaNext
<1>3. CASE \E w \in Worker : HandlerStep(w)
  BY <1>1, <1>3, HandlersLeaveForeign, HandlersLeaveLambdas
<1>4. CASE UNCHANGED <<externalVars, registryVars, imageInfos, workerVars>>
  BY <1>1, <1>4 DEF ForeignInv, OnlyOwnServers, OwnAnswers, OwnProbes, LambdaInv,
     LambdasHoldClients, registryVars, workerVars, answerVars, probeVars
<1> QED
  BY <1>2, <1>3, <1>4, RegistrySteps

\* They hold for ever.
LEMMA RegistryInvariant == ApiSpec => [](ApiInv /\ ForeignInv /\ LambdaInv)
<1>1. ApiInit => ApiInv /\ ForeignInv /\ LambdaInv
  BY ApiInitInv, InitForeign, InitLambda DEF ApiInit
<1> QED
  BY <1>1, ApiInvNext, RegistryUnderApi, PTL DEF ApiSpec

\* With handlers at work, servers shown as available have a Docker client.
THEOREM AvailableServersHaveClientsInApi == ApiSpec => []AvailableHasClient
<1>1. ApiInv => AvailableHasClient
  BY DEF ApiInv
<1> QED
  BY <1>1, ApiInvariant, PTL

\* Whatever users request, no instance with another key gets into the registry
\* or the cache.
THEOREM ForeignServersUntouchedInApi == ApiSpec => []OnlyOwnServers
<1>1. ForeignInv => OnlyOwnServers
  BY DEF ForeignInv
<1> QED
  BY <1>1, RegistryInvariant, PTL

\* Whatever users request, no client and no list of containers leads to another
\* server while DNS names are fresh.
THEOREM NoServerCrossTalkInApi == ApiSpec => []NoCrossTalk
<1>1. VictimsInv => NoCrossTalk
  BY DEF VictimsInv, CrossTalkInv, AddressesOwned, ContainersAtHome, OwnerOf, NoCrossTalk
<1> QED
  BY <1>1, InitVictims, VictimsNext, PTL DEF ApiSpec

\* A step of the API switches availability on only by an answer of the server's
\* own daemon.
LEMMA ApiAvailabilityStep ==
    ASSUME LambdaInv, CrossTalkInv, [ApiNext]_apiVars
    PROVE  RealAvailability
<1>1. CASE UNCHANGED probe /\ \A o \in Object : isAvailable'[o] => isAvailable[o]
  BY <1>1, NothingAnswered
<1>2. CASE \E w \in Worker : HandlerStep(w)
  <2>1. PICK w \in Worker : HandlerStep(w)
    BY <1>2
  <2>2. UNCHANGED probe
    BY <2>1, HandlerFrame DEF LambdaInv, DescribeInstances, workerVars, probeVars
  <2> QED
    BY <1>1, <2>1, <2>2, HandlersSwitchOff DEF LambdaInv
<1>3. CASE \E w \in Worker : RefreshStep(w)
  BY <1>3, AvailabilityStep
<1>4. CASE \E w \in Worker : RemoteCallFails(w)
  BY <1>4, AbortAnswersNothing DEF RemoteCallFails, registryVars, objectVars, LambdaInv
<1>5. CASE UNCHANGED <<isAvailable, probe>>
  BY <1>1, <1>5
<1>6. \/ \E w \in Worker : RefreshStep(w) \/ RemoteCallFails(w) \/ HandlerStep(w)
      \/ UNCHANGED <<isAvailable, probe>>
  BY DEF ApiNext, Outside, External, HostedBegins, HostedRefresh, DescribeInstances, Receive,
     PipelineStep, managerUnchanged, apiVars, vars, registryVars, objectVars, workerVars, probeVars
<1> QED
  BY <1>2, <1>3, <1>4, <1>5, <1>6

\* With handlers at work, which switch servers off at any await, still no server
\* begins to be shown as available unless that very server answered, running,
\* at the cached address.
THEOREM AvailableServersAreRealInApi == ApiSpec => AvailabilityIsReal
<1>1. LambdaInv /\ VictimsInv /\ [ApiNext]_apiVars => [~ReuseAddresses => RealAvailability]_vars
  BY ApiAvailabilityStep DEF VictimsInv
<1> QED
  BY <1>1, InitVictims, VictimsNext, RegistryInvariant, PTL DEF ApiSpec, AvailabilityIsReal

-----------------------------------------------------------------------------
(* Servers change on request only.  From the moment the server was looked up *)
(* to the call of EC2, through the shutdown of its containers and all the    *)
(* refreshes that replace objects meanwhile, the captured object names the   *)
(* instance of the request, and that is one of the manager's own.            *)

ServerStep == Stopping \cup {"remote"}

RemoteInv(w) ==
    LET r == request[w] IN
    /\ r.step = "begin" => r.target = NoObject
    /\ r.step \in ServerStep /\ r.command.handler \in ServerHandler =>
          \/ /\ r.target = NoObject /\ r.command.server = NoInstance
             /\ r.command.handler = "startOrRun"
          \/ IdOf(r.target) = r.command.server /\ r.command.server \in Instance \ Foreign

\* What a handler's step does to the server it captured
LEMMA TargetStep ==
    ASSUME RequestTypeOK, NEW w \in Worker, NodesInv(w), HandlerStep(w)
    PROVE  \/ \E a : Answers(w, a)
           \/ LookUpServer(w)
           \/ /\ request'[w].command = request[w].command /\ request'[w].step # "begin"
              /\ \/ request[w].command.handler \notin ServerHandler
                 \/ /\ request'[w].target = request[w].target
                    /\ request'[w].step \in ServerStep => request[w].step \in ServerStep
<1> DEFINE r == request[w]
<1> USE DEF Handles, At, ServerHandler, ServerStep, Stopping, Throws
<1>1. request \in [Worker -> Request] /\ r \in Request
  BY DEF RequestTypeOK
<1>2. CASE CreateImage(w) \/ RemoveImage(w) \/ DeleteRow(w) \/ ContainerShutDown(w)
  BY <1>1, <1>2 DEF CreateImage, RemoveImage, DeleteRow, ContainerShutDown, Goes, Request
<1>3. CASE VisitNode(w)
  BY <1>1, <1>3 DEF VisitNode, NodesInv, CallsDone, Request
<1>4. CASE PickServer(w)
  <2>1. \/ \E o : request'[w] = [r EXCEPT !.target = o, !.step = "create"]
        \/ \E a : Answers(w, a)
    BY <1>1, <1>4 DEF PickServer
  <2>2. r.command.handler = "spawn"
    BY <1>4 DEF PickServer
  <2>3. ASSUME NEW o, request'[w] = [r EXCEPT !.target = o, !.step = "create"]
        PROVE  request'[w].command = r.command /\ request'[w].step # "begin"
    BY <1>1, <2>3 DEF Request
  <2> QED
    BY <2>1, <2>2, <2>3
<1>5. CASE ShutdownContainer(w)
  <2>1. \/ \E o, calls : request' = [request EXCEPT ![w].target = o, ![w].step = "next",
                                                    ![w].calls = calls]
        \/ \E a : Answers(w, a)
    BY <1>5 DEF ShutdownContainer
  <2>2. r.command.handler = "shutdown"
    BY <1>5 DEF ShutdownContainer
  <2>3. ASSUME NEW o, NEW calls,
               request' = [request EXCEPT ![w].target = o, ![w].step = "next", ![w].calls = calls]
        PROVE  request'[w].command = r.command /\ request'[w].step # "begin"
    BY <1>1, <2>3 DEF Request
  <2> QED
    BY <2>1, <2>2, <2>3
<1>6. CASE CreateContainer(w) \/ StartContainer(w)
  <2>1. \/ \E c : request'[w] = [r EXCEPT !.held = c, !.step = "run"]
        \/ request'[w] = [r EXCEPT !.held = All, !.step = "refresh"]
        \/ \E a : Answers(w, a)
    BY <1>1, <1>6 DEF CreateContainer, StartContainer, Replies
  <2>2. ASSUME NEW c, \/ request'[w] = [r EXCEPT !.held = c, !.step = "run"]
                      \/ request'[w] = [r EXCEPT !.held = All, !.step = "refresh"]
        PROVE  /\ request'[w].command = r.command /\ request'[w].target = r.target
               /\ request'[w].step \in {"run", "refresh"}
    BY <1>1, <2>2 DEF Request
  <2> QED
    BY <2>1, <2>2
<1>7. CASE ClearServer(w)
  <2>1. request'[w] = [r EXCEPT !.step = "remote"]
    BY <1>7 DEF ClearServer
  <2> QED
    BY <1>1, <1>7, <2>1 DEF ClearServer, CallsDone, Request
<1>8. CASE RemoteCall(w)
  BY <1>1, <1>8 DEF RemoteCall, Replies, Request
<1>9. CASE Refresh(w) \/ EndRefresh(w) \/ Commit(w)
  BY <1>1, <1>9 DEF Refresh, EndRefresh, Commit, Goes, Request
<1>10. CASE TryStopContainer(w)
  <2>1. request[w].step \in Stopping
    BY <1>10 DEF TryStopContainer, NextCall, ListModified, ListVictims, StopContainer,
       RemoveContainer, EndCall
  <2>2. ASSUME request'[w].command = r.command, request'[w].target = r.target,
               request'[w].step # "begin"
        PROVE  request'[w].command = r.command /\ request'[w].step # "begin" /\
               request'[w].target = r.target /\ request[w].step \in ServerStep
    BY <2>1, <2>2
  <2>3. CASE NextCall(w)
    <3>1. \E k \in r.calls :
            \/ request'[w] = [r EXCEPT !.calls = @ \ {k}, !.call = k, !.step = "list"]
            \/ request'[w] = [r EXCEPT !.calls = @ \ {k}]
      BY <1>1, <2>3 DEF NextCall
    <3> QED
      BY <1>1, <2>1, <2>2, <3>1 DEF Request
  <2>4. CASE ListVictims(w)
    <3>1. \/ \E a : Answers(w, a)
          \/ \E V : request' = [request EXCEPT ![w].step = "stop", ![w].victims = V]
      BY <2>4 DEF ListVictims
    <3> QED
      BY <1>1, <2>2, <3>1 DEF Request
  <2>5. CASE StopContainer(w)
    <3>1. \/ \E v : request'[w] = [r EXCEPT !.victims = @ \ {v}, !.held = v[1], !.step = "remove"]
          \/ request'[w] = [r EXCEPT !.victims = {}, !.call = NoCall, !.step = "next"]
          \/ \E a : Answers(w, a)
      BY <1>1, <2>5 DEF StopContainer, Replies
    <3> QED
      BY <1>1, <2>2, <3>1 DEF Request
  <2>6. CASE RemoveContainer(w) \/ EndCall(w)
    <3>1. \/ request'[w] = [r EXCEPT !.step = "stop", !.held = All]
          \/ request'[w] = [r EXCEPT !.step = "next", !.call = NoCall]
          \/ \E a : Answers(w, a)
      BY <1>1, <2>6 DEF RemoveContainer, EndCall, Replies
    <3> QED
      BY <1>1, <2>2, <3>1 DEF Request
  <2> QED
    BY <1>10, <2>3, <2>4, <2>5, <2>6 DEF TryStopContainer, ListModified, BreaksOff
<1> QED
  BY <1>2, <1>3, <1>4, <1>5, <1>6, <1>7, <1>8, <1>9, <1>10 DEF HandlerStep

\* The server that is looked up is registered, hence one of the manager's own.
LEMMA LookUpRemote ==
    ASSUME TypeOK, RequestTypeOK, OnlyOwnServers, NEW w \in Worker, RemoteInv(w), LookUpServer(w)
    PROVE  RemoteInv(w)' \/ \E a : Answers(w, a)
<1> DEFINE r == request[w]
           s == r.command.server
<1>1. request \in [Worker -> Request] /\ r \in Request
  BY DEF RequestTypeOK
<1>2. r.command \in Command /\ r.step = "begin" /\ r.command.handler \in ServerHandler
  BY <1>1 DEF LookUpServer, Request, NoCommand, ServerHandler, At
<1>3. CASE s = NoInstance /\ Handles(w, "startOrRun") /\ Goes(w, "remote")
  <2>1. /\ request'[w].target = r.target /\ request'[w].command = r.command
        /\ request'[w].step = "remote"
    BY <1>1, <1>3 DEF Goes, Request
  <2> QED
    BY <1>2, <1>3, <2>1 DEF RemoteInv, Handles
<1>4. ASSUME s # NoInstance, registry[s] # 0,
             request'[w].target = Current(s), request'[w].command = r.command,
             request'[w].step # "begin"
      PROVE  RemoteInv(w)'
  <2>1. s \in Instance /\ s \notin Foreign
    BY <1>2, <1>4 DEF Command, OnlyOwnServers
  <2>2. IdOf(request'[w].target) = s
    BY <1>4, <2>1, RegisteredObjects
  <2> QED
    BY <1>4, <2>1, <2>2 DEF RemoteInv
<1>5. ASSUME NEW p \in {"next", "remote"}, NEW calls, s # NoInstance, registry[s] # 0,
             \/ request' = [request EXCEPT ![w].target = Current(s), ![w].step = p]
             \/ request' = [request EXCEPT ![w].target = Current(s), ![w].step = p, ![w].calls = calls]
      PROVE  RemoteInv(w)'
  <2>1. /\ request'[w].target = Current(s) /\ request'[w].command = r.command
        /\ request'[w].step # "begin"
    BY <1>1, <1>5 DEF Request
  <2> QED
    BY <1>4, <1>5, <2>1
<1>6. \/ \E a : Answers(w, a)
      \/ s = NoInstance /\ Handles(w, "startOrRun") /\ Goes(w, "remote")
      \/ /\ s # NoInstance /\ registry[s] # 0
         /\ request' = [request EXCEPT ![w].target = Current(s), ![w].step = "remote"]
      \/ /\ s # NoInstance /\ registry[s] # 0
         /\ \E calls : request' = [request EXCEPT ![w].target = Current(s), ![w].step = "next",
                                                  ![w].calls = calls]
  BY DEF LookUpServer
<1> QED
  BY <1>3, <1>5, <1>6

\* No step leads a handler to another server.
LEMMA RemoteStep ==
    ASSUME TypeOK, RequestTypeOK, OnlyOwnServers, NEW w \in Worker, RemoteInv(w), NodesInv(w),
           HandlerStep(w)
    PROVE  RemoteInv(w)'
<1>1. ASSUME NEW a, Answers(w, a) PROVE RemoteInv(w)'
  BY <1>1 DEF Answers, Idle, RemoteInv, ServerStep, Stopping, RequestTypeOK
<1>2. CASE /\ request'[w].command = request[w].command /\ request'[w].step # "begin"
           /\ \/ request[w].command.handler \notin ServerHandler
              \/ /\ request'[w].target = request[w].target
                 /\ request'[w].step \in ServerStep => request[w].step \in ServerStep
  BY <1>2 DEF RemoteInv
<1> QED
  BY <1>1, <1>2, TargetStep, LookUpRemote

\* A request that is left alone leads where it led.
LEMMA SameRemote ==
    ASSUME NEW w \in Worker, RemoteInv(w), SameRequest(w)
    PROVE  RemoteInv(w)'
  BY DEF RemoteInv, SameRequest

ServersInv == ApiInv /\ ForeignInv /\ \A w \in Worker : RemoteInv(w)

\* Every step keeps requests and servers together.
LEMMA ServersNext == ServersInv /\ LambdaInv /\ [ApiNext]_apiVars => ServersInv'
<1> SUFFICES ASSUME ServersInv, LambdaInv, [ApiNext]_apiVars PROVE ServersInv'
  OBVIOUS
<1>1. ApiInv' /\ ForeignInv' /\ TypeOK /\ RequestTypeOK /\ OnlyOwnServers
  BY ApiInvNext, RegistryUnderApi DEF ServersInv, ApiInv, ForeignInv
<1>2. ASSUME NEW w \in Worker, HandlerStep(w) PROVE ServersInv'
  <2>1. RemoteInv(w)'
    BY <1>1, <1>2, RemoteStep DEF ServersInv, ApiInv
  <2>2. ASSUME NEW v \in Worker \ {w} PROVE RemoteInv(v)'
    BY <1>1, <1>2, OthersStay, SameRemote DEF ServersInv
  <2> QED
    BY <1>1, <2>1, <2>2 DEF ServersInv
<1>3. ASSUME NEW w \in Worker, Receive(w) PROVE ServersInv'
  <2>1. RemoteInv(w)'
    <3>1. request'[w].target = NoObject /\ request'[w].step \in {"none", "begin"}
      BY <1>1, <1>3 DEF Receive, Answers, Idle, RequestTypeOK
    <3> QED
      BY <3>1 DEF RemoteInv, ServerStep, Stopping
  <2>2. ASSUME NEW v \in Worker \ {w} PROVE RemoteInv(v)'
    BY <1>1, <1>3, OthersStay, SameRemote DEF ServersInv
  <2> QED
    BY <1>1, <2>1, <2>2 DEF ServersInv
<1>4. CASE \A v \in Worker : SameRequest(v)
  BY <1>1, <1>4, SameRemote DEF ServersInv
<1>5. ASSUME NEW w \in Worker, PipelineStep(w) PROVE \A v \in Worker : SameRequest(v)
  BY <1>1, <1>5, PipelineStaysRequest
<1>6. CASE Outside \/ HostedBegins \/ UNCHANGED apiVars
  BY <1>4, <1>6 DEF Outside, HostedBegins, apiVars, SameRequest
<1> QED
  BY <1>2, <1>3, <1>4, <1>5, <1>6 DEF ApiNext

\* EC2 is told to change the server of the request, by its handler.
LEMMA CalledServers ==
    ASSUME ServersInv, NEW w \in Worker, HandlerStep(w), NEW i \in Instance, cloud'[i] # cloud[i]
    PROVE  w # Hosted /\ i \notin Foreign /\ MayMove(w, i)
<1> DEFINE r == request[w]
<1>1. CallEc2(w) /\ At(w, "remote")
  <2>1. CASE DescribeInstances(w)
    BY <2>1 DEF DescribeInstances, externalVars, cloudVars
  <2>2. ~RemoteCall(w) => UNCHANGED cloud
    BY DEF HandlerStep, CreateImage, RemoveImage, VisitNode, DeleteRow, PickServer, CreateContainer,
       StartContainer, ShutdownContainer, ContainerShutDown, LookUpServer, ClearServer,
       TryStopContainer, NextCall, ListModified, ListVictims, StopContainer, RemoveContainer,
       EndCall, Refresh, EndRefresh, Commit, DescribeInstances, vars, externalVars, cloudVars
  <2> QED
    BY <2>2 DEF RemoteCall, cloudVars
<1>2. /\ cloud \in [Instance -> CloudState] /\ RemoteInv(w) /\ ControlInv(w)
      /\ r.step = "remote" /\ w # Hosted
  BY <1>1 DEF ServersInv, ApiInv, TypeOK, ExternalTypeOK, RequestInv, ControlInv, At
<1>3. \/ /\ TargetId(w) = NoInstance /\ r.command.server = NoInstance
         /\ r.command.handler = "startOrRun"
      \/ /\ TargetId(w) = r.command.server /\ r.command.server \in Instance \ Foreign
         /\ TargetId(w) # NoInstance
  <2>1. r.command.handler \in ServerHandler
    BY <1>1 DEF CallEc2, Handles, ServerHandler
  <2> QED
    BY <1>2, <2>1, NoInstanceAssumption DEF RemoteInv, ServerStep, TargetId, NoObject, IdOf
<1>4. CASE Handles(w, "startOrRun") /\ TargetId(w) = NoInstance /\ RunInstances
  BY <1>2, <1>3, <1>4 DEF RunInstances, Launch, Move, MayMove, Handles
<1>5. CASE Handles(w, "startOrRun") /\ TargetId(w) # NoInstance /\ StartInstances(TargetId(w))
  BY <1>2, <1>3, <1>5 DEF StartInstances, Start, Move, MayMove, Handles, cloudVars
<1>6. CASE Handles(w, "stop") /\ StopInstances(TargetId(w))
  BY <1>2, <1>3, <1>6 DEF StopInstances, Stop, Move, MayMove, Handles, cloudVars
<1>7. CASE Handles(w, "terminate") /\ TerminateInstances(TargetId(w))
  BY <1>2, <1>3, <1>7 DEF TerminateInstances, Terminate, Move, MayMove, Handles, cloudVars
<1> QED
  BY <1>1, <1>4, <1>5, <1>6, <1>7 DEF CallEc2

\* A server that begins to start, stop or shut down was asked to by a request.
LEMMA ServersRequested ==
    ASSUME ServersInv, [ApiNext]_apiVars, consoleOps' = consoleOps,
           NEW i \in Instance, cloud'[i] # cloud[i],
           cloud'[i] \in {"pending", "stopping", "shutting-down"}
    PROVE  i \notin Foreign /\ \E w \in Worker \ {Hosted} : MayMove(w, i)
<1>1. ~External
  <2> SUFFICES ASSUME External PROVE FALSE
    OBVIOUS
  <2>1. consoleOps \in Nat /\ cloud \in [Instance -> CloudState]
    BY DEF ServersInv, ApiInv, TypeOK, ExternalTypeOK
  <2>2. PICK j \in Instance : CloudProgress(j)
    BY <2>1 DEF External, Console
  <2> QED
    BY <2>1, <2>2 DEF CloudProgress, Boot, Halt, Destroy, Forget, Move
<1>2. PICK w \in Worker : HandlerStep(w)
  BY <1>1, RefreshExternal DEF ApiNext, Outside, HostedBegins, HostedRefresh, DescribeInstances,
     Receive, PipelineStep, apiVars, vars, externalVars, cloudVars
<1> QED
  BY <1>2, CalledServers

\* For any servers, requests and interleavings: EC2 is told to run, start, stop
\* or terminate a server only by a handler whose request asks for just that, and
\* never one with another key.
THEOREM OnlyRequestedServersChange == ApiSpec => OnlyRequestedServers
<1> DEFINE Requested ==
      consoleOps' = consoleOps =>
          \A i \in Instance :
              cloud'[i] # cloud[i] /\ cloud'[i] \in {"pending", "stopping", "shutting-down"} =>
                  i \notin Foreign /\ \E w \in Worker \ {Hosted} : MayMove(w, i)
<1>1. ApiInit => ServersInv
  <2>1. ApiInit => \A w \in Worker : RemoteInv(w)
    BY DEF ApiInit, Idle, RemoteInv, ServerStep, Stopping
  <2> QED
    BY <2>1, ApiInitInv, InitForeign DEF ApiInit, ServersInv
<1>2. ServersInv /\ [ApiNext]_apiVars => [Requested]_apiVars
  BY ServersRequested
<1> QED
  BY <1>1, <1>2, ServersNext, RegistryInvariant, PTL DEF ApiSpec, OnlyRequestedServers
=============================================================================

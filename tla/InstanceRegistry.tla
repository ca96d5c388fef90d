--------------------------- MODULE InstanceRegistry ---------------------------
(***************************************************************************)
(* The manager's in-memory registry of server instances and the refresh    *)
(* pipeline that keeps it in line with EC2 and with the Docker daemons     *)
(* (AwsInfrastructureClient, ImagesRuntimeInfoService, the Docker clients  *)
(* cache).  The hosted service and every request handler run the pipeline  *)
(* concurrently over the same static dictionary and the same objects, so   *)
(* each await is a separate action: the answer of a remote call is taken   *)
(* in one step and used in a later one.                                    *)
(***************************************************************************)
EXTENDS Ec2Docker

CONSTANTS
    Worker,       \* the flows of control that refresh: requests and the service
    Hosted,       \* the hosted service's loop
    MaxObjects,   \* bound: ServerInstance objects registered per instance id
    MaxRequests,  \* bound: refreshes that request handlers start
    MaxFaults     \* bound: remote calls that fail, pings that time out

ASSUME HostedAssumption == Hosted \in Worker
ASSUME BoundsAssumption == MaxObjects \in Nat /\ MaxRequests \in Nat /\ MaxFaults \in Nat

\* A ServerInstance object.  A handler that holds one keeps it after the
\* registry dropped it, and a later object of the same id is another one.
Object == Instance \X (1 .. MaxObjects)
IdOf(o) == o[1]

VARIABLES
    registry,     \* Instances: which object an id maps to, 0 when the key is absent
    born,         \* how many objects were registered under an id
    dnsName,      \* ServerInstance.PublicDnsName, which determines DockerRemoteApiUrl
    status,       \* ServerInstance.Status
    isAvailable,  \* ServerInstance.IsAvailable
    images,       \* ServerInstance.Images
    clients,      \* DockerClientsProvider._clientsCache: the address a client talks to
    imageInfos,   \* the rows of the image table
    phase,        \* what a worker awaits, or does next
    described,    \* the answer of DescribeInstances: a DNS name for every listed id
    states,       \* the answer of DescribeInstanceStatus
    monitors,     \* the answer of ListAllAsync
    seen,         \* the dictionary's insertions when a worker began to enumerate it
    probe,        \* where a worker's lambda for an object is
    via,          \* the Docker client the lambda captured
    found,        \* the containers its ListContainers call returned
    failed,       \* did a worker's refresh throw?
    requests, faults

objectVars == <<dnsName, status, isAvailable, images>>
registryVars == <<registry, born, objectVars, clients>>
probeVars == <<probe, via, found>>
answerVars == <<described, states, monitors, seen>>
workerVars == <<phase, answerVars, probeVars, failed>>
boundVars == <<requests, faults>>
vars == <<externalVars, registryVars, imageInfos, workerVars, boundVars>>

Status == {"Unknown", "Pending", "Running", "Stopping", "Stopped",
           "ShuttingDown", "Terminated"}

\* Mutant: the status keeps the name EC2 gives it.
RawStatus == [s \in CloudState |-> s]

ToAwsInstanceStatus ==
    [s \in CloudState |->
        CASE s = "pending" -> "Pending"
          [] s = "running" -> "Running"
          [] s = "shutting-down" -> "ShuttingDown"
          [] s = "terminated" -> "Terminated"
          [] s = "stopping" -> "Stopping"
          [] s = "stopped" -> "Stopped"
          [] OTHER -> "Unknown"]

Phase == {"idle", "merge", "status", "apply", "list", "acquire", "probe"}

\* A lambda of RefreshStateAsync: the loop has yet to reach its node; it found
\* no client; it has one; its ping is under way; the ping was answered, or not;
\* it awaits ListContainers; it has the list.  "none": there is no such lambda,
\* or it ended.
ProbeState == {"none", "todo", "adding", "ready", "ping", "pong", "silence",
               "containers", "answer"}

Unlisted == "unlisted"
NoObjects == [i \in Instance |-> 0]
NoAnswer == [i \in Instance |-> Unlisted]
NoProbe == [o \in Object |-> "none"]
NoClient == [o \in Object |-> NoAddress]
NothingFound == [o \in Object |-> {}]

Registered == {o \in Object : registry[IdOf(o)] = o[2]}
Current(i) == <<i, registry[i]>>

IsRunning(o) == status[o] = "Running"
IsStopped(o) == status[o] = "Stopped"
IsIdle(o) == IsRunning(o) /\ images[o] = {}

RegistryTypeOK ==
    /\ registry \in [Instance -> 0 .. MaxObjects]
    /\ born \in [Instance -> 0 .. MaxObjects]
    /\ dnsName \in [Object -> Address \cup {NoAddress}]
    /\ status \in [Object -> Status]
    /\ isAvailable \in [Object -> BOOLEAN]
    /\ images \in [Object -> SUBSET Container]
    /\ clients \in [Instance -> Address \cup {NoAddress}]

AnswerTypeOK ==
    /\ described \in [Worker -> [Instance -> Address \cup {NoAddress, Unlisted}]]
    /\ states \in [Worker -> [Instance -> CloudState \cup {Unlisted}]]
    /\ monitors \in [Worker -> SUBSET Image]
    /\ seen \in [Worker -> [Instance -> 0 .. MaxObjects]]

ProbeTypeOK ==
    /\ probe \in [Worker -> [Object -> ProbeState]]
    /\ via \in [Worker -> [Object -> Address \cup {NoAddress}]]
    /\ found \in [Worker -> [Object -> SUBSET Container]]

ControlTypeOK ==
    /\ imageInfos \subseteq Image
    /\ phase \in [Worker -> Phase]
    /\ failed \in [Worker -> BOOLEAN]
    /\ requests \in 0 .. MaxRequests
    /\ faults \in 0 .. MaxFaults

TypeOK ==
    /\ ExternalTypeOK
    /\ RegistryTypeOK
    /\ AnswerTypeOK
    /\ ProbeTypeOK
    /\ ControlTypeOK

RegistryInit ==
    /\ registry = NoObjects
    /\ born = NoObjects
    /\ dnsName = NoClient
    /\ status = [o \in Object |-> "Unknown"]
    /\ isAvailable = [o \in Object |-> FALSE]
    /\ images = NothingFound
    /\ clients = [i \in Instance |-> NoAddress]
    /\ phase = [w \in Worker |-> "idle"]
    /\ described = [w \in Worker |-> NoAnswer]
    /\ states = [w \in Worker |-> NoAnswer]
    /\ monitors = [w \in Worker |-> {}]
    /\ seen = [w \in Worker |-> NoObjects]
    /\ probe = [w \in Worker |-> NoProbe]
    /\ via = [w \in Worker |-> NoClient]
    /\ found = [w \in Worker |-> NothingFound]
    /\ failed = [w \in Worker |-> FALSE]
    /\ requests = 0
    /\ faults = 0

Init == ExternalInit /\ RegistryInit /\ imageInfos \in SUBSET Image

-----------------------------------------------------------------------------
(* RefreshInstancesAsync *)

Goto(w, p) == phase' = [phase EXCEPT ![w] = p]

\* The hosted service catches what a refresh throws and goes on.
\* Mutant: the exception ends the loop.
ResumeNever(w) == Goto(w, "dead")
Resume(w) == Goto(w, "idle")

\* The refresh throws: its locals die with it.  A handler answers with an
\* error, the hosted service logs the exception and starts over.
Abort(w) ==
    /\ Resume(w)
    /\ failed' = [failed EXCEPT ![w] = TRUE]
    /\ described' = [described EXCEPT ![w] = NoAnswer]
    /\ states' = [states EXCEPT ![w] = NoAnswer]
    /\ monitors' = [monitors EXCEPT ![w] = {}]
    /\ seen' = [seen EXCEPT ![w] = NoObjects]
    /\ probe' = [probe EXCEPT ![w] = NoProbe]
    /\ via' = [via EXCEPT ![w] = NoClient]
    /\ found' = [found EXCEPT ![w] = NothingFound]

\* The filter on KeyName.  Mutant: no filter.
EveryListed == Listed
OwnListed == Listed \ Foreign

\* A refresh begins: EC2 lists the account; only instances with the configured KeyName are kept.
DescribeInstances(w) ==
    /\ phase[w] = "idle"
    /\ failed' = [failed EXCEPT ![w] = FALSE]
    /\ described' = [described EXCEPT ![w] =
          [i \in Instance |-> IF i \in OwnListed THEN addr[i] ELSE Unlisted]]
    /\ Goto(w, "merge")
    /\ UNCHANGED <<externalVars, registryVars, imageInfos, states, monitors, seen,
                   probeVars, faults>>

\* Instances.Remove(key).
RemoveKey(i) == 0

\* curr.PublicDnsName = src.PublicDnsName for every listed id.  Mutant: only for
\* new objects.
NameFresh(w, fresh) ==
    dnsName' = [o \in Object |->
        IF IdOf(o) \in fresh /\ registry'[IdOf(o)] = o[2]
          THEN described[w][IdOf(o)] ELSE dnsName[o]]
NameListed(w, fresh) ==
    dnsName' = [o \in Object |->
        IF described[w][IdOf(o)] # Unlisted /\ registry'[IdOf(o)] = o[2]
          THEN described[w][IdOf(o)] ELSE dnsName[o]]

\* Drop the ids the answer does not list, register a new object for the ids
\* the dictionary lacks, and set the DNS name of every listed one.
MergeInstances(w) ==
    LET ids == {i \in Instance : described[w][i] # Unlisted}
        fresh == {i \in ids : registry[i] = 0}
    IN /\ phase[w] = "merge"
       /\ \A i \in fresh : born[i] < MaxObjects
       /\ born' = [i \in Instance |-> IF i \in fresh THEN born[i] + 1 ELSE born[i]]
       /\ registry' = [i \in Instance |->
              IF i \in fresh THEN born[i] + 1 ELSE IF i \in ids THEN registry[i] ELSE RemoveKey(i)]
       /\ NameListed(w, fresh)
       /\ Goto(w, "status")
       /\ UNCHANGED <<externalVars, status, isAvailable, images, clients, imageInfos,
                      answerVars, probeVars, failed, boundVars>>

\* An empty id list asks EC2 for the status of every instance of the account.
DescribeInstanceStatus(w) ==
    LET ids == {i \in Instance : described[w][i] # Unlisted}
        asked == IF ids = {} THEN Instance ELSE ids
    IN /\ phase[w] = "status"
       /\ states' = [states EXCEPT ![w] =
              [i \in Instance |-> IF i \in asked \cap Listed THEN cloud[i] ELSE Unlisted]]
       /\ described' = [described EXCEPT ![w] = NoAnswer]
       /\ Goto(w, "apply")
       /\ UNCHANGED <<externalVars, registryVars, imageInfos, monitors, seen,
                      probeVars, failed, boundVars>>

SetStatus(w, ids) ==
    status' = [o \in Object |->
        IF IdOf(o) \in ids /\ o \in Registered
          THEN ToAwsInstanceStatus[states[w][IdOf(o)]] ELSE status[o]]

\* Instances[status.InstanceId] throws for an id the dictionary no longer has;
\* the statuses enumerated before it are applied.
ApplyStatus(w) ==
    LET ids == {i \in Instance : states[w][i] # Unlisted}
        known == {i \in ids : registry[i] # 0}
    IN /\ phase[w] = "apply"
       /\ \/ /\ known = ids
             /\ SetStatus(w, ids)
             /\ Goto(w, "list")
             /\ states' = [states EXCEPT ![w] = NoAnswer]
             /\ UNCHANGED <<described, monitors, seen, probeVars, failed>>
          \/ /\ known # ids
             /\ \E earlier \in SUBSET known : SetStatus(w, earlier)
             /\ Abort(w)
       /\ UNCHANGED <<externalVars, registry, born, dnsName, isAvailable, images, clients,
                      imageInfos, boundVars>>

-----------------------------------------------------------------------------
(* RefreshStateAsync: first the loop that gives every node a Docker client, *)
(* then one lambda per node, awaited together                              *)

\* Checked(answers).  Mutant: whether the daemon answers is not looked at.
CheckedRunning(o, answers) == isAvailable' = [isAvailable EXCEPT ![o] = IsRunning(o)]
Checked(o, answers) ==
    isAvailable' = [isAvailable EXCEPT ![o] = IsRunning(o) /\ answers]

Advance(w, o, s) == probe' = [probe EXCEPT ![w][o] = s]

ListImages(w) ==
    /\ phase[w] = "list"
    /\ monitors' = [monitors EXCEPT ![w] = imageInfos]
    /\ seen' = [seen EXCEPT ![w] = born]
    /\ probe' = [probe EXCEPT ![w] =
           [o \in Object |-> IF o \in Registered THEN "todo" ELSE "none"]]
    /\ Goto(w, "acquire")
    /\ UNCHANGED <<externalVars, registryVars, imageInfos, described, states,
                   via, found, failed, boundVars>>

\* The loop enumerates Instances.Values while other requests merge: a removal
\* hides the entry, an insertion makes the enumerator throw.
Enumerating(w) == phase[w] = "acquire" /\ \A o \in Object : probe[w][o] # "adding"

CollectionModified(w) ==
    /\ Enumerating(w)
    /\ seen[w] # born
    /\ Abort(w)
    /\ UNCHANGED <<externalVars, registryVars, imageInfos, boundVars>>

\* One turn of the loop: a node that is not running is unavailable; for the
\* others TryGetClient looks the cache up.
Visit(w, o) ==
    /\ Enumerating(w) /\ seen[w] = born
    /\ probe[w][o] = "todo" /\ o \in Registered
    /\ \/ /\ ~IsRunning(o)
          /\ Checked(o, FALSE)
          /\ Advance(w, o, "none")
          /\ UNCHANGED via
       \/ /\ IsRunning(o) /\ clients[IdOf(o)] # NoAddress
          /\ Advance(w, o, "ready")
          /\ via' = [via EXCEPT ![w][o] = clients[IdOf(o)]]
          /\ UNCHANGED isAvailable
       \/ /\ IsRunning(o) /\ clients[IdOf(o)] = NoAddress
          /\ Advance(w, o, "adding")
          /\ UNCHANGED <<isAvailable, via>>
    /\ UNCHANGED <<externalVars, registry, born, dnsName, status, images, clients,
                   imageInfos, phase, answerVars, found, failed, boundVars>>

\* The cache's assignment.  Mutant: the new client is used but not cached.
ForgetClient(o) == UNCHANGED clients
CacheClient(o) == clients' = [clients EXCEPT ![IdOf(o)] = dnsName[o]]

\* AddClient throws when the id has a client by now ("already added") and when
\* the server has no URL (DockerClientConfiguration rejects null).
AddClient(w, o) ==
    /\ probe[w][o] = "adding"
    /\ \/ /\ clients[IdOf(o)] = NoAddress /\ dnsName[o] # NoAddress
          /\ CacheClient(o)
          /\ via' = [via EXCEPT ![w][o] = dnsName[o]]
          /\ Advance(w, o, "ready")
          /\ UNCHANGED <<phase, answerVars, found, failed>>
       \/ /\ clients[IdOf(o)] # NoAddress \/ dnsName[o] = NoAddress
          /\ Abort(w)
          /\ UNCHANGED clients
    /\ UNCHANGED <<externalVars, registry, born, objectVars, imageInfos, boundVars>>

\* The loop ended.  Every lambda runs up to its first await: a node without a
\* URL is unavailable at once, the others are pinged.
StartProbes(w) ==
    LET ready == {o \in Object : probe[w][o] = "ready"}
        pinged == {o \in ready : dnsName[o] # NoAddress}
    IN /\ Enumerating(w) /\ seen[w] = born
       /\ \A o \in Registered : probe[w][o] # "todo"
       /\ isAvailable' = [o \in Object |-> isAvailable[o] /\ o \notin ready \ pinged]
       /\ probe' = [probe EXCEPT ![w] = [o \in Object |-> IF o \in pinged THEN "ping" ELSE "none"]]
       /\ via' = [via EXCEPT ![w] = [o \in Object |-> IF o \in pinged THEN via[w][o] ELSE NoAddress]]
       /\ seen' = [seen EXCEPT ![w] = NoObjects]
       /\ Goto(w, "probe")
       /\ UNCHANGED <<externalVars, registry, born, dnsName, status, images, clients, imageInfos,
                      described, states, monitors, found, failed, boundVars>>

Fault == faults < MaxFaults /\ faults' = faults + 1

EndProbe(w, o) ==
    /\ Advance(w, o, "none")
    /\ via' = [via EXCEPT ![w][o] = NoAddress]
    /\ found' = [found EXCEPT ![w][o] = {}]

\* A ping is answered by whatever runs at the client's address; it fails when
\* nothing does, and may always fail or time out.
AnswerPing(w, o) ==
    /\ probe[w][o] = "ping"
    /\ \/ /\ Reachable(via[w][o])
          /\ Advance(w, o, "pong")
          /\ UNCHANGED faults
       \/ /\ IF Reachable(via[w][o]) THEN Fault ELSE UNCHANGED faults
          /\ Advance(w, o, "silence")
    /\ UNCHANGED <<externalVars, registryVars, imageInfos, phase, answerVars, via, found,
                   failed, requests>>

\* The lambda goes on with what the ping returned, whatever became of the
\* server since: it sets the flag, and asks an available server for its list.
PingReply(w, o) ==
    /\ probe[w][o] \in {"pong", "silence"}
    /\ Checked(o, probe[w][o] = "pong")
    /\ IF probe[w][o] = "pong" /\ IsRunning(o)
         THEN Advance(w, o, "containers") /\ UNCHANGED <<via, found>>
         ELSE EndProbe(w, o)
    /\ UNCHANGED <<externalVars, registry, born, dnsName, status, images, clients, imageInfos,
                   phase, answerVars, failed, boundVars>>

\* The containers of known images that the daemon lists, stopped ones included
ListContainers(w, o) ==
    /\ probe[w][o] = "containers"
    /\ \/ /\ Reachable(via[w][o])
          /\ found' = [found EXCEPT ![w][o] =
                 {c \in UNION {ContainersOn(i) : i \in Answering(via[w][o])} :
                     containers[c].image \in monitors[w]}]
          /\ Advance(w, o, "answer")
          /\ UNCHANGED <<via, failed, faults>>
       \/ /\ IF Reachable(via[w][o]) THEN Fault ELSE UNCHANGED faults
          /\ failed' = [failed EXCEPT ![w] = TRUE]
          /\ EndProbe(w, o)
    /\ UNCHANGED <<externalVars, registryVars, imageInfos, phase, answerVars, requests>>

\* ServerInstance.Merge replaces the whole list.  Mutants: it does not clear
\* the list first; the lambdas share one captured instance variable.
MergeWithoutClear(o, infos) == images' = [images EXCEPT ![o] = @ \cup infos]
MergeIntoEvery(o, infos) ==
    images' = [p \in Object |-> IF isAvailable[p] THEN infos ELSE images[p]]
Merge(o, infos) == images' = [images EXCEPT ![o] = infos]

MergeImages(w, o) ==
    /\ probe[w][o] = "answer"
    /\ Merge(o, found[w][o])
    /\ EndProbe(w, o)
    /\ UNCHANGED <<externalVars, registry, born, dnsName, status, isAvailable, clients,
                   imageInfos, phase, answerVars, failed, boundVars>>

\* WhenAll: the refresh ends when every lambda has ended.
FinishRefresh(w) ==
    /\ phase[w] = "probe"
    /\ \A o \in Object : probe[w][o] = "none"
    /\ Goto(w, "idle")
    /\ monitors' = [monitors EXCEPT ![w] = {}]
    /\ UNCHANGED <<externalVars, registryVars, imageInfos, described, states, seen,
                   probeVars, failed, boundVars>>

\* DescribeInstanceStatus or the query fails.
RemoteCallFails(w) ==
    /\ phase[w] \in {"status", "list"}
    /\ Fault
    /\ Abort(w)
    /\ UNCHANGED <<externalVars, registryVars, imageInfos, requests>>

RefreshStep(w) ==
    \/ MergeInstances(w)
    \/ DescribeInstanceStatus(w)
    \/ ApplyStatus(w)
    \/ ListImages(w)
    \/ CollectionModified(w)
    \/ \E o \in Object : \/ Visit(w, o)
                         \/ AddClient(w, o)
                         \/ AnswerPing(w, o)
                         \/ PingReply(w, o)
                         \/ ListContainers(w, o)
                         \/ MergeImages(w, o)
    \/ StartProbes(w)
    \/ FinishRefresh(w)

-----------------------------------------------------------------------------
(* The registry by itself: the service refreshes for ever, handlers do now *)
(* and then, and the account changes from outside.                         *)

HostedRefresh == DescribeInstances(Hosted) /\ UNCHANGED requests

RequestRefresh(w) ==
    /\ w # Hosted
    /\ requests < MaxRequests
    /\ requests' = requests + 1
    /\ DescribeInstances(w)

External ==
    /\ \E i \in Instance : CloudProgress(i) \/ Console(i)
    /\ UNCHANGED <<registryVars, imageInfos, workerVars, boundVars>>

Next ==
    \/ External
    \/ HostedRefresh
    \/ \E w \in Worker : RequestRefresh(w) \/ RefreshStep(w) \/ RemoteCallFails(w)

\* EC2 finishes what it began, remote calls are answered or time out, and the
\* service's loop never ends.  Nobody has to use the console or send requests.
Fairness ==
    /\ \A i \in Instance :
          WF_vars(CloudProgress(i) /\ UNCHANGED <<registryVars, imageInfos, workerVars, boundVars>>)
    /\ WF_vars(HostedRefresh)
    /\ \A w \in Worker : WF_vars(RefreshStep(w))

Spec == Init /\ [][Next]_vars /\ Fairness

-----------------------------------------------------------------------------
(* Safety *)

\* A server shown as available has a Docker client: GetClient, which every
\* operation on an available server starts with, never throws "not connected".
AvailableHasClient == \A o \in Object : isAvailable[o] => clients[IdOf(o)] # NoAddress

\* As long as EC2 hands out fresh DNS names, the client cached for a server
\* never talks to another one, and the containers shown for a server live
\* there, however refreshes with old answers interleave.
NoCrossTalk ==
    ~ReuseAddresses =>
        /\ \A i \in Instance : clients[i] # NoAddress => owner[clients[i]] = i
        /\ \A o \in Object : \A c \in images[o] : containers[c].home = IdOf(o)

\* Instances of the account with another key are never registered and never
\* get a client, so no operation of the manager can reach them.
OnlyOwnServers ==
    \A i \in Foreign : registry[i] = 0 /\ clients[i] = NoAddress

\* A ping is answered by the server of that id itself, while it runs under the
\* name the client was made for.
ServerAnswers(w, o) ==
    probe[w][o] = "ping" /\ probe'[w][o] = "pong" =>
        cloud[IdOf(o)] = "running" /\ addr[IdOf(o)] = via[w][o]

\* A server begins to be available by the lambda of a refresh whose ping was
\* answered through the client that operations will use.
BecomesAvailable(o) ==
    ~isAvailable[o] /\ isAvailable'[o] =>
        \E w \in Worker : /\ probe[w][o] = "pong"
                          /\ via[w][o] = clients[IdOf(o)]
                          /\ owner[via[w][o]] = IdOf(o)

RealAvailability ==
    \A o \in Object : BecomesAvailable(o) /\ \A w \in Worker : ServerAnswers(w, o)

\* No answer of another server, no replaced object and no client of an earlier
\* name makes a server available: what answered is that very server, running,
\* at the address operations will use.  (It may have stopped between its answer
\* and the flag.)
AvailabilityIsReal == [][~ReuseAddresses => RealAvailability]_vars

-----------------------------------------------------------------------------
(* Liveness: once nothing changes any more, the registry is right. *)

\* The client cached for a server was made for the name it has.
ClientFits(i) == clients[i] = addr[i]

MirrorsCloud ==
    /\ Registered = {Current(i) : i \in Listed \ Foreign}
    /\ \A o \in Registered : /\ status[o] = ToAwsInstanceStatus[cloud[IdOf(o)]]
                             /\ dnsName[o] = addr[IdOf(o)]
                             /\ isAvailable[o] <=> IsRunning(o) /\ ClientFits(IdOf(o))

MirrorsContainers ==
    \A o \in Registered : isAvailable[o] =>
        images[o] = {c \in ContainersOn(IdOf(o)) : containers[c].image \in imageInfos}

\* Lost races, stale answers and failed calls are repaired by later turns of
\* the hosted service: ids, states and DNS names end up as in EC2, and a server
\* that runs is available again, unless its client was made for an earlier name.
EventuallyMirrorsCloud == <>[]MirrorsCloud

\* ... and the containers shown for available servers as on their daemons.
EventuallyMirrorsContainers == <>[]MirrorsContainers

\* "New server instance starting. It will be available soon."
\* (dashboard-page.component.ts): a server that keeps running becomes available.
RunningServersBecomeAvailable ==
    \A i \in Instance \ Foreign :
        <>[](cloud[i] = "running") => <>[](registry[i] # 0 /\ isAvailable[Current(i)])
=============================================================================

------------------------ MODULE InstanceRegistryProofs ------------------------
EXTENDS InstanceRegistry, TLAPS

\* An object belongs to the instance id it was registered under.
LEMMA ObjectIds == \A o \in Object : IdOf(o) \in Instance
  BY DEF Object, IdOf

\* ToAwsInstanceStatus covers every state EC2 reports.
LEMMA StatusMapping == ToAwsInstanceStatus \in [CloudState -> Status]
  BY DEF ToAwsInstanceStatus, CloudState, Status

\* The manager starts with typed, empty caches.
LEMMA InitType == Init => TypeOK
<1> SUFFICES ASSUME Init PROVE TypeOK
  OBVIOUS
<1>1. ExternalTypeOK
  <2>1. cloud \in [Instance -> CloudState]
    BY InitialAssumption DEF Init, ExternalInit, CloudState
  <2> QED BY <2>1 DEF Init, ExternalInit, ExternalTypeOK
<1>2. RegistryTypeOK
  BY BoundsAssumption DEF Init, RegistryInit, RegistryTypeOK, Status, NoObjects, NoClient, NothingFound
<1>3. AnswerTypeOK
  BY BoundsAssumption DEF Init, RegistryInit, AnswerTypeOK, NoObjects, NoAnswer
<1>4. ProbeTypeOK
  BY DEF Init, RegistryInit, ProbeTypeOK, ProbeState, NoProbe, NoClient, NothingFound
<1>5. ControlTypeOK
  BY BoundsAssumption DEF Init, RegistryInit, ControlTypeOK, Phase
<1> QED
  BY <1>1, <1>2, <1>3, <1>4, <1>5 DEF TypeOK

-----------------------------------------------------------------------------
(* A step that leaves a group of variables alone leaves its types alone. *)

\* ... the account and the daemons,
LEMMA FrameExternal == ExternalTypeOK /\ UNCHANGED externalVars => ExternalTypeOK'
  BY DEF ExternalTypeOK, externalVars, cloudVars

\* ... the registry, its objects and the clients cache,
LEMMA FrameRegistry == RegistryTypeOK /\ UNCHANGED registryVars => RegistryTypeOK'
  BY DEF RegistryTypeOK, registryVars, objectVars

\* ... the answers a refresh holds,
LEMMA FrameAnswer == AnswerTypeOK /\ UNCHANGED answerVars => AnswerTypeOK'
  BY DEF AnswerTypeOK, answerVars

\* ... the lambdas of RefreshStateAsync,
LEMMA FrameProbe == ProbeTypeOK /\ UNCHANGED probeVars => ProbeTypeOK'
  BY DEF ProbeTypeOK, probeVars

\* ... and where every worker is.
LEMMA FrameControl ==
    ControlTypeOK /\ UNCHANGED <<imageInfos, phase, failed, boundVars>> => ControlTypeOK'
  BY DEF ControlTypeOK, boundVars

-----------------------------------------------------------------------------
(* What the operators shared by several actions assign *)

\* An exception drops the locals of its refresh.
LEMMA AbortType ==
    ASSUME TypeOK, NEW w \in Worker, Abort(w)
    PROVE  /\ AnswerTypeOK' /\ ProbeTypeOK'
           /\ phase' \in [Worker -> Phase]
           /\ failed' \in [Worker -> BOOLEAN]
<1>1. AnswerTypeOK'
  BY BoundsAssumption DEF Abort, TypeOK, AnswerTypeOK, NoObjects, NoAnswer
<1>2. ProbeTypeOK'
  BY DEF Abort, TypeOK, ProbeTypeOK, ProbeState, NoProbe, NoClient, NothingFound
<1>3. phase' \in [Worker -> Phase]
  BY DEF Abort, Resume, Goto, TypeOK, ControlTypeOK, Phase
<1>4. failed' \in [Worker -> BOOLEAN]
  BY Zenon DEF Abort, TypeOK, ControlTypeOK
<1> QED
  BY <1>1, <1>2, <1>3, <1>4

\* A worker moves to a phase there is.
LEMMA GotoType ==
    ASSUME ControlTypeOK, NEW w \in Worker, NEW p \in Phase, Goto(w, p)
    PROVE  phase' \in [Worker -> Phase]
  BY DEF Goto, ControlTypeOK

\* Checked sets a flag.
LEMMA CheckedType ==
    ASSUME RegistryTypeOK, NEW o \in Object, NEW b \in BOOLEAN, Checked(o, b)
    PROVE  isAvailable' \in [Object -> BOOLEAN]
  BY Zenon DEF Checked, RegistryTypeOK, IsRunning

\* A lambda moves to a state there is.
LEMMA AdvanceType ==
    ASSUME ProbeTypeOK, NEW w \in Worker, NEW o \in Object, NEW s \in ProbeState,
           Advance(w, o, s)
    PROVE  probe' \in [Worker -> [Object -> ProbeState]]
  BY DEF Advance, ProbeTypeOK

\* A lambda that ends drops its client and its list.
LEMMA EndProbeType ==
    ASSUME ProbeTypeOK, NEW w \in Worker, NEW o \in Object, EndProbe(w, o)
    PROVE  ProbeTypeOK'
<1>1. probe' \in [Worker -> [Object -> ProbeState]]
  BY AdvanceType DEF EndProbe, ProbeState
<1> QED
  BY <1>1 DEF EndProbe, ProbeTypeOK

\* Failures of remote calls stay within their bound.
LEMMA FaultType ==
    ASSUME ControlTypeOK, Fault \/ UNCHANGED faults
    PROVE  faults' \in 0 .. MaxFaults
  BY BoundsAssumption DEF Fault, ControlTypeOK

-----------------------------------------------------------------------------
(* Type correctness, action by action *)

\* EC2, the daemons and the console change the outside world only.
LEMMA ExternalType ==
    ASSUME TypeOK, External
    PROVE  TypeOK'
<1>1. PICK i \in Instance : CloudProgress(i) \/ Console(i)
  BY DEF External
<1>2. ExternalTypeOK'
  <2>1. CASE CloudProgress(i)
    BY <2>1 DEF CloudProgress, Boot, Halt, Destroy, Forget, Move, Release, CloudState, TypeOK, ExternalTypeOK
  <2>2. CASE Console(i)
    <3>1. consoleOps' \in Nat
      BY <2>2 DEF Console, TypeOK, ExternalTypeOK
    <3>2. UNCHANGED cloudVars => containers' \in [Container -> ContainerRecord] 
      BY <2>2 DEF Console, ConsoleStep, Create, Remove, ContainersOn, Launch, Start, Stop, Terminate, TypeOK, ExternalTypeOK, ContainerRecord, ContainerState
    <3> QED
      BY <3>1, <3>2, <2>2 DEF Console, ConsoleStep, Launch, Start, Stop, Terminate, Move, cloudVars,
         CloudState, TypeOK, ExternalTypeOK
  <2> QED BY <1>1, <2>1, <2>2
<1> QED
  BY <1>2, FrameRegistry, FrameAnswer, FrameProbe, FrameControl DEF External, TypeOK, workerVars

\* The answer of DescribeInstances is a DNS name per listed id.
LEMMA DescribeInstancesType ==
    ASSUME TypeOK, NEW w \in Worker, DescribeInstances(w), requests' \in 0 .. MaxRequests
    PROVE  TypeOK'
<1>1. AnswerTypeOK'
  BY DEF DescribeInstances, TypeOK, ExternalTypeOK, AnswerTypeOK
<1>2. failed' \in [Worker -> BOOLEAN]
  BY Zenon DEF DescribeInstances, TypeOK, ControlTypeOK
<1>3. ControlTypeOK'
  BY <1>2, GotoType DEF DescribeInstances, TypeOK, ControlTypeOK, Phase
<1> QED
  BY <1>1, <1>3, FrameExternal, FrameRegistry, FrameProbe DEF DescribeInstances, TypeOK

\* MergeInstances never maps an id to an object beyond the bound.
LEMMA MergeInstancesType ==
    ASSUME TypeOK, NEW w \in Worker, MergeInstances(w)
    PROVE  TypeOK'
<1>1. RegistryTypeOK'
  BY ObjectIds, BoundsAssumption
     DEF MergeInstances, NameListed, RemoveKey, TypeOK, RegistryTypeOK, AnswerTypeOK
<1>2. ControlTypeOK'
  BY GotoType DEF MergeInstances, TypeOK, ControlTypeOK, Phase, boundVars
<1> QED
  BY <1>1, <1>2, FrameExternal, FrameAnswer, FrameProbe DEF MergeInstances, TypeOK

\* The answer of DescribeInstanceStatus is a state per id.
LEMMA DescribeInstanceStatusType ==
    ASSUME TypeOK, NEW w \in Worker, DescribeInstanceStatus(w)
    PROVE  TypeOK'
<1>1. AnswerTypeOK'
  BY DEF DescribeInstanceStatus, TypeOK, ExternalTypeOK, AnswerTypeOK, NoAnswer
<1>2. ControlTypeOK'
  BY GotoType DEF DescribeInstanceStatus, TypeOK, ControlTypeOK, Phase, boundVars
<1> QED
  BY <1>1, <1>2, FrameExternal, FrameRegistry, FrameProbe DEF DescribeInstanceStatus, TypeOK

\* Applying states EC2 reported yields statuses.
LEMMA SetStatusType ==
    ASSUME TypeOK, NEW w \in Worker, NEW ids,
           \A i \in ids : i \in Instance /\ states[w][i] # Unlisted,
           SetStatus(w, ids)
    PROVE  status' \in [Object -> Status]
<1>1. \A i \in ids : states[w][i] \in CloudState
  BY DEF TypeOK, AnswerTypeOK
<1> QED
  BY <1>1, StatusMapping DEF SetStatus, TypeOK, RegistryTypeOK

\* That is so when all statuses are applied and when the loop throws half-way.
LEMMA ApplyStatusType ==
    ASSUME TypeOK, NEW w \in Worker, ApplyStatus(w)
    PROVE  TypeOK'
<1> DEFINE ids == {i \in Instance : states[w][i] # Unlisted}
           known == {i \in ids : registry[i] # 0}
<1>1. CASE /\ SetStatus(w, ids)
           /\ Goto(w, "list")
           /\ states' = [states EXCEPT ![w] = NoAnswer]
           /\ UNCHANGED <<described, monitors, seen, probeVars, failed>>
  <2>1. RegistryTypeOK'
    BY <1>1, SetStatusType DEF ApplyStatus, TypeOK, RegistryTypeOK
  <2>2. AnswerTypeOK'
    BY <1>1 DEF TypeOK, AnswerTypeOK, NoAnswer
  <2>3. ControlTypeOK'
    BY <1>1, GotoType DEF ApplyStatus, TypeOK, ControlTypeOK, Phase, boundVars
  <2> QED
    BY <1>1, <2>1, <2>2, <2>3, FrameExternal, FrameProbe DEF ApplyStatus, TypeOK
<1>2. CASE /\ \E earlier \in SUBSET known : SetStatus(w, earlier)
           /\ Abort(w)
  <2>1. RegistryTypeOK'
    BY <1>2, SetStatusType DEF ApplyStatus, TypeOK, RegistryTypeOK
  <2>2. ControlTypeOK'
    BY <1>2, AbortType DEF ApplyStatus, TypeOK, ControlTypeOK, boundVars
  <2> QED
    BY <1>2, <2>1, <2>2, AbortType, FrameExternal DEF ApplyStatus, TypeOK
<1> QED
  BY <1>1, <1>2 DEF ApplyStatus

\* The loop begins with one lambda to come for every registered node.
LEMMA ListImagesType ==
    ASSUME TypeOK, NEW w \in Worker, ListImages(w)
    PROVE  TypeOK'
<1>1. AnswerTypeOK'
  BY DEF ListImages, TypeOK, RegistryTypeOK, AnswerTypeOK, ControlTypeOK
<1>2. ProbeTypeOK'
  BY DEF ListImages, TypeOK, ProbeTypeOK, ProbeState
<1>3. ControlTypeOK'
  BY GotoType DEF ListImages, TypeOK, ControlTypeOK, Phase, boundVars
<1> QED
  BY <1>1, <1>2, <1>3, FrameExternal, FrameRegistry DEF ListImages, TypeOK

\* An enumerator that throws ends the refresh.
LEMMA CollectionModifiedType ==
    ASSUME TypeOK, NEW w \in Worker, CollectionModified(w)
    PROVE  TypeOK'
<1>1. ControlTypeOK'
  BY AbortType DEF CollectionModified, TypeOK, ControlTypeOK, boundVars
<1> QED
  BY <1>1, AbortType, FrameExternal, FrameRegistry DEF CollectionModified, TypeOK

\* A turn of the loop marks a node or finds its client.
LEMMA VisitType ==
    ASSUME TypeOK, NEW w \in Worker, NEW o \in Object, Visit(w, o)
    PROVE  TypeOK'
<1>1. isAvailable' \in [Object -> BOOLEAN]
  BY CheckedType DEF Visit, TypeOK, RegistryTypeOK
<1>2. RegistryTypeOK'
  BY <1>1 DEF Visit, TypeOK, RegistryTypeOK
<1>3. probe' \in [Worker -> [Object -> ProbeState]]
  BY AdvanceType DEF Visit, TypeOK, ProbeState
<1>4. via' \in [Worker -> [Object -> Address \cup {NoAddress}]]
  <2>1. clients[IdOf(o)] \in Address \cup {NoAddress}
    BY ObjectIds DEF TypeOK, RegistryTypeOK
  <2>2. via' = via \/ via' = [via EXCEPT ![w][o] = clients[IdOf(o)]]
    BY DEF Visit
  <2>3. via \in [Worker -> [Object -> Address \cup {NoAddress}]]
    BY DEF TypeOK, ProbeTypeOK
  <2> QED
    BY <2>1, <2>2, <2>3
<1>5. ProbeTypeOK'
  BY <1>3, <1>4 DEF Visit, TypeOK, ProbeTypeOK
<1> QED
  BY <1>2, <1>5, FrameExternal, FrameAnswer, FrameControl DEF Visit, TypeOK

\* AddClient caches an address or throws.
LEMMA AddClientType ==
    ASSUME TypeOK, NEW w \in Worker, NEW o \in Object, AddClient(w, o)
    PROVE  TypeOK'
<1>1. CASE /\ CacheClient(o)
           /\ via' = [via EXCEPT ![w][o] = dnsName[o]]
           /\ Advance(w, o, "ready")
           /\ UNCHANGED <<phase, answerVars, found, failed>>
  <2>1. RegistryTypeOK'
    BY <1>1, ObjectIds DEF AddClient, CacheClient, objectVars, TypeOK, RegistryTypeOK
  <2>2. probe' \in [Worker -> [Object -> ProbeState]]
    BY <1>1, AdvanceType DEF TypeOK, ProbeState
  <2>3. ProbeTypeOK'
    BY <1>1, <2>2 DEF TypeOK, RegistryTypeOK, ProbeTypeOK
  <2> QED
    BY <1>1, <2>1, <2>3, FrameExternal, FrameAnswer, FrameControl DEF AddClient, TypeOK
<1>2. CASE Abort(w) /\ UNCHANGED clients
  <2>1. ControlTypeOK'
    BY <1>2, AbortType DEF AddClient, TypeOK, ControlTypeOK, boundVars
  <2>2. RegistryTypeOK'
    BY <1>2, FrameRegistry DEF AddClient, TypeOK, registryVars
  <2> QED
    BY <1>2, <2>1, <2>2, AbortType, FrameExternal DEF AddClient, TypeOK
<1> QED
  BY <1>1, <1>2 DEF AddClient

\* Only lambdas whose node has a URL reach the ping.
LEMMA StartProbesType ==
    ASSUME TypeOK, NEW w \in Worker, StartProbes(w)
    PROVE  TypeOK'
<1>1. isAvailable' \in [Object -> BOOLEAN]
  BY Zenon DEF StartProbes, TypeOK, RegistryTypeOK
<1>2. RegistryTypeOK'
  BY <1>1 DEF StartProbes, TypeOK, RegistryTypeOK
<1>3. ProbeTypeOK'
  BY DEF StartProbes, TypeOK, ProbeTypeOK, ProbeState
<1>4. AnswerTypeOK'
  BY BoundsAssumption DEF StartProbes, TypeOK, AnswerTypeOK, NoObjects
<1>5. ControlTypeOK'
  BY GotoType DEF StartProbes, TypeOK, ControlTypeOK, Phase, boundVars
<1> QED
  BY <1>2, <1>3, <1>4, <1>5, FrameExternal DEF StartProbes, TypeOK

\* A ping is answered, or is not.
LEMMA AnswerPingType ==
    ASSUME TypeOK, NEW w \in Worker, NEW o \in Object, AnswerPing(w, o)
    PROVE  TypeOK'
<1>1. probe' \in [Worker -> [Object -> ProbeState]]
  BY AdvanceType DEF AnswerPing, TypeOK, ProbeState
<1>2. ProbeTypeOK'
  BY <1>1 DEF AnswerPing, TypeOK, ProbeTypeOK
<1>3. faults' \in 0 .. MaxFaults
  BY FaultType DEF AnswerPing, TypeOK
<1>4. ControlTypeOK'
  BY <1>3 DEF AnswerPing, TypeOK, ControlTypeOK
<1> QED
  BY <1>2, <1>4, FrameExternal, FrameRegistry, FrameAnswer DEF AnswerPing, TypeOK

\* A ping ends in Checked, whoever answered.
LEMMA PingReplyType ==
    ASSUME TypeOK, NEW w \in Worker, NEW o \in Object, PingReply(w, o)
    PROVE  TypeOK'
<1>1. isAvailable' \in [Object -> BOOLEAN]
  BY CheckedType DEF PingReply, TypeOK
<1>2. RegistryTypeOK'
  BY <1>1 DEF PingReply, TypeOK, RegistryTypeOK
<1>3. ProbeTypeOK'
  <2>1. CASE EndProbe(w, o)
    BY <2>1, EndProbeType DEF TypeOK
  <2>2. CASE Advance(w, o, "containers") /\ UNCHANGED <<via, found>>
    BY <2>2, AdvanceType DEF TypeOK, ProbeTypeOK, ProbeState
  <2> QED BY <2>1, <2>2 DEF PingReply
<1> QED
  BY <1>2, <1>3, FrameExternal, FrameAnswer, FrameControl DEF PingReply, TypeOK

\* The list of a daemon is a set of containers.
LEMMA ListContainersType ==
    ASSUME TypeOK, NEW w \in Worker, NEW o \in Object, ListContainers(w, o)
    PROVE  TypeOK'
<1>1. faults' \in 0 .. MaxFaults
  BY FaultType DEF ListContainers, TypeOK
<1>2. failed' \in [Worker -> BOOLEAN]
  BY Zenon DEF ListContainers, TypeOK, ControlTypeOK
<1>3. ControlTypeOK'
  BY <1>1, <1>2 DEF ListContainers, TypeOK, ControlTypeOK
<1>4. ProbeTypeOK'
  <2>1. CASE EndProbe(w, o)
    BY <2>1, EndProbeType DEF TypeOK
  <2>2. CASE /\ found' = [found EXCEPT ![w][o] =
                    {c \in UNION {ContainersOn(i) : i \in Answering(via[w][o])} :
                        containers[c].image \in monitors[w]}]
             /\ Advance(w, o, "answer")
             /\ UNCHANGED via
    <3>1. probe' \in [Worker -> [Object -> ProbeState]]
      BY <2>2, AdvanceType DEF TypeOK, ProbeState
    <3> QED
      BY <2>2, <3>1 DEF TypeOK, ProbeTypeOK, ContainersOn
  <2> QED BY <2>1, <2>2 DEF ListContainers
<1> QED
  BY <1>3, <1>4, FrameExternal, FrameRegistry, FrameAnswer DEF ListContainers, TypeOK

\* Merge replaces the images by such a list.
LEMMA MergeImagesType ==
    ASSUME TypeOK, NEW w \in Worker, NEW o \in Object, MergeImages(w, o)
    PROVE  TypeOK'
<1>1. RegistryTypeOK'
  BY DEF MergeImages, Merge, TypeOK, RegistryTypeOK, ProbeTypeOK
<1>2. ProbeTypeOK'
  BY EndProbeType DEF MergeImages, TypeOK
<1> QED
  BY <1>1, <1>2, FrameExternal, FrameAnswer, FrameControl DEF MergeImages, TypeOK

\* The end of a refresh leaves its worker idle.
LEMMA FinishRefreshType ==
    ASSUME TypeOK, NEW w \in Worker, FinishRefresh(w)
    PROVE  TypeOK'
<1>1. AnswerTypeOK'
  BY DEF FinishRefresh, TypeOK, AnswerTypeOK
<1>2. ControlTypeOK'
  BY GotoType DEF FinishRefresh, TypeOK, ControlTypeOK, Phase, boundVars
<1> QED
  BY <1>1, <1>2, FrameExternal, FrameRegistry, FrameProbe DEF FinishRefresh, TypeOK

\* A failed call ends the refresh like an exception.
LEMMA RemoteCallFailsType ==
    ASSUME TypeOK, NEW w \in Worker, RemoteCallFails(w)
    PROVE  TypeOK'
<1>1. ControlTypeOK'
  BY AbortType, FaultType DEF RemoteCallFails, TypeOK, ControlTypeOK
<1> QED
  BY <1>1, AbortType, FrameExternal, FrameRegistry DEF RemoteCallFails, TypeOK

\* Every step keeps the types.
LEMMA NextType == TypeOK /\ [Next]_vars => TypeOK'
<1> SUFFICES ASSUME TypeOK, [Next]_vars PROVE TypeOK'
  OBVIOUS
<1>1. CASE External
  BY <1>1, ExternalType
<1>2. CASE HostedRefresh
  <2>1. requests' \in 0 .. MaxRequests
    BY <1>2 DEF HostedRefresh, TypeOK, ControlTypeOK
  <2> QED
    BY <1>2, <2>1, HostedAssumption, DescribeInstancesType DEF HostedRefresh
<1>3. ASSUME NEW w \in Worker, RequestRefresh(w)
      PROVE  TypeOK'
  <2>1. requests' \in 0 .. MaxRequests
    BY <1>3, BoundsAssumption DEF RequestRefresh, TypeOK, ControlTypeOK
  <2> QED
    BY <1>3, <2>1, DescribeInstancesType DEF RequestRefresh
<1>4. ASSUME NEW w \in Worker, RefreshStep(w)
      PROVE  TypeOK'
  BY <1>4, MergeInstancesType, DescribeInstanceStatusType, ApplyStatusType, ListImagesType,
     CollectionModifiedType, VisitType, AddClientType, StartProbesType, AnswerPingType,
     PingReplyType, ListContainersType, MergeImagesType, FinishRefreshType DEF RefreshStep
<1>5. ASSUME NEW w \in Worker, RemoteCallFails(w)
      PROVE  TypeOK'
  BY <1>5, RemoteCallFailsType
<1>6. CASE UNCHANGED vars
  BY <1>6, FrameExternal, FrameRegistry, FrameAnswer, FrameProbe, FrameControl
     DEF TypeOK, vars, workerVars
<1> QED
  BY <1>1, <1>2, <1>3, <1>4, <1>5, <1>6 DEF Next

\* Whatever the account and the remote calls do, the registry, the objects and
\* the locals of every refresh keep the types the code declares for them.
THEOREM TypeCorrect == Spec => []TypeOK
  BY InitType, NextType, PTL DEF Spec

-----------------------------------------------------------------------------
(* Servers shown as available have a Docker client.  By itself that is not  *)
(* inductive: a ping is answered long after the loop looked the client up.  *)
(* A lambda that has its client keeps it only because no step removes an    *)
(* entry of the cache (RemoveClient has an empty body).                     *)

AcquiredClients ==
    \A w \in Worker, o \in Object :
        probe[w][o] \in {"ready", "ping", "pong"} => clients[IdOf(o)] # NoAddress

ClientInv == TypeOK /\ AvailableHasClient /\ AcquiredClients

\* An aborted refresh has no lambda left that holds a client.
LEMMA AbortForgetsProbes ==
    ASSUME TypeOK, NEW w \in Worker, Abort(w), AcquiredClients, UNCHANGED clients
    PROVE  AcquiredClients'
  BY DEF Abort, NoProbe, TypeOK, ProbeTypeOK, AcquiredClients

\* A lambda that moves on had its client, or needs none.
LEMMA EndProbeAcquired ==
    ASSUME TypeOK, NEW w \in Worker, NEW o \in Object, AcquiredClients, UNCHANGED clients,
           NEW s \in {"none", "containers", "answer", "adding"}, Advance(w, o, s)
    PROVE  AcquiredClients'
  BY DEF Advance, TypeOK, ProbeTypeOK, AcquiredClients

\* No step of a refresh takes a client from an available server or a lambda.
LEMMA ClientInvStep ==
    ASSUME ClientInv, NEW w \in Worker, RefreshStep(w)
    PROVE  AvailableHasClient' /\ AcquiredClients'
<1> USE DEF ClientInv
<1>1. CASE MergeInstances(w)
  BY <1>1 DEF MergeInstances, AvailableHasClient, AcquiredClients, probeVars
<1>2. CASE DescribeInstanceStatus(w)
  BY <1>2 DEF DescribeInstanceStatus, registryVars, objectVars, AvailableHasClient, AcquiredClients, probeVars
<1>3. CASE ApplyStatus(w)
  <2>1. AvailableHasClient'
    BY <1>3 DEF ApplyStatus, AvailableHasClient
  <2>2. AcquiredClients'
    BY <1>3, AbortForgetsProbes DEF ApplyStatus, AcquiredClients, probeVars
  <2> QED BY <2>1, <2>2
<1>4. CASE ListImages(w)
  <2>1. AvailableHasClient'
    BY <1>4 DEF ListImages, registryVars, objectVars, AvailableHasClient
  <2>2. AcquiredClients'
    BY <1>4 DEF ListImages, registryVars, TypeOK, ProbeTypeOK, AcquiredClients
  <2> QED BY <2>1, <2>2
<1>5. CASE CollectionModified(w)
  BY <1>5, AbortForgetsProbes DEF CollectionModified, registryVars, objectVars, AvailableHasClient
<1>6. ASSUME NEW o \in Object, Visit(w, o)
      PROVE  AvailableHasClient' /\ AcquiredClients'
  <2>1. AvailableHasClient'
    BY <1>6 DEF Visit, Checked, TypeOK, RegistryTypeOK, AvailableHasClient
  <2>2. CASE \E s \in {"none", "adding"} : Advance(w, o, s)
    BY <1>6, <2>1, <2>2, EndProbeAcquired DEF Visit
  <2>3. CASE clients[IdOf(o)] # NoAddress /\ Advance(w, o, "ready")
    BY <1>6, <2>1, <2>3 DEF Visit, Advance, TypeOK, ProbeTypeOK, AcquiredClients
  <2>4. AcquiredClients'
    BY <1>6, <2>2, <2>3 DEF Visit
  <2> QED BY <2>1, <2>4
<1>7. ASSUME NEW o \in Object, AddClient(w, o)
      PROVE  AvailableHasClient' /\ AcquiredClients'
  <2>1. CASE Abort(w) /\ UNCHANGED clients
    BY <1>7, <2>1, AbortForgetsProbes DEF AddClient, objectVars, AvailableHasClient
  <2>2. CASE /\ dnsName[o] # NoAddress
             /\ clients' = [clients EXCEPT ![IdOf(o)] = dnsName[o]]
             /\ probe' = [probe EXCEPT ![w][o] = "ready"]
    <3>1. clients'[IdOf(o)] # NoAddress
      BY <2>2, ObjectIds DEF TypeOK, RegistryTypeOK
    <3>2. \A p \in Object : clients[IdOf(p)] # NoAddress => clients'[IdOf(p)] # NoAddress
      BY <2>2, <3>1, ObjectIds DEF TypeOK, RegistryTypeOK
    <3>3. AvailableHasClient'
      BY <1>7, <3>2 DEF AddClient, objectVars, AvailableHasClient
    <3>4. AcquiredClients'
      BY <2>2, <3>1, <3>2 DEF TypeOK, ProbeTypeOK, AcquiredClients
    <3> QED BY <3>3, <3>4
  <2> QED
    BY <1>7, <2>1, <2>2 DEF AddClient, CacheClient, Advance
<1>8. CASE StartProbes(w)
  <2>1. AvailableHasClient'
    BY <1>8 DEF StartProbes, TypeOK, RegistryTypeOK, AvailableHasClient
  <2>2. AcquiredClients'
    BY <1>8 DEF StartProbes, TypeOK, ProbeTypeOK, AcquiredClients
  <2> QED BY <2>1, <2>2
<1>9. ASSUME NEW o \in Object, PingReply(w, o)
      PROVE  AvailableHasClient' /\ AcquiredClients'
  <2>1. clients[IdOf(o)] # NoAddress \/ Checked(o, FALSE)
    BY <1>9 DEF PingReply, AcquiredClients
  <2>2. AvailableHasClient'
    BY <1>9, <2>1 DEF PingReply, Checked, TypeOK, RegistryTypeOK, AvailableHasClient
  <2>3. AcquiredClients'
    BY <1>9, EndProbeAcquired DEF PingReply, EndProbe
  <2> QED BY <2>2, <2>3
<1>10. ASSUME NEW o \in Object, ListContainers(w, o)
       PROVE  AvailableHasClient' /\ AcquiredClients'
  BY <1>10, EndProbeAcquired
     DEF ListContainers, EndProbe, registryVars, objectVars, AvailableHasClient
<1>11. ASSUME NEW o \in Object, MergeImages(w, o)
       PROVE  AvailableHasClient' /\ AcquiredClients'
  BY <1>11, EndProbeAcquired DEF MergeImages, EndProbe, AvailableHasClient
<1>12. CASE FinishRefresh(w)
  BY <1>12 DEF FinishRefresh, registryVars, objectVars, probeVars, AvailableHasClient, AcquiredClients
<1>13. ASSUME NEW o \in Object, AnswerPing(w, o)
       PROVE  AvailableHasClient' /\ AcquiredClients'
  <2>1. AvailableHasClient'
    BY <1>13 DEF AnswerPing, registryVars, objectVars, AvailableHasClient
  <2>2. UNCHANGED clients /\ \E s \in {"pong", "silence"} : Advance(w, o, s)
    BY <1>13 DEF AnswerPing, registryVars
  <2>3. clients[IdOf(o)] # NoAddress
    BY <1>13 DEF AnswerPing, AcquiredClients
  <2>4. AcquiredClients'
    BY <2>2, <2>3 DEF Advance, TypeOK, ProbeTypeOK, AcquiredClients
  <2> QED BY <2>1, <2>4
<1> QED
  BY <1>1, <1>2, <1>3, <1>4, <1>5, <1>6, <1>7, <1>8, <1>9, <1>10, <1>11, <1>12, <1>13 DEF RefreshStep

\* Nor does any other step.
LEMMA ClientInvNext == ClientInv /\ [Next]_vars => ClientInv'
<1> SUFFICES ASSUME ClientInv, [Next]_vars PROVE ClientInv'
  OBVIOUS
<1>1. TypeOK'
  BY NextType DEF ClientInv
<1>2. CASE \E w \in Worker : RefreshStep(w)
  BY <1>1, <1>2, ClientInvStep DEF ClientInv
<1>3. CASE \E w \in Worker : DescribeInstances(w)
  BY <1>1, <1>3 DEF DescribeInstances, ClientInv, registryVars, objectVars, probeVars,
     AvailableHasClient, AcquiredClients
<1>4. CASE \E w \in Worker : RemoteCallFails(w)
  BY <1>1, <1>4, AbortForgetsProbes DEF RemoteCallFails, ClientInv, registryVars, objectVars,
     AvailableHasClient
<1>5. CASE UNCHANGED <<registryVars, probeVars>>
  BY <1>1, <1>5 DEF ClientInv, registryVars, objectVars, probeVars, AvailableHasClient, AcquiredClients
<1>6. External \/ UNCHANGED vars => UNCHANGED <<registryVars, probeVars>>
  BY DEF External, vars, workerVars
<1> QED
  BY <1>2, <1>3, <1>4, <1>5, <1>6, HostedAssumption DEF Next, HostedRefresh, RequestRefresh

\* A server shown as available always has a Docker client: no interleaving of
\* refreshes and no failing call makes GetClient throw "not connected" in an
\* operation that checked IsAvailable.
THEOREM AvailableServersHaveClients == Spec => []AvailableHasClient
<1>1. Init => ClientInv
  <2>1. Init => AvailableHasClient /\ AcquiredClients
    BY DEF Init, RegistryInit, NoProbe, AvailableHasClient, AcquiredClients
  <2> QED BY <2>1, InitType DEF ClientInv
<1>2. ClientInv => AvailableHasClient
  BY DEF ClientInv
<1> QED
  BY <1>1, <1>2, ClientInvNext, PTL DEF Spec

-----------------------------------------------------------------------------
(* Foreign instances stay out of the registry: the KeyName filter is applied *)
(* once, to the answer of DescribeInstances, and everything else starts from *)
(* that answer or from the registry.  (DescribeInstanceStatus may well report *)
(* a foreign instance, when it is asked for an empty list of ids.)           *)

OwnAnswers == \A w \in Worker, i \in Foreign : described[w][i] = Unlisted
OwnProbes == \A w \in Worker, o \in Object : IdOf(o) \in Foreign => probe[w][o] = "none"

ForeignInv == TypeOK /\ OnlyOwnServers /\ OwnAnswers /\ OwnProbes

USE DEF OwnAnswers, OwnProbes

\* An aborted refresh touches no foreign instance.
LEMMA AbortForeign ==
    ASSUME ForeignInv, NEW w \in Worker, Abort(w), UNCHANGED <<registry, clients>>, TypeOK'
    PROVE  ForeignInv'
  BY ForeignAssumption DEF Abort, NoAnswer, NoProbe, TypeOK, AnswerTypeOK, ProbeTypeOK,
     OnlyOwnServers, ForeignInv

\* A lambda that moves on was not that of a foreign instance.
LEMMA AdvanceForeign ==
    ASSUME ForeignInv, NEW w \in Worker, NEW o \in Object, NEW s, Advance(w, o, s),
           probe[w][o] # "none", UNCHANGED <<registry, clients, described>>, TypeOK'
    PROVE  ForeignInv'
  BY DEF Advance, TypeOK, ProbeTypeOK, OnlyOwnServers, ForeignInv

\* No step of a refresh lets a foreign instance in.
LEMMA ForeignStep ==
    ASSUME ForeignInv, NEW w \in Worker, RefreshStep(w), TypeOK'
    PROVE  ForeignInv'
<1>1. CASE MergeInstances(w)
  <2>1. \A i \in Foreign : registry'[i] = 0
    BY <1>1, ForeignAssumption DEF MergeInstances, RemoveKey, OnlyOwnServers, ForeignInv
  <2> QED
    BY <1>1, <2>1 DEF MergeInstances, answerVars, probeVars, OnlyOwnServers, ForeignInv
<1>2. CASE DescribeInstanceStatus(w)
  BY <1>2, ForeignAssumption DEF DescribeInstanceStatus, NoAnswer, registryVars, probeVars,
     TypeOK, AnswerTypeOK, OnlyOwnServers, ForeignInv
<1>3. CASE ApplyStatus(w)
  BY <1>3, AbortForeign DEF ApplyStatus, probeVars, OnlyOwnServers, ForeignInv
<1>4. CASE ListImages(w)
  <2>1. \A o \in Object : IdOf(o) \in Foreign => o \notin Registered
    BY DEF ForeignInv, OnlyOwnServers, Registered, Object, IdOf
  <2>2. \A v \in Worker, o \in Object : IdOf(o) \in Foreign => probe'[v][o] = "none"
    BY <1>4, <2>1 DEF ListImages, TypeOK, ProbeTypeOK, ForeignInv
  <2> QED
    BY <1>4, <2>2 DEF ListImages, registryVars, OnlyOwnServers, ForeignInv
<1>5. CASE CollectionModified(w)
  BY <1>5, AbortForeign DEF CollectionModified, registryVars
<1>6. ASSUME NEW o \in Object, Visit(w, o)
      PROVE  ForeignInv'
  <2>1. \E s : Advance(w, o, s)
    BY <1>6 DEF Visit
  <2> QED
    BY <1>6, <2>1, AdvanceForeign DEF Visit, answerVars
<1>7. ASSUME NEW o \in Object, AddClient(w, o)
      PROVE  ForeignInv'
  <2>1. CASE Abort(w) /\ UNCHANGED clients
    BY <1>7, <2>1, AbortForeign DEF AddClient
  <2>2. CASE CacheClient(o) /\ Advance(w, o, "ready") /\ UNCHANGED answerVars
    <3>1. IdOf(o) \notin Foreign
      BY <1>7 DEF AddClient, ForeignInv
    <3>2. \A i \in Foreign : clients'[i] = clients[i]
      BY <2>2, <3>1, ForeignAssumption DEF CacheClient, TypeOK, RegistryTypeOK, ForeignInv
    <3>3. \A v \in Worker, p \in Object : IdOf(p) \in Foreign => probe'[v][p] = probe[v][p]
      BY <2>2, <3>1 DEF Advance, TypeOK, ProbeTypeOK, ForeignInv
    <3> QED
      BY <1>7, <2>2, <3>2, <3>3 DEF AddClient, answerVars, OnlyOwnServers, ForeignInv
  <2> QED
    BY <1>7, <2>1, <2>2 DEF AddClient
<1>8. CASE StartProbes(w)
  <2>1. \A v \in Worker, o \in Object : IdOf(o) \in Foreign => probe'[v][o] = "none"
    BY <1>8 DEF StartProbes, TypeOK, ProbeTypeOK, ForeignInv
  <2> QED
    BY <1>8, <2>1 DEF StartProbes, OnlyOwnServers, ForeignInv
<1>9. ASSUME NEW o \in Object, AnswerPing(w, o) \/ PingReply(w, o)
      PROVE  ForeignInv'
  <2>1. \E s : Advance(w, o, s)
    BY <1>9 DEF AnswerPing, PingReply, EndProbe
  <2> QED
    BY <1>9, <2>1, AdvanceForeign DEF AnswerPing, PingReply, answerVars, registryVars
<1>10. ASSUME NEW o \in Object, ListContainers(w, o)
       PROVE  ForeignInv'
  <2>1. \E s : Advance(w, o, s)
    BY <1>10 DEF ListContainers, EndProbe
  <2> QED
    BY <1>10, <2>1, AdvanceForeign DEF ListContainers, answerVars, registryVars
<1>11. ASSUME NEW o \in Object, MergeImages(w, o)
       PROVE  ForeignInv'
  BY <1>11, AdvanceForeign DEF MergeImages, EndProbe, answerVars
<1>12. CASE FinishRefresh(w)
  BY <1>12 DEF FinishRefresh, registryVars, probeVars, OnlyOwnServers, ForeignInv
<1> QED
  BY <1>1, <1>2, <1>3, <1>4, <1>5, <1>6, <1>7, <1>8, <1>9, <1>10, <1>11, <1>12 DEF RefreshStep

\* The filter keeps them out of the answer.
LEMMA DescribeForeign ==
    ASSUME ForeignInv, NEW w \in Worker, DescribeInstances(w), TypeOK'
    PROVE  ForeignInv'
<1>1. \A v \in Worker, i \in Foreign : described'[v][i] = Unlisted
  BY ForeignAssumption DEF DescribeInstances, OwnListed, TypeOK, AnswerTypeOK, ForeignInv
<1> QED
  BY <1>1 DEF DescribeInstances, registryVars, probeVars, OnlyOwnServers, ForeignInv

\* At first there is nothing.
LEMMA InitForeign == Init => ForeignInv
<1>1. Init => OnlyOwnServers /\ OwnAnswers /\ OwnProbes
  BY ForeignAssumption DEF Init, RegistryInit, NoObjects, NoAnswer, NoProbe, OnlyOwnServers
<1> QED
  BY <1>1, InitType DEF ForeignInv

\* Nor does any other step.
LEMMA ForeignNext == ForeignInv /\ [Next]_vars => ForeignInv'
<1> SUFFICES ASSUME ForeignInv, [Next]_vars PROVE ForeignInv'
  OBVIOUS
<1>1. TypeOK'
  BY NextType DEF ForeignInv
<1>2. CASE \E w \in Worker : RefreshStep(w)
  BY <1>1, <1>2, ForeignStep
<1>3. CASE \E w \in Worker : DescribeInstances(w)
  BY <1>1, <1>3, DescribeForeign
<1>4. CASE \E w \in Worker : RemoteCallFails(w)
  BY <1>1, <1>4, AbortForeign DEF RemoteCallFails, registryVars
<1>5. CASE UNCHANGED <<registryVars, answerVars, probeVars>>
  BY <1>1, <1>5 DEF ForeignInv, registryVars, answerVars, probeVars, OnlyOwnServers
<1>6. External \/ UNCHANGED vars => UNCHANGED <<registryVars, answerVars, probeVars>>
  BY DEF External, vars, workerVars
<1> QED
  BY <1>2, <1>3, <1>4, <1>5, <1>6, HostedAssumption DEF Next, HostedRefresh, RequestRefresh

\* No instance with another key is ever registered or given a Docker client,
\* whatever EC2 reports: the manager cannot reach servers that are not its own.
THEOREM ForeignServersUntouched == Spec => []OnlyOwnServers
<1>1. ForeignInv => OnlyOwnServers
  BY DEF ForeignInv
<1> QED
  BY <1>1, InitForeign, ForeignNext, PTL DEF Spec

-----------------------------------------------------------------------------
(* No cross-talk.  While DNS names are never reused, the instance a name was *)
(* given to identifies the server for ever, so a name may travel through old *)
(* answers, objects, the cache and the lambdas without ever leading to       *)
(* another server.                                                           *)

HIDE DEF OwnAnswers, OwnProbes

OwnerOf(a, i) == a # NoAddress => owner[a] = i

AddressesOwned ==
    /\ \A i \in Instance : OwnerOf(addr[i], i)
    /\ \A o \in Object : OwnerOf(dnsName[o], IdOf(o))
    /\ \A w \in Worker, i \in Instance :
          described[w][i] # Unlisted => OwnerOf(described[w][i], i)
    /\ \A i \in Instance : OwnerOf(clients[i], i)
    /\ \A w \in Worker, o \in Object : OwnerOf(via[w][o], IdOf(o))

ContainersAtHome ==
    /\ \A o \in Object : \A c \in images[o] : containers[c].home = IdOf(o)
    /\ \A w \in Worker, o \in Object : \A c \in found[w][o] : containers[c].home = IdOf(o)

CrossTalkInv == TypeOK /\ AddressesOwned /\ ContainersAtHome

\* EC2 gives a name away once, and a container stays where it was created.
LEMMA OwnershipIsStable ==
    ASSUME CrossTalkInv, ~ReuseAddresses, External
    PROVE  /\ \A a \in Address, i \in Instance : owner[a] = i => owner'[a] = i
           /\ \A c \in Container, i \in Instance :
                 containers[c].home = i => containers'[c].home = i
           /\ \A i \in Instance : OwnerOf(addr[i], i)'
<1>1. PICK i \in Instance : CloudProgress(i) \/ Console(i)
  BY DEF External
<1>2. \A c \in Container, j \in Instance :
          containers[c].home = j => containers'[c].home = j
  <2>1. \/ UNCHANGED containers
        \/ \E c \in Container, m \in Image : Create(c, i, m)
        \/ \E c \in Container : Remove(c)
    BY <1>1 DEF CloudProgress, Console, ConsoleStep, ContainersOn
  <2> QED
    BY <2>1, NoInstanceAssumption
       DEF Create, Remove, CrossTalkInv, TypeOK, ExternalTypeOK, ContainerRecord
<1>3. ASSUME NEW a \in Address, Boot(i, a)
      PROVE  /\ \A b \in Address, j \in Instance : owner[b] = j => owner'[b] = j
             /\ \A j \in Instance : OwnerOf(addr[j], j)'
  <2>1. \A b \in Address, j \in Instance : owner[b] = j => owner'[b] = j
    BY <1>3, NoInstanceAssumption DEF Boot, Free, CrossTalkInv, TypeOK, ExternalTypeOK
  <2>2. \A j \in Instance : OwnerOf(addr[j], j)'
    BY <1>3, <2>1 DEF Boot, OwnerOf, CrossTalkInv, AddressesOwned, TypeOK, ExternalTypeOK
  <2> QED BY <2>1, <2>2
<1>4. CASE Release(i)
  BY <1>2, <1>4 DEF Release, OwnerOf, CrossTalkInv, AddressesOwned, TypeOK, ExternalTypeOK
<1>5. CASE UNCHANGED <<addr, owner>>
  BY <1>2, <1>5 DEF OwnerOf, CrossTalkInv, AddressesOwned
<1>6. (\E a \in Address : Boot(i, a)) \/ Release(i) \/ UNCHANGED <<addr, owner>>
  BY <1>1 DEF CloudProgress, Console, ConsoleStep, Halt, Destroy, Forget,
     Launch, Start, Stop, Terminate, cloudVars
<1> QED
  BY <1>2, <1>3, <1>4, <1>5, <1>6

\* Steps that hand on no address and no list cannot mix servers up.
LEMMA CrossTalkFrame ==
    ASSUME CrossTalkInv, TypeOK',
           UNCHANGED <<externalVars, dnsName, images, clients, described, via, found>>
    PROVE  CrossTalkInv'
  BY DEF CrossTalkInv, AddressesOwned, ContainersAtHome, OwnerOf, externalVars, cloudVars

\* Nor can an exception, which only forgets.
LEMMA CrossTalkAbort ==
    ASSUME CrossTalkInv, TypeOK', NEW w \in Worker, Abort(w),
           UNCHANGED <<externalVars, dnsName, images, clients>>
    PROVE  CrossTalkInv'
<1>1. /\ \A v \in Worker, i \in Instance : described'[v][i] \in {Unlisted, described[v][i]}
      /\ \A v \in Worker, o \in Object : via'[v][o] \in {NoAddress, via[v][o]}
      /\ \A v \in Worker, o \in Object : found'[v][o] \in {{}, found[v][o]}
  BY DEF Abort, NoAnswer, NoClient, NothingFound, CrossTalkInv, TypeOK, AnswerTypeOK, ProbeTypeOK
<1> QED
  BY <1>1 DEF CrossTalkInv, AddressesOwned, ContainersAtHome, OwnerOf, externalVars, cloudVars

\* Nor can the end of a lambda, which merges its own list at most.
LEMMA CrossTalkEndProbe ==
    ASSUME CrossTalkInv, TypeOK', NEW w \in Worker, NEW o \in Object, EndProbe(w, o),
           UNCHANGED <<externalVars, dnsName, clients, described>>,
           images' = images \/ images' = [images EXCEPT ![o] = found[w][o]]
    PROVE  CrossTalkInv'
<1>1. /\ \A v \in Worker, p \in Object : via'[v][p] \in {NoAddress, via[v][p]}
      /\ \A v \in Worker, p \in Object : found'[v][p] \in {{}, found[v][p]}
  BY DEF EndProbe, CrossTalkInv, TypeOK, ProbeTypeOK
<1>2. \A p \in Object : \A c \in images'[p] : containers[c].home = IdOf(p)
  BY DEF CrossTalkInv, ContainersAtHome, TypeOK, RegistryTypeOK
<1> QED
  BY <1>1, <1>2 DEF CrossTalkInv, AddressesOwned, ContainersAtHome, OwnerOf, externalVars, cloudVars

\* Every step of a refresh keeps addresses and lists with their servers.
LEMMA CrossTalkStep ==
    ASSUME CrossTalkInv, TypeOK', NEW w \in Worker, RefreshStep(w)
    PROVE  CrossTalkInv'
<1>1. CASE MergeInstances(w)
  <2>1. \A o \in Object : OwnerOf(dnsName'[o], IdOf(o))
    BY <1>1, ObjectIds DEF MergeInstances, NameListed, CrossTalkInv, AddressesOwned
  <2> QED
    BY <1>1, <2>1 DEF MergeInstances, NameListed, answerVars, probeVars, CrossTalkInv, AddressesOwned,
       ContainersAtHome, OwnerOf, externalVars, cloudVars
<1>2. CASE DescribeInstanceStatus(w)
  <2>1. \A v \in Worker, i \in Instance : described'[v][i] \in {Unlisted, described[v][i]}
    BY <1>2 DEF DescribeInstanceStatus, NoAnswer, CrossTalkInv, TypeOK, AnswerTypeOK
  <2> QED
    BY <1>2, <2>1 DEF DescribeInstanceStatus, registryVars, objectVars, probeVars, CrossTalkInv,
       AddressesOwned, ContainersAtHome, OwnerOf, externalVars, cloudVars
<1>3. CASE ApplyStatus(w)
  BY <1>3, CrossTalkFrame, CrossTalkAbort DEF ApplyStatus, probeVars
<1>4. CASE ListImages(w)
  BY <1>4, CrossTalkFrame DEF ListImages, registryVars, objectVars
<1>5. CASE CollectionModified(w)
  BY <1>5, CrossTalkAbort DEF CollectionModified, registryVars, objectVars
<1>6. ASSUME NEW o \in Object, Visit(w, o)
      PROVE  CrossTalkInv'
  <2>1. via' = via \/ via' = [via EXCEPT ![w][o] = clients[IdOf(o)]]
    BY <1>6 DEF Visit
  <2>2. OwnerOf(clients[IdOf(o)], IdOf(o))
    BY ObjectIds DEF CrossTalkInv, AddressesOwned
  <2>3. \A v \in Worker, p \in Object :
            via'[v][p] = via[v][p] \/ (p = o /\ via'[v][p] = clients[IdOf(o)])
    <3>1. via \in [Worker -> [Object -> Address \cup {NoAddress}]]
      BY DEF CrossTalkInv, TypeOK, ProbeTypeOK
    <3> QED
      BY <2>1, <3>1
  <2>4. \A v \in Worker, p \in Object : OwnerOf(via'[v][p], IdOf(p))
    BY <2>2, <2>3 DEF CrossTalkInv, AddressesOwned
  <2> QED
    BY <1>6, <2>4 DEF Visit, answerVars, CrossTalkInv, AddressesOwned, ContainersAtHome, OwnerOf,
       externalVars, cloudVars
<1>7. ASSUME NEW o \in Object, AddClient(w, o)
      PROVE  CrossTalkInv'
  <2>1. CASE Abort(w) /\ UNCHANGED clients
    BY <1>7, <2>1, CrossTalkAbort DEF AddClient, objectVars
  <2>2. CASE /\ CacheClient(o)
             /\ via' = [via EXCEPT ![w][o] = dnsName[o]]
             /\ UNCHANGED <<answerVars, found>>
    <3>1. \A v \in Worker, p \in Object : OwnerOf(via'[v][p], IdOf(p))
      BY <2>2 DEF CrossTalkInv, AddressesOwned, TypeOK, ProbeTypeOK
    <3>2. \A i \in Instance : OwnerOf(clients'[i], i)
      BY <2>2 DEF CacheClient, CrossTalkInv, AddressesOwned, TypeOK, RegistryTypeOK
    <3> QED
      BY <1>7, <2>2, <3>1, <3>2 DEF AddClient, objectVars, answerVars, CrossTalkInv, AddressesOwned,
         ContainersAtHome, OwnerOf, externalVars, cloudVars
  <2> QED
    BY <1>7, <2>1, <2>2 DEF AddClient
<1>8. CASE StartProbes(w)
  <2>1. \A v \in Worker, p \in Object : via'[v][p] \in {NoAddress, via[v][p]}
    BY <1>8 DEF StartProbes, CrossTalkInv, TypeOK, ProbeTypeOK
  <2> QED
    BY <1>8, <2>1 DEF StartProbes, CrossTalkInv, AddressesOwned, ContainersAtHome, OwnerOf,
       externalVars, cloudVars
<1>9. ASSUME NEW o \in Object, PingReply(w, o)
      PROVE  CrossTalkInv'
  <2>1. CASE EndProbe(w, o)
    BY <1>9, <2>1, CrossTalkEndProbe DEF PingReply, answerVars
  <2>2. CASE UNCHANGED <<via, found>>
    BY <1>9, <2>2, CrossTalkFrame DEF PingReply, answerVars
  <2> QED BY <1>9, <2>1, <2>2 DEF PingReply
<1>13. ASSUME NEW o \in Object, AnswerPing(w, o)
       PROVE  CrossTalkInv'
  BY <1>13, CrossTalkFrame DEF AnswerPing, registryVars, objectVars, answerVars
<1>10. ASSUME NEW o \in Object, ListContainers(w, o)
       PROVE  CrossTalkInv'
  <2>1. CASE EndProbe(w, o)
    BY <1>10, <2>1, CrossTalkEndProbe DEF ListContainers, registryVars, objectVars, answerVars
  <2>2. CASE /\ Reachable(via[w][o])
             /\ found' = [found EXCEPT ![w][o] =
                    {c \in UNION {ContainersOn(i) : i \in Answering(via[w][o])} :
                        containers[c].image \in monitors[w]}]
             /\ UNCHANGED via
    <3>1. \A i \in Answering(via[w][o]) : i = IdOf(o)
      BY <2>2, ObjectIds DEF Answering, Reachable, OwnerOf, CrossTalkInv, AddressesOwned
    <3>2. \A c \in found'[w][o] : containers[c].home = IdOf(o)
      BY <2>2, <3>1 DEF ContainersOn, CrossTalkInv, TypeOK, ProbeTypeOK
    <3>3. \A v \in Worker, p \in Object : \A c \in found'[v][p] : containers[c].home = IdOf(p)
      BY <2>2, <3>2 DEF CrossTalkInv, ContainersAtHome, TypeOK, ProbeTypeOK
    <3> QED
      BY <1>10, <2>2, <3>3 DEF ListContainers, registryVars, objectVars, answerVars, CrossTalkInv,
         AddressesOwned, ContainersAtHome, OwnerOf, externalVars, cloudVars
  <2> QED BY <1>10, <2>1, <2>2 DEF ListContainers
<1>11. ASSUME NEW o \in Object, MergeImages(w, o)
       PROVE  CrossTalkInv'
  BY <1>11, CrossTalkEndProbe DEF MergeImages, Merge, answerVars
<1>12. CASE FinishRefresh(w)
  BY <1>12, CrossTalkFrame DEF FinishRefresh, registryVars, objectVars, probeVars
<1> QED
  BY <1>1, <1>2, <1>3, <1>4, <1>5, <1>6, <1>7, <1>8, <1>9, <1>10, <1>11, <1>12, <1>13 DEF RefreshStep

\* Every step does, as long as EC2 never gives a name away twice.
LEMMA CrossTalkNext == ~ReuseAddresses /\ CrossTalkInv /\ [Next]_vars => CrossTalkInv'
<1> SUFFICES ASSUME ~ReuseAddresses, CrossTalkInv, [Next]_vars PROVE CrossTalkInv'
  OBVIOUS
<1>1. TypeOK'
  BY NextType DEF CrossTalkInv
<1>2. CASE \E w \in Worker : RefreshStep(w)
  BY <1>1, <1>2, CrossTalkStep
<1>3. ASSUME NEW w \in Worker, DescribeInstances(w)
      PROVE  CrossTalkInv'
  <2>1. \A v \in Worker, i \in Instance : described'[v][i] \in {Unlisted, addr[i], described[v][i]}
    BY <1>3 DEF DescribeInstances, CrossTalkInv, TypeOK, AnswerTypeOK
  <2> QED
    BY <1>1, <1>3, <2>1 DEF DescribeInstances, registryVars, objectVars, probeVars, CrossTalkInv,
       AddressesOwned, ContainersAtHome, OwnerOf, externalVars, cloudVars
<1>4. CASE \E w \in Worker : RemoteCallFails(w)
  BY <1>1, <1>4, CrossTalkAbort DEF RemoteCallFails, registryVars, objectVars
<1>5. CASE External
  <2>1. UNCHANGED <<dnsName, images, clients, described, via, found>>
    BY <1>5 DEF External, registryVars, objectVars, workerVars, answerVars, probeVars
  <2>2. \A a \in Address \cup {NoAddress}, i \in Instance : OwnerOf(a, i) => OwnerOf(a, i)'
    BY <1>5, OwnershipIsStable DEF OwnerOf
  <2>3. \A o \in Object : OwnerOf(dnsName[o], IdOf(o))'
    BY <2>1, <2>2, ObjectIds DEF CrossTalkInv, AddressesOwned, TypeOK, RegistryTypeOK, OwnerOf
  <2>4. \A w \in Worker, i \in Instance :
            described'[w][i] # Unlisted => OwnerOf(described[w][i], i)'
    <3> SUFFICES ASSUME NEW w \in Worker, NEW i \in Instance, described[w][i] # Unlisted
                 PROVE  OwnerOf(described[w][i], i)'
      BY <2>1
    <3>1. described[w][i] \in Address \cup {NoAddress}
      BY DEF CrossTalkInv, TypeOK, AnswerTypeOK
    <3> QED
      BY <2>1, <2>2, <3>1 DEF CrossTalkInv, AddressesOwned, OwnerOf
  <2>5. \A i \in Instance : OwnerOf(clients[i], i)'
    BY <2>1, <2>2 DEF CrossTalkInv, AddressesOwned, TypeOK, RegistryTypeOK, OwnerOf
  <2>6. \A w \in Worker, o \in Object : OwnerOf(via[w][o], IdOf(o))'
    <3> SUFFICES ASSUME NEW w \in Worker, NEW o \in Object PROVE OwnerOf(via[w][o], IdOf(o))'
      OBVIOUS
    <3>1. via[w][o] \in Address \cup {NoAddress} /\ IdOf(o) \in Instance
      BY ObjectIds DEF CrossTalkInv, TypeOK, ProbeTypeOK
    <3> QED
      BY <2>1, <2>2, <3>1 DEF CrossTalkInv, AddressesOwned, OwnerOf
  <2>7. AddressesOwned'
    BY <1>5, <2>3, <2>4, <2>5, <2>6, OwnershipIsStable DEF AddressesOwned
  <2>8. \A o \in Object : \A c \in images'[o] : containers'[c].home = IdOf(o)
    BY <1>5, <2>1, ObjectIds, OwnershipIsStable
       DEF CrossTalkInv, ContainersAtHome, TypeOK, RegistryTypeOK
  <2>9. \A w \in Worker, o \in Object : \A c \in found'[w][o] : containers'[c].home = IdOf(o)
    <3> SUFFICES ASSUME NEW w \in Worker, NEW o \in Object, NEW c \in found[w][o]
                 PROVE  containers'[c].home = IdOf(o)
      BY <2>1
    <3>1. c \in Container /\ IdOf(o) \in Instance
      BY ObjectIds DEF CrossTalkInv, TypeOK, ProbeTypeOK
    <3> QED
      BY <1>5, <3>1, OwnershipIsStable DEF CrossTalkInv, ContainersAtHome
  <2> QED BY <1>1, <2>7, <2>8, <2>9 DEF CrossTalkInv, ContainersAtHome
<1>6. CASE UNCHANGED vars
  BY <1>1, <1>6, CrossTalkFrame DEF vars, registryVars, objectVars, workerVars, answerVars, probeVars
<1> QED
  BY <1>2, <1>3, <1>4, <1>5, <1>6, HostedAssumption DEF Next, HostedRefresh, RequestRefresh

\* The manager starts without answers, clients and lists.
LEMMA InitCrossTalk == Init => CrossTalkInv
<1>1. Init => AddressesOwned
  BY DEF Init, ExternalInit, RegistryInit, NoClient, NoAnswer, AddressesOwned, OwnerOf
<1>2. Init => ContainersAtHome
  BY DEF Init, RegistryInit, NothingFound, ContainersAtHome
<1> QED
  BY <1>1, <1>2, InitType DEF CrossTalkInv

\* While EC2 hands out fresh DNS names, no Docker client ever talks to another
\* server than the one it is cached for, and every container shown for a server
\* is one of its own.
THEOREM NoServerCrossTalk == Spec => []NoCrossTalk
<1>1. CrossTalkInv => NoCrossTalk
  BY DEF CrossTalkInv, AddressesOwned, ContainersAtHome, OwnerOf, NoCrossTalk
<1>2. ReuseAddresses => NoCrossTalk
  BY DEF NoCrossTalk
<1>3. CASE ~ReuseAddresses
  BY <1>1, <1>3, InitCrossTalk, CrossTalkNext, PTL DEF Spec
<1>4. CASE ReuseAddresses
  BY <1>2, <1>4, PTL
<1> QED
  BY <1>3, <1>4

-----------------------------------------------------------------------------
(* Availability is real.  The lambda of a server may ping long after its     *)
(* client was cached, and go on long after the server answered, so the       *)
(* invariant says that it still holds the cached client: the cache never     *)
(* replaces one.                                                             *)

LambdasHoldClients ==
    \A w \in Worker, o \in Object :
        /\ via[w][o] # NoAddress => via[w][o] = clients[IdOf(o)]
        /\ probe[w][o] = "pong" => via[w][o] # NoAddress

LambdaInv == TypeOK /\ LambdasHoldClients

\* At first no lambda has one.
LEMMA InitLambda == Init => LambdaInv
  BY InitType DEF Init, RegistryInit, NoClient, NoProbe, LambdaInv, LambdasHoldClients

\* A lambda that ends, or an exception, drops clients only.
LEMMA DroppedClients ==
    ASSUME LambdaInv, NEW w \in Worker, UNCHANGED clients,
           Abort(w) \/ \E o \in Object : EndProbe(w, o)
    PROVE  LambdasHoldClients'
<1>1. \A v \in Worker, p \in Object :
          \/ via'[v][p] = NoAddress /\ probe'[v][p] = "none"
          \/ via'[v][p] = via[v][p] /\ probe'[v][p] = probe[v][p]
  <2>1. CASE Abort(w)
    BY <2>1 DEF Abort, NoClient, NoProbe, LambdaInv, TypeOK, ProbeTypeOK
  <2>2. ASSUME NEW o \in Object, EndProbe(w, o)
        PROVE  \A v \in Worker, p \in Object :
                   \/ via'[v][p] = NoAddress /\ probe'[v][p] = "none"
                   \/ via'[v][p] = via[v][p] /\ probe'[v][p] = probe[v][p]
    BY <2>2 DEF EndProbe, Advance, LambdaInv, TypeOK, ProbeTypeOK
  <2> QED
    BY <2>1, <2>2
<1> QED
  BY <1>1 DEF LambdaInv, LambdasHoldClients

\* A lambda that goes on, other than by an answer, keeps its client.
LEMMA AdvancedClients ==
    ASSUME LambdaInv, NEW w \in Worker, NEW o \in Object, NEW s \in ProbeState \ {"pong"},
           Advance(w, o, s), UNCHANGED <<clients, via>>
    PROVE  LambdasHoldClients'
  BY DEF Advance, LambdaInv, LambdasHoldClients, TypeOK, ProbeTypeOK

\* Every step of a refresh leaves lambdas with the cached clients.
LEMMA LambdaStep ==
    ASSUME LambdaInv, NEW w \in Worker, RefreshStep(w)
    PROVE  LambdasHoldClients'
<1> DEFINE types == /\ probe \in [Worker -> [Object -> ProbeState]]
                    /\ via \in [Worker -> [Object -> Address \cup {NoAddress}]]
<1>t. types
  BY DEF LambdaInv, TypeOK, ProbeTypeOK
<1>0. CASE UNCHANGED <<clients, via, probe>>
  BY <1>0 DEF LambdaInv, LambdasHoldClients
<1>1. CASE MergeInstances(w) \/ DescribeInstanceStatus(w) \/ FinishRefresh(w)
  BY <1>0, <1>1 DEF MergeInstances, DescribeInstanceStatus, FinishRefresh,
     registryVars, probeVars
<1>2. CASE ApplyStatus(w) \/ CollectionModified(w)
  BY <1>0, <1>2, DroppedClients DEF ApplyStatus, CollectionModified, registryVars, probeVars
<1>3. ASSUME NEW o \in Object, Visit(w, o)
      PROVE  LambdasHoldClients'
  <2>1. CASE UNCHANGED via /\ \E s \in {"none", "adding"} : Advance(w, o, s)
    BY <1>3, <2>1, AdvancedClients DEF Visit, ProbeState
  <2>2. CASE /\ via' = [via EXCEPT ![w][o] = clients[IdOf(o)]]
             /\ Advance(w, o, "ready")
    <3>1. \A v \in Worker, p \in Object :
              /\ via'[v][p] = via[v][p] \/ (p = o /\ via'[v][p] = clients[IdOf(o)])
              /\ probe'[v][p] = "ready" \/ (via'[v][p] = via[v][p] /\ probe'[v][p] = probe[v][p])
      BY <1>t, <2>2 DEF Advance
    <3> QED
      BY <1>3, <3>1 DEF Visit, LambdaInv, LambdasHoldClients
  <2> QED
    BY <1>3, <2>1, <2>2 DEF Visit
<1>4. ASSUME NEW o \in Object, AddClient(w, o)
      PROVE  LambdasHoldClients'
  <2>1. CASE Abort(w) /\ UNCHANGED clients
    BY <2>1, DroppedClients
  <2>2. CASE /\ clients[IdOf(o)] = NoAddress
             /\ CacheClient(o)
             /\ via' = [via EXCEPT ![w][o] = dnsName[o]]
             /\ Advance(w, o, "ready")
    <3>1. \A i \in Instance : clients'[i] = IF i = IdOf(o) THEN dnsName[o] ELSE clients[i]
      BY <2>2, ObjectIds DEF CacheClient, LambdaInv, TypeOK, RegistryTypeOK
    <3>2. \A v \in Worker, p \in Object :
              /\ via'[v][p] = IF v = w /\ p = o THEN dnsName[o] ELSE via[v][p]
              /\ probe'[v][p] = IF v = w /\ p = o THEN "ready" ELSE probe[v][p]
      BY <1>t, <2>2 DEF Advance
    <3> QED
      BY <2>2, <3>1, <3>2, ObjectIds DEF LambdaInv, LambdasHoldClients
  <2> QED
    BY <1>4, <2>1, <2>2 DEF AddClient
<1>5. CASE StartProbes(w) \/ ListImages(w)
  <2>1. \A v \in Worker, p \in Object :
            \/ via'[v][p] = via[v][p] /\ probe'[v][p] = probe[v][p]
            \/ via'[v][p] \in {NoAddress, via[v][p]} /\ probe'[v][p] # "pong"
    BY <1>5, <1>t DEF StartProbes, ListImages
  <2> QED
    BY <1>5, <2>1 DEF StartProbes, ListImages, registryVars, LambdaInv, LambdasHoldClients
<1>6. ASSUME NEW o \in Object, PingReply(w, o) \/ ListContainers(w, o) \/ MergeImages(w, o)
      PROVE  LambdasHoldClients'
  <2>1. CASE EndProbe(w, o)
    BY <1>6, <2>1, DroppedClients DEF PingReply, ListContainers, MergeImages, registryVars
  <2>2. CASE UNCHANGED via /\ \E s \in {"containers", "answer"} : Advance(w, o, s)
    BY <1>6, <2>2, AdvancedClients DEF PingReply, ListContainers, MergeImages, registryVars, ProbeState
  <2> QED
    BY <1>6, <2>1, <2>2 DEF PingReply, ListContainers, MergeImages
<1>7. ASSUME NEW o \in Object, AnswerPing(w, o)
      PROVE  LambdasHoldClients'
  <2>1. UNCHANGED <<clients, via>>
    BY <1>7 DEF AnswerPing, registryVars
  <2>2. CASE Advance(w, o, "silence")
    BY <2>1, <2>2, AdvancedClients DEF ProbeState
  <2>3. CASE Reachable(via[w][o]) /\ Advance(w, o, "pong")
    BY <1>t, <2>1, <2>3 DEF Reachable, Advance, LambdaInv, LambdasHoldClients
  <2> QED
    BY <1>7, <2>2, <2>3 DEF AnswerPing
<1> QED
  BY <1>1, <1>2, <1>3, <1>4, <1>5, <1>6, <1>7 DEF RefreshStep

\* No other step touches a lambda or the cache.
LEMMA LambdaNext == LambdaInv /\ [Next]_vars => LambdaInv'
<1> SUFFICES ASSUME LambdaInv, [Next]_vars PROVE LambdaInv'
  OBVIOUS
<1>1. TypeOK'
  BY NextType DEF LambdaInv
<1>2. CASE \E w \in Worker : RefreshStep(w)
  BY <1>1, <1>2, LambdaStep DEF LambdaInv
<1>3. CASE \E w \in Worker : RemoteCallFails(w)
  BY <1>1, <1>3, DroppedClients DEF RemoteCallFails, registryVars, LambdaInv
<1>4. CASE UNCHANGED <<clients, via, probe>>
  BY <1>1, <1>4 DEF LambdaInv, LambdasHoldClients
<1>5. \/ External \/ UNCHANGED vars
      \/ \E w \in Worker : DescribeInstances(w)
      => UNCHANGED <<clients, via, probe>>
  BY DEF External, vars, DescribeInstances, registryVars, workerVars, probeVars
<1> QED
  BY <1>2, <1>3, <1>4, <1>5, HostedAssumption DEF Next, HostedRefresh, RequestRefresh

\* A step that answers no ping and makes nothing available is fine.
LEMMA NothingAnswered ==
    ASSUME \A o \in Object : isAvailable'[o] => isAvailable[o],
           \A w \in Worker, o \in Object : probe'[w][o] = "pong" => probe[w][o] = "pong"
    PROVE  RealAvailability
  BY DEF RealAvailability, BecomesAvailable, ServerAnswers

\* The lambda that got the answer is the only one that switches its server on,
\* and what answered at the client's address is the owner of that name.
LEMMA AvailabilityStep ==
    ASSUME LambdaInv, CrossTalkInv, NEW w \in Worker, RefreshStep(w)
    PROVE  RealAvailability
<1>0. /\ isAvailable \in [Object -> BOOLEAN]
      /\ probe \in [Worker -> [Object -> ProbeState]]
  BY DEF LambdaInv, TypeOK, RegistryTypeOK, ProbeTypeOK
<1>1. ASSUME NEW o \in Object, AnswerPing(w, o)
      PROVE  RealAvailability
  <2>1. UNCHANGED isAvailable
    BY <1>1 DEF AnswerPing, registryVars, objectVars
  <2>2. CASE Advance(w, o, "silence")
    <3>1. \A v \in Worker, p \in Object : probe'[v][p] = "pong" => probe[v][p] = "pong"
      BY <1>0, <2>2 DEF Advance
    <3> QED
      BY <2>1, <3>1, NothingAnswered
  <2>3. CASE Reachable(via[w][o]) /\ Advance(w, o, "pong")
    <3>1. PICK i \in Instance : cloud[i] = "running" /\ addr[i] = via[w][o]
      BY <2>3 DEF Reachable, Answering
    <3>2. i = owner[via[w][o]] /\ owner[via[w][o]] = IdOf(o)
      BY <2>3, <3>1 DEF Reachable, CrossTalkInv, AddressesOwned, OwnerOf
    <3>3. \A v \in Worker, p \in Object :
              probe[v][p] = "ping" /\ probe'[v][p] = "pong" => v = w /\ p = o
      BY <1>0, <2>3 DEF Advance
    <3> QED
      BY <2>1, <3>1, <3>2, <3>3 DEF RealAvailability, BecomesAvailable, ServerAnswers
  <2> QED
    BY <1>1, <2>2, <2>3 DEF AnswerPing
<1>2. ASSUME NEW o \in Object, PingReply(w, o)
      PROVE  RealAvailability
  <2>1. \A v \in Worker, p \in Object : probe'[v][p] = "pong" => probe[v][p] = "pong"
    BY <1>0, <1>2 DEF PingReply, EndProbe, Advance
  <2>2. CASE Checked(o, FALSE)
    BY <1>0, <2>1, <2>2, NothingAnswered DEF Checked
  <2>3. CASE probe[w][o] = "pong" /\ Checked(o, TRUE)
    <3>1. via[w][o] # NoAddress /\ via[w][o] = clients[IdOf(o)]
      BY <2>3 DEF LambdaInv, LambdasHoldClients
    <3>2. owner[via[w][o]] = IdOf(o)
      BY <3>1 DEF CrossTalkInv, AddressesOwned, OwnerOf
    <3>3. \A p \in Object : p # o => isAvailable'[p] = isAvailable[p]
      BY <1>0, <2>3 DEF Checked
    <3>4. \A p \in Object : BecomesAvailable(p)
      BY <2>3, <3>1, <3>2, <3>3 DEF BecomesAvailable
    <3> QED
      BY <2>1, <3>4 DEF RealAvailability, ServerAnswers
  <2> QED
    BY <1>2, <2>2, <2>3 DEF PingReply
<1>3. ASSUME NEW o \in Object, Visit(w, o)
      PROVE  RealAvailability
  <2>0. \E s \in {"none", "ready", "adding"} : Advance(w, o, s)
    BY <1>3 DEF Visit
  <2>1. \A v \in Worker, p \in Object : probe'[v][p] = "pong" => probe[v][p] = "pong"
    BY <1>0, <2>0 DEF Advance
  <2> QED
    BY <1>0, <1>3, <2>1, NothingAnswered DEF Visit, Checked
<1>4. CASE StartProbes(w)
  <2>1. \A v \in Worker, p \in Object : probe'[v][p] = "pong" => probe[v][p] = "pong"
    BY <1>0, <1>4 DEF StartProbes
  <2> QED
    BY <1>0, <1>4, <2>1, NothingAnswered DEF StartProbes
<1>5. ASSUME UNCHANGED isAvailable,
             \A v \in Worker, p \in Object : probe'[v][p] = "pong" => probe[v][p] = "pong"
      PROVE  RealAvailability
  BY <1>5, NothingAnswered
<1>6. CASE MergeInstances(w) \/ DescribeInstanceStatus(w) \/ FinishRefresh(w)
  BY <1>5, <1>6 DEF MergeInstances, DescribeInstanceStatus, FinishRefresh, registryVars, objectVars,
     probeVars
<1>7. CASE ApplyStatus(w) \/ CollectionModified(w) \/ ListImages(w)
  <2>1. \A v \in Worker, p \in Object : probe'[v][p] = "pong" => probe[v][p] = "pong"
    BY <1>0, <1>7 DEF ApplyStatus, CollectionModified, ListImages, Abort, NoProbe, probeVars
  <2> QED
    BY <1>5, <1>7, <2>1 DEF ApplyStatus, CollectionModified, ListImages, registryVars, objectVars
<1>8. ASSUME NEW o \in Object, AddClient(w, o) \/ ListContainers(w, o) \/ MergeImages(w, o)
      PROVE  RealAvailability
  <2>1. \A v \in Worker, p \in Object : probe'[v][p] = "pong" => probe[v][p] = "pong"
    BY <1>0, <1>8 DEF AddClient, ListContainers, MergeImages, EndProbe, Advance, Abort, NoProbe
  <2> QED
    BY <1>5, <1>8, <2>1 DEF AddClient, ListContainers, MergeImages, registryVars, objectVars
<1> QED
  BY <1>1, <1>2, <1>3, <1>4, <1>6, <1>7, <1>8 DEF RefreshStep

\* An exception outside the pipeline's own steps answers nothing either.
LEMMA AbortAnswersNothing ==
    ASSUME TypeOK, NEW w \in Worker, Abort(w), UNCHANGED isAvailable
    PROVE  RealAvailability
<1>1. \A v \in Worker, o \in Object : probe'[v][o] = "pong" => probe[v][o] = "pong"
  BY DEF Abort, NoProbe, TypeOK, ProbeTypeOK
<1> QED
  BY <1>1, NothingAnswered

\* While EC2 hands out fresh DNS names, a server begins to be shown as available
\* only because that very server answered, running, at the cached address,
\* however late the ping, however stale the status, and whatever became of it
\* between its answer and the flag.
THEOREM AvailableServersAreReal == Spec => AvailabilityIsReal
<1>1. CASE ReuseAddresses
  <2>1. [][Next]_vars => AvailabilityIsReal
    <3>1. [Next]_vars => [~ReuseAddresses => RealAvailability]_vars
      BY <1>1
    <3> QED
      BY <3>1, PTL DEF AvailabilityIsReal
  <2> QED
    BY <2>1, PTL DEF Spec
<1>2. CASE ~ReuseAddresses
  <2>1. Init => LambdaInv /\ CrossTalkInv
    BY InitLambda, InitCrossTalk
  <2>2. LambdaInv /\ CrossTalkInv /\ [Next]_vars => LambdaInv' /\ CrossTalkInv'
    BY <1>2, LambdaNext, CrossTalkNext
  <2>3. LambdaInv /\ CrossTalkInv /\ [Next]_vars => [~ReuseAddresses => RealAvailability]_vars
    <3> SUFFICES ASSUME LambdaInv, CrossTalkInv, Next PROVE RealAvailability
      OBVIOUS
    <3>1. CASE \E w \in Worker : RefreshStep(w)
      BY <3>1, AvailabilityStep
    <3>2. CASE UNCHANGED <<isAvailable, probe>>
      BY <3>2, NothingAnswered
    <3>3. CASE \E w \in Worker : RemoteCallFails(w)
      BY <3>3, AbortAnswersNothing DEF RemoteCallFails, registryVars, objectVars, LambdaInv
    <3> QED
      BY <3>1, <3>2, <3>3, HostedAssumption DEF Next, External, HostedRefresh, RequestRefresh,
         DescribeInstances, registryVars, objectVars, workerVars, probeVars
  <2> QED
    BY <2>1, <2>2, <2>3, PTL DEF Spec, AvailabilityIsReal
<1> QED
  BY <1>1, <1>2
=============================================================================

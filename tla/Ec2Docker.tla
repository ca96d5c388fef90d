------------------------------ MODULE Ec2Docker ------------------------------
(***************************************************************************)
(* What the manager talks to, as the code under src/ uses it: the EC2      *)
(* account (which instances exist, in which state, under which public DNS  *)
(* name) and the Docker daemon of every instance (which containers it      *)
(* holds).  Everything here happens outside the repository; the manager's  *)
(* modules EXTEND this one and read or change it through remote calls.     *)
(***************************************************************************)
EXTENDS Naturals, FiniteSets

CONSTANTS
    Instance,        \* EC2 instance ids
    Foreign,         \* the instances whose KeyName is not the configured one
    Address,         \* public DNS names
    NoAddress,       \* an empty DNS name, a null DockerRemoteApiUrl
    NoInstance,      \* no instance
    Container,       \* Docker container ids
    Image,           \* Docker image ids
    ReuseAddresses,  \* may EC2 give a released DNS name to another instance?
    InitialStates,   \* the states servers may be in when the manager starts
    ConsoleOps,      \* what the account's owner does behind the manager's back
    MaxConsoleOps    \* bound: how many such operations a behaviour holds

ASSUME ForeignAssumption == Foreign \subseteq Instance
ASSUME NoAddressAssumption == NoAddress \notin Address
ASSUME NoInstanceAssumption == NoInstance \notin Instance
ASSUME InitialAssumption ==
    InitialStates \subseteq {"unlaunched", "pending", "running", "stopped"}
ASSUME ReuseAssumption == ReuseAddresses \in BOOLEAN
ASSUME ConsoleAssumption == MaxConsoleOps \in Nat

VARIABLES
    cloud,       \* the state of every instance
    addr,        \* the public DNS name of every instance
    owner,       \* the instance every DNS name was last given to
    containers,  \* where every container lives, from which image, in which state
    consoleOps   \* how many console operations happened so far

cloudVars == <<cloud, addr, owner>>
externalVars == <<cloudVars, containers, consoleOps>>

\* The states of EC2: "unlaunched" and "gone" instances are not listed.
CloudState == {"unlaunched", "pending", "running", "stopping", "stopped",
               "shutting-down", "terminated", "gone"}

ContainerState == {"absent", "created", "running", "exited"}

ContainerRecord == [home : Instance \cup {NoInstance}, image : Image,
                    state : ContainerState]

ExternalTypeOK ==
    /\ cloud \in [Instance -> CloudState]
    /\ addr \in [Instance -> Address \cup {NoAddress}]
    /\ owner \in [Address -> Instance \cup {NoInstance}]
    /\ containers \in [Container -> ContainerRecord]
    /\ consoleOps \in Nat

Listed == {i \in Instance : cloud[i] \notin {"unlaunched", "gone"}}

\* The daemon that answers at an address: that of the instance running there.
Answering(a) == {i \in Instance : cloud[i] = "running" /\ addr[i] = a}
Reachable(a) == a # NoAddress /\ Answering(a) # {}

\* GET /containers/json?all=1 of an instance's daemon
ContainersOn(i) ==
    {c \in Container : containers[c].home = i /\ containers[c].state # "absent"}

Free(a) == IF ReuseAddresses THEN \A i \in Instance : addr[i] # a
                             ELSE owner[a] = NoInstance

-----------------------------------------------------------------------------
(* The life cycle of an instance *)

Move(i, from, to) == /\ cloud[i] \in from
                     /\ cloud' = [cloud EXCEPT ![i] = to]

\* RunInstances, StartInstances, StopInstances, TerminateInstances
Launch(i) == Move(i, {"unlaunched"}, "pending") /\ UNCHANGED <<addr, owner>>
Start(i) == Move(i, {"stopped"}, "pending") /\ UNCHANGED <<addr, owner>>
Stop(i) == Move(i, {"running"}, "stopping") /\ UNCHANGED <<addr, owner>>
Terminate(i) == /\ Move(i, {"pending", "running", "stopping", "stopped"}, "shutting-down")
                /\ UNCHANGED <<addr, owner>>

\* What the calls do to an instance that is there already, or on its way.  Of
\* RunInstances the manager gets an instance with its own key.
RunInstances == \E i \in Instance \ Foreign : Launch(i)
StartInstances(i) == Start(i) \/ (cloud[i] \in {"pending", "running"} /\ UNCHANGED cloudVars)
StopInstances(i) == Stop(i) \/ (cloud[i] \in {"stopping", "stopped"} /\ UNCHANGED cloudVars)
TerminateInstances(i) ==
    Terminate(i) \/ (cloud[i] \in {"shutting-down", "terminated"} /\ UNCHANGED cloudVars)

Boot(i, a) ==
    /\ Move(i, {"pending"}, "running")
    /\ Free(a)
    /\ addr' = [addr EXCEPT ![i] = a]
    /\ owner' = [owner EXCEPT ![a] = i]

Release(i) == addr' = [addr EXCEPT ![i] = NoAddress] /\ UNCHANGED owner

Halt(i) == Move(i, {"stopping"}, "stopped") /\ Release(i)
Destroy(i) == Move(i, {"shutting-down"}, "terminated") /\ Release(i)
Forget(i) == Move(i, {"terminated"}, "gone") /\ UNCHANGED <<addr, owner>>

CloudProgress(i) ==
    /\ \/ \E a \in Address : Boot(i, a)
       \/ Halt(i)
       \/ Destroy(i)
       \/ Forget(i)
    /\ UNCHANGED <<containers, consoleOps>>

-----------------------------------------------------------------------------
(* Containers: what a daemon does when it is told to *)

Create(c, i, m) ==
    /\ containers[c].state = "absent"
    /\ containers[c].home = NoInstance
    /\ containers' = [containers EXCEPT ![c] = [home |-> i, image |-> m, state |-> "created"]]

Run(c) == containers' = [containers EXCEPT ![c].state = "running"]
Exit(c) == containers' = [containers EXCEPT ![c].state = "exited"]
Remove(c) == containers' = [containers EXCEPT ![c].state = "absent"]

-----------------------------------------------------------------------------
(* The owner of the account uses the AWS console or a shell of the server. *)

ConsoleStep(i) ==
    \/ "launch" \in ConsoleOps /\ Launch(i) /\ UNCHANGED containers
    \/ "start" \in ConsoleOps /\ Start(i) /\ UNCHANGED containers
    \/ "stop" \in ConsoleOps /\ Stop(i) /\ UNCHANGED containers
    \/ "terminate" \in ConsoleOps /\ Terminate(i) /\ UNCHANGED containers
    \/ /\ "create" \in ConsoleOps /\ cloud[i] = "running" /\ UNCHANGED cloudVars
       /\ \E c \in Container, m \in Image : Create(c, i, m)
    \/ /\ "remove" \in ConsoleOps /\ cloud[i] = "running" /\ UNCHANGED cloudVars
       /\ \E c \in ContainersOn(i) : Remove(c)

Console(i) ==
    /\ consoleOps < MaxConsoleOps
    /\ consoleOps' = consoleOps + 1
    /\ ConsoleStep(i)

\* A container id that Docker has yet to give away
NoContainer == [home |-> NoInstance, image |-> CHOOSE m \in Image : TRUE, state |-> "absent"]

\* The manager starts next to servers and containers that are there already.
ExternalInit ==
    /\ cloud \in [Instance -> InitialStates]
    /\ addr \in [Instance -> Address \cup {NoAddress}]
    /\ \A i \in Instance : addr[i] # NoAddress <=> cloud[i] = "running"
    /\ \A i, j \in Instance : addr[i] = addr[j] /\ i # j => addr[i] = NoAddress
    /\ owner \in [Address -> Instance \cup {NoInstance}]
    /\ \A a \in Address, i \in Instance : owner[a] = i <=> addr[i] = a
    /\ containers \in [Container -> ContainerRecord]
    /\ \A c \in Container :
          \/ containers[c] = NoContainer
          \/ /\ containers[c].state = "running"
             /\ containers[c].home # NoInstance
             /\ cloud[containers[c].home] = "running"
    /\ consoleOps = 0
=============================================================================

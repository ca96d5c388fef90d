---------------------------- MODULE ManagedAccount ----------------------------
(***************************************************************************)
(* What the manager promises to the owner of the account and to the users  *)
(* of its API.  A request does to servers and containers only what it asks *)
(* for: a spawn makes one container and starts that one, a request to      *)
(* start, stop or terminate a server makes one call of EC2, for its        *)
(* server, and touches no container after it; other servers, their         *)
(* containers and the servers with another key are left alone.  notFound   *)
(* means that nothing was done, badRequest that no row was changed, ok     *)
(* that no step that can refuse was refused: a container that could not be *)
(* stopped or removed is passed over.  Registry, refreshes, Docker         *)
(* clients, lists of containers and the service's loop are not visible     *)
(* here.                                                                   *)
(***************************************************************************)
EXTENDS Ec2Docker

CONSTANTS
    Caller,        \* users of the API, who make one request at a time
    All, NoImage,  \* no container, and no image, is named
    Commands       \* the requests that users send

VARIABLES
    job,        \* what every caller asks for, how far it is, the last answer
    imageInfos  \* the rows of the image table

accountVars == <<externalVars, job, imageInfos>>

NoCommand == [handler |-> "none", image |-> NoImage, server |-> NoInstance, only |-> All]

\* A request is new, open, has made its container, or is over but for its answer.
Job(k, stage, made, answer) ==
    [command |-> k, stage |-> stage, made |-> made, answer |-> answer]

Init ==
    /\ ExternalInit
    /\ imageInfos \in SUBSET Image
    /\ job = [w \in Caller |-> Job(NoCommand, "none", All, "none")]

At(w, s) == job[w].stage = s
Command(w) == job[w].command
Asks(w, handlers) == Command(w).handler \in handlers

Becomes(w, stage) == job' = [job EXCEPT ![w].stage = stage]
Holds(w, stage, c) == job' = [job EXCEPT ![w].stage = stage, ![w].made = c]
Answers(w, a) == job' = [job EXCEPT ![w] = Job(NoCommand, "none", All, a)]

-----------------------------------------------------------------------------
(* What a request is for *)

\* The servers it is for.  When EC2 gives the DNS name of one server to
\* another, a request may end up there.
IsForServer(k, i) ==
    \/ ReuseAddresses
    \/ /\ i \notin Foreign
       /\ \/ k.server = i
          \/ k.handler = "spawn" /\ k.server = NoInstance
          \/ k.handler = "removeImage"

\* The containers it is for, wherever they run
IsForContainer(k, c) ==
    /\ k.handler \in {"shutdown", "removeImage"} => containers[c].image = k.image
    /\ k.handler = "shutdown" => k.only \in {All, c}

-----------------------------------------------------------------------------
(* What becomes of a request.  Where something is done, the caller may still *)
(* be told of an error, because the answer to the manager was lost.          *)

Receive(w) ==
    /\ \E k \in Commands :
          IF k.handler \in {"spawn", "shutdown", "removeImage"} /\ k.image \notin imageInfos
            THEN Answers(w, "notFound")
            ELSE job' = [job EXCEPT ![w] = Job(k, "new", All, "none")]
    /\ UNCHANGED <<externalVars, imageInfos>>

\* Its servers are looked up, or there are none; an image is pulled.
Begin(w) ==
    /\ \/ Becomes(w, IF Asks(w, {"createImage"}) THEN "over" ELSE "open")
       \/ Answers(w, "notFound")
       \/ Answers(w, "badRequest")
    /\ UNCHANGED <<externalVars, imageInfos>>

Spawn(w) ==
    /\ Asks(w, {"spawn"})
    /\ \E c \in Container, i \in Instance :
          /\ IsForServer(Command(w), i) /\ cloud[i] = "running"
          /\ Create(c, i, Command(w).image)
          /\ Holds(w, "made", c) \/ Answers(w, "error")
    /\ UNCHANGED <<cloudVars, consoleOps, imageInfos>>

StartMade(w) ==
    LET c == job[w].made IN
    /\ containers[c].state \in {"created", "exited"} /\ cloud[containers[c].home] = "running"
    /\ Run(c)
    /\ Holds(w, "over", All) \/ Answers(w, "error")
    /\ UNCHANGED <<cloudVars, consoleOps, imageInfos>>

StopOrRemove(w) ==
    /\ Asks(w, {"shutdown", "removeImage", "stop", "terminate"})
    /\ \E i \in Instance : \E c \in ContainersOn(i) :
          /\ IsForServer(Command(w), i) /\ cloud[i] = "running"
          /\ IsForContainer(Command(w), c)
          /\ \/ containers[c].state = "running" /\ Exit(c)
             \/ Remove(c)
    /\ UNCHANGED job \/ Answers(w, "error")
    /\ UNCHANGED <<cloudVars, consoleOps, imageInfos>>

CallEc2(w) ==
    LET i == Command(w).server IN
    /\ \/ Asks(w, {"startOrRun"}) /\ i = NoInstance /\ RunInstances
       \/ /\ i \in Instance \ Foreign
          /\ \/ Asks(w, {"startOrRun"}) /\ StartInstances(i)
             \/ Asks(w, {"stop"}) /\ StopInstances(i)
             \/ Asks(w, {"terminate"}) /\ TerminateInstances(i)
    /\ Becomes(w, "over") \/ Answers(w, "error")
    /\ UNCHANGED <<containers, consoleOps, imageInfos>>

\* A removal of containers is over whatever was removed.
Settle(w) ==
    /\ Asks(w, {"shutdown", "removeImage"})
    /\ Becomes(w, "over")
    /\ UNCHANGED <<externalVars, imageInfos>>

Fail(w) == Answers(w, "error") /\ UNCHANGED <<externalVars, imageInfos>>

Finish(w) ==
    LET m == Command(w).image IN
    /\ \/ /\ Answers(w, "ok")
          /\ \/ Asks(w, {"createImage"}) /\ m \notin imageInfos /\ imageInfos' = imageInfos \cup {m}
             \/ Asks(w, {"removeImage"}) /\ m \in imageInfos /\ imageInfos' = imageInfos \ {m}
             \/ ~Asks(w, {"createImage", "removeImage"}) /\ UNCHANGED imageInfos
       \/ Answers(w, "badRequest") /\ UNCHANGED imageInfos
    /\ UNCHANGED externalVars

Serve(w) ==
    \/ At(w, "none") /\ Receive(w)
    \/ At(w, "new") /\ Begin(w)
    \/ At(w, "open") /\ (Spawn(w) \/ StopOrRemove(w) \/ CallEc2(w) \/ Settle(w))
    \/ At(w, "made") /\ StartMade(w)
    \/ At(w, "over") /\ Finish(w)
    \/ ~At(w, "none") /\ Fail(w)

\* EC2 goes on with what it began, and the account's owner does as he likes.
Elsewhere ==
    /\ \E i \in Instance : CloudProgress(i) \/ Console(i)
    /\ UNCHANGED <<job, imageInfos>>

Next == Elsewhere \/ \E w \in Caller : Serve(w)

Spec == Init /\ [][Next]_accountVars
=============================================================================

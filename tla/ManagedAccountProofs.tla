------------------------- MODULE ManagedAccountProofs -------------------------
(***************************************************************************)
(* ManagerApi implements ManagedAccount, for any servers, containers,      *)
(* images, workers and requests: every step of a handler, a refresh or the *)
(* account's owner is a step that ManagedAccount allows, or is not seen    *)
(* there.                                                                  *)
(***************************************************************************)
EXTENDS ManagerApiProofs

\* Everybody but the service
User == Worker \ {Hosted}

-----------------------------------------------------------------------------
(* Requests as ManagedAccount sees them *)

\* What ManagedAccount asks of a request, in the terms of ManagerApi.
LEMMA JobFacts ==
    ASSUME NEW w \in User
    PROVE  /\ \A s : Account!At(w, s) <=> Stage(w) = s
           /\ Account!Command(w) = request[w].command
           /\ \A H : Account!Asks(w, H) <=> request[w].command.handler \in H
  BY DEF User, Account!At, Account!Command, Account!Asks, JobOf

\* A step of one worker changes one job.
LEMMA OneJob ==
    ASSUME NEW w \in User, \A v \in User \ {w} : SameRequest(v)
    PROVE  [v \in User |-> JobOf(v)]' = [[v \in User |-> JobOf(v)] EXCEPT ![w] = JobOf(w)']
<1>1. ASSUME NEW v \in User \ {w} PROVE JobOf(v)' = JobOf(v)
  <2>1. SameRequest(v)
    OBVIOUS
  <2>2. Stage(v)' = Stage(v)
    BY <2>1 DEF SameRequest, Stage
  <2> QED
    BY <2>1, <2>2 DEF SameRequest, JobOf, At
<1> QED
  BY <1>1

\* Requests that are left alone leave the jobs alone.
LEMMA JobsStay ==
    ASSUME \A v \in User : SameRequest(v)
    PROVE  UNCHANGED [v \in User |-> JobOf(v)]
<1>1. ASSUME NEW v \in User PROVE JobOf(v)' = JobOf(v)
  <2>1. SameRequest(v)
    OBVIOUS
  <2>2. Stage(v)' = Stage(v)
    BY <2>1 DEF SameRequest, Stage
  <2> QED
    BY <2>1, <2>2 DEF SameRequest, JobOf, At
<1> QED
  BY <1>1

\* An answer is an answer.
LEMMA AnswersJob ==
    ASSUME RequestTypeOK, NEW w \in User, NEW a, Answers(w, a)
    PROVE  Account!Answers(w, a)
<1>1. request'[w] = [Idle EXCEPT !.answer = a] /\ \A v \in User \ {w} : SameRequest(v)
  BY DEF Answers, RequestTypeOK, SameRequest, User
<1>2. /\ request'[w].step = "none" /\ request'[w].command = NoCommand /\ request'[w].answer = a
  BY <1>1 DEF Idle
<1>3. JobOf(w)' = Account!Job(Account!NoCommand, "none", All, a)
  BY <1>2 DEF JobOf, Stage, At, Account!Job, Account!NoCommand, NoCommand
<1> QED
  BY <1>1, <1>3, OneJob DEF Account!Answers, User

\* A request goes on to another stage, while no container is made.
LEMMA MovesJob ==
    ASSUME NEW w \in User, \A v \in User \ {w} : SameRequest(v),
           request'[w].command = request[w].command, request'[w].answer = request[w].answer,
           request[w].step # "run", request'[w].step # "run", NEW s, Stage(w)' = s
    PROVE  Account!Becomes(w, s)
<1> DEFINE job == [v \in User |-> JobOf(v)]
<1>1. JobOf(w)' = [JobOf(w) EXCEPT !.stage = s]
  BY DEF JobOf, At
<1>2. [job EXCEPT ![w] = JobOf(w)'] = [job EXCEPT ![w].stage = s]
  BY <1>1
<1> QED
  BY <1>2, OneJob DEF Account!Becomes, User

-----------------------------------------------------------------------------
(* Servers and containers, in both modules *)

\* Both modules mean the same by what a daemon does,
LEMMA SameExternal ==
    /\ Account!externalVars = externalVars /\ Account!cloudVars = cloudVars
    /\ \A c, i, m : Account!Create(c, i, m) <=> Create(c, i, m)
    /\ \A c : /\ Account!Run(c) <=> Run(c)
              /\ Account!Exit(c) <=> Exit(c)
              /\ Account!Remove(c) <=> Remove(c)
    /\ \A i : Account!ContainersOn(i) = ContainersOn(i)
<1>1. Account!externalVars = externalVars /\ Account!cloudVars = cloudVars
  BY DEF Account!externalVars, externalVars, Account!cloudVars, cloudVars
<1>2. \A c, i, m : Account!Create(c, i, m) <=> Create(c, i, m)
  BY DEF Account!Create, Create
<1>3. ASSUME NEW c
      PROVE  /\ Account!Run(c) <=> Run(c)
             /\ Account!Exit(c) <=> Exit(c)
             /\ Account!Remove(c) <=> Remove(c)
  <2>1. Account!Run(c) <=> Run(c)
    BY DEF Account!Run, Run
  <2>2. Account!Exit(c) <=> Exit(c)
    BY DEF Account!Exit, Exit
  <2>3. Account!Remove(c) <=> Remove(c)
    BY DEF Account!Remove, Remove
  <2> QED
    BY <2>1, <2>2, <2>3
<1>4. \A i : Account!ContainersOn(i) = ContainersOn(i)
  BY DEF Account!ContainersOn, ContainersOn
<1> QED
  BY <1>1, <1>2, <1>3, <1>4

\* ... and by what EC2 does.
LEMMA SameCalls ==
    /\ Account!RunInstances <=> RunInstances
    /\ \A i : /\ Account!StartInstances(i) <=> StartInstances(i)
              /\ Account!StopInstances(i) <=> StopInstances(i)
              /\ Account!TerminateInstances(i) <=> TerminateInstances(i)
<1>1. Account!RunInstances <=> RunInstances
  BY DEF Account!RunInstances, Account!Launch, Account!Move, RunInstances, Launch, Move
<1>2. \A i : Account!StartInstances(i) <=> StartInstances(i)
  BY DEF Account!StartInstances, Account!Start, Account!Move, Account!cloudVars,
     StartInstances, Start, Move, cloudVars
<1>3. \A i : Account!StopInstances(i) <=> StopInstances(i)
  BY DEF Account!StopInstances, Account!Stop, Account!Move, Account!cloudVars,
     StopInstances, Stop, Move, cloudVars
<1>4. \A i : Account!TerminateInstances(i) <=> TerminateInstances(i)
  BY DEF Account!TerminateInstances, Account!Terminate, Account!Move, Account!cloudVars,
     TerminateInstances, Terminate, Move, cloudVars
<1> QED
  BY <1>1, <1>2, <1>3, <1>4

-----------------------------------------------------------------------------
(* Shapes of steps *)

\* A step of a handler that users and owner do not see.
LEMMA Silent ==
    ASSUME NEW w \in User, \A v \in User \ {w} : SameRequest(v),
            UNCHANGED <<externalVars, imageInfos>>,
           request'[w].command = request[w].command, request'[w].answer = request[w].answer,
           request[w].step # "run", request'[w].step # "run", Stage(w)' = Stage(w)
    PROVE  UNCHANGED Account!accountVars
<1> DEFINE job == [v \in User |-> JobOf(v)]
<1>1. JobOf(w)' = JobOf(w)
  BY DEF JobOf, At
<1>2. job' = [job EXCEPT ![w] = JobOf(w)]
  BY <1>1, OneJob
<1>3. UNCHANGED job
  BY <1>2
<1> QED
  BY <1>3, SameExternal
     DEF User, Account!accountVars, externalVars, cloudVars, Account!externalVars, Account!cloudVars

\* An exception is an error for the user, who sees no change with it.
LEMMA Failing ==
    ASSUME RequestTypeOK, NEW w \in User, request[w].step # "none", Throws(w),
           UNCHANGED <<externalVars, imageInfos>>
    PROVE  Account!Serve(w)
<1>1. Account!Answers(w, "error") /\ Stage(w) # "none"
  BY AnswersJob DEF Throws, Stage
<1>2. UNCHANGED Account!externalVars
  BY SameExternal DEF externalVars, cloudVars, Account!externalVars, Account!cloudVars
<1> QED
  BY <1>1, <1>2, JobFacts DEF Account!Serve, Account!Fail

\* A handler that looked its server up has an open request, or refuses it.
LEMMA Beginning ==
    ASSUME RequestTypeOK, NEW w \in User, At(w, "begin"), UNCHANGED <<externalVars, imageInfos>>,
           \/ Answers(w, "notFound")
           \/ Answers(w, "badRequest")
           \/ /\ \A v \in User \ {w} : SameRequest(v)
              /\ request'[w].command = request[w].command /\ request'[w].answer = request[w].answer
              /\ request'[w].step \in IF Handles(w, "createImage") THEN {"commit"}
                                      ELSE {"next", "create", "remote"}
    PROVE  Account!Serve(w)
<1>1. UNCHANGED Account!externalVars
  BY SameExternal DEF externalVars, cloudVars, Account!externalVars, Account!cloudVars
<1>2. Account!At(w, "new") /\ (Account!Asks(w, {"createImage"}) <=> Handles(w, "createImage"))
  BY JobFacts DEF At, Stage, Handles
<1>3. CASE Answers(w, "notFound") \/ Answers(w, "badRequest")
  BY <1>1, <1>2, <1>3, AnswersJob DEF Account!Serve, Account!Begin
<1>4. CASE /\ \A v \in User \ {w} : SameRequest(v)
           /\ request'[w].command = request[w].command /\ request'[w].answer = request[w].answer
           /\ request'[w].step \in IF Handles(w, "createImage") THEN {"commit"}
                                   ELSE {"next", "create", "remote"}
  <2> DEFINE s == IF Account!Asks(w, {"createImage"}) THEN "over" ELSE "open"
  <2>1. Stage(w)' = s
    BY <1>2, <1>4 DEF Stage
  <2>2. Account!Becomes(w, s)
    BY <1>4, <2>1, MovesJob DEF At
  <2> QED
    BY <1>1, <1>2, <2>1, <2>2 DEF Account!Serve, Account!Begin
<1> QED
  BY <1>3, <1>4

-----------------------------------------------------------------------------
(* The steps of handlers *)

\* Handlers work for the requests of users, one at a time.
LEMMA HandlersServeUsers ==
    ASSUME ApiInv, NEW w \in Worker, HandlerStep(w)
    PROVE  w \in User /\ request[w].step # "none" /\ \A v \in User \ {w} : SameRequest(v)
<1>1. request[w].step # "none"
  BY DEF HandlerStep, CreateImage, RemoveImage, VisitNode, DeleteRow, PickServer, CreateContainer,
     StartContainer, ShutdownContainer, ContainerShutDown, LookUpServer, ClearServer, RemoteCall,
     TryStopContainer, NextCall, ListModified, ListVictims, StopContainer, RemoveContainer,
     EndCall, Refresh, EndRefresh, Commit, CallsDone, At
<1>2. w # Hosted
  BY <1>1 DEF ApiInv, RequestInv, ControlInv
<1>3. \A v \in User \ {w} : SameRequest(v)
  BY OthersStay DEF ApiInv, User
<1> QED
  BY <1>1, <1>2, <1>3 DEF User

\* What handlers do first is a begin.
LEMMA BeginSteps ==
    ASSUME ApiInv, NEW w \in User, \A v \in User \ {w} : SameRequest(v),
           \/ CreateImage(w) \/ RemoveImage(w) \/ PickServer(w)
           \/ ShutdownContainer(w) \/ LookUpServer(w)
    PROVE  Account!Serve(w)
<1> DEFINE r == request[w]
           begins(steps) == /\ request'[w].command = r.command /\ request'[w].answer = r.answer
                            /\ request'[w].step \in steps
<1>1. /\ RequestTypeOK /\ request \in [Worker -> Request] /\ r \in Request /\ w \in Worker
      /\ At(w, "begin") /\ r.step # "none"
  BY DEF ApiInv, RequestTypeOK, User, CreateImage, RemoveImage, PickServer, ShutdownContainer,
     LookUpServer, At
<1>2. CASE CreateImage(w)
  <2>1. UNCHANGED <<externalVars, imageInfos>>
    BY <1>2 DEF CreateImage, managerUnchanged
  <2>2. CASE Goes(w, "commit")
    <3>1. begins({"commit"})
      BY <1>1, <2>2 DEF Goes, Request
    <3> QED
      BY <1>1, <1>2, <2>1, <3>1, Beginning DEF CreateImage
  <2> QED
    BY <1>1, <1>2, <2>1, <2>2, Failing DEF CreateImage
<1>3. CASE RemoveImage(w) \/ PickServer(w) \/ ShutdownContainer(w) \/ LookUpServer(w)
  <2>1. UNCHANGED <<externalVars, imageInfos>> /\ ~Handles(w, "createImage")
    BY <1>3
        DEF RemoveImage, PickServer, ShutdownContainer, LookUpServer, vars, Handles, ServerHandler
  <2>2. \/ Answers(w, "notFound")
        \/ Answers(w, "badRequest")
        \/ begins({"next", "create", "remote"})
    <3>1. ASSUME NEW o, NEW p \in {"create", "remote"},
                 request' = [request EXCEPT ![w].target = o, ![w].step = p]
          PROVE  begins({"next", "create", "remote"})
      BY <1>1, <3>1 DEF Request
    <3>2. ASSUME NEW o, NEW C,
                 request' = [request EXCEPT ![w].target = o, ![w].step = "next", ![w].calls = C]
          PROVE  begins({"next", "create", "remote"})
      BY <1>1, <3>2 DEF Request
    <3> HIDE DEF begins
    <3>3. CASE RemoveImage(w)
      BY <1>1, <3>3 DEF RemoveImage, Request, begins
    <3>4. CASE PickServer(w)
      <4>1. \/ Answers(w, "notFound")
            \/ \E o : request' = [request EXCEPT ![w].target = o, ![w].step = "create"]
        BY <3>4 DEF PickServer
      <4> QED
        BY <3>1, <4>1
    <3>5. CASE ShutdownContainer(w)
      <4>1. \/ Answers(w, "notFound")
            \/ \E o, C : request' = [request EXCEPT ![w].target = o, ![w].step = "next",
                                                    ![w].calls = C]
        BY <3>5 DEF ShutdownContainer
      <4> QED
        BY <3>2, <4>1
    <3>6. CASE LookUpServer(w)
      <4>1. \/ Answers(w, "notFound") \/ Answers(w, "badRequest") \/ Goes(w, "remote")
            \/ \E o : request' = [request EXCEPT ![w].target = o, ![w].step = "remote"]
            \/ \E o, C : request' = [request EXCEPT ![w].target = o, ![w].step = "next",
                                                    ![w].calls = C]
        BY <3>6 DEF LookUpServer
      <4>2. Goes(w, "remote") => begins({"next", "create", "remote"})
        BY <1>1 DEF Goes, Request, begins
      <4> QED
        BY <3>1, <3>2, <4>1, <4>2
    <3> QED
      BY <1>3, <3>3, <3>4, <3>5, <3>6
  <2> QED
    BY <1>1, <2>1, <2>2, Beginning
<1> QED
  BY <1>2, <1>3

\* The turns of the loops, and the end of a refresh, are not seen unless they throw.
LEMMA SilentSteps ==
    ASSUME ApiInv, NEW w \in User, \A v \in User \ {w} : SameRequest(v),
           VisitNode(w) \/ NextCall(w) \/ EndCall(w) \/ ClearServer(w) \/ EndRefresh(w)
    PROVE  Account!Serve(w) \/ UNCHANGED Account!accountVars
<1> DEFINE r == request[w]
<1>1. RequestTypeOK /\ request \in [Worker -> Request] /\ r \in Request /\ w \in Worker
  BY DEF ApiInv, RequestTypeOK, User
<1>2. UNCHANGED <<externalVars, imageInfos>>
  BY DEF VisitNode, NextCall, EndCall, ClearServer, EndRefresh, vars
<1>3. ASSUME request'[w].command = r.command, request'[w].answer = r.answer,
             \/ /\ r.step \in Stopping \ {"none", "begin", "run"}
                /\ request'[w].step \in Stopping \cup {"remote"}
             \/ r.step = "refreshing" /\ request'[w].step = "commit"
      PROVE  UNCHANGED Account!accountVars
  <2>1. Stage(w)' = Stage(w) /\ r.step # "run" /\ request'[w].step # "run"
    BY <1>3 DEF Stage, Stopping
  <2> QED
    BY <1>2, <1>3, <2>1, Silent
<1>4. CASE VisitNode(w)
  <2>1. PICK o, C :
          request' = [request EXCEPT ![w].nodes = @ \ {o}, ![w].target = o, ![w].calls = C]
    BY <1>4 DEF VisitNode
  <2>2. /\ request'[w].command = r.command /\ request'[w].answer = r.answer
        /\ r.step = "next" /\ request'[w].step = "next"
    BY <1>1, <1>4, <2>1 DEF VisitNode, CallsDone, At, Request
  <2> QED
    BY <1>3, <2>2 DEF Stopping
<1>5. CASE NextCall(w)
  <2>1. PICK k : \/ request' = [request EXCEPT ![w].calls = @ \ {k}, ![w].call = k, ![w].step = "list"]
                 \/ request' = [request EXCEPT ![w].calls = @ \ {k}]
    BY <1>5 DEF NextCall
  <2> DEFINE goesOn == /\ request'[w].command = r.command /\ request'[w].answer = r.answer
                       /\ request'[w].step \in {r.step, "list"}
  <2>2. request' = [request EXCEPT ![w].calls = @ \ {k}, ![w].call = k, ![w].step = "list"] => goesOn
    BY <1>1 DEF Request
  <2>3. request' = [request EXCEPT ![w].calls = @ \ {k}] => goesOn
    BY <1>1 DEF Request
  <2>4. /\ request'[w].command = r.command /\ request'[w].answer = r.answer
        /\ r.step = "next" /\ request'[w].step \in {"next", "list"}
    BY <1>5, <2>1, <2>2, <2>3 DEF NextCall, At
  <2> QED
    BY <1>3, <2>4 DEF Stopping
<1>6. CASE EndCall(w)
  <2>1. /\ request'[w].command = r.command /\ request'[w].answer = r.answer
        /\ r.step = "stop" /\ request'[w].step = "next"
    BY <1>1, <1>6 DEF EndCall, At, Request
  <2> QED
    BY <1>3, <2>1 DEF Stopping
<1>7. CASE ClearServer(w)
  <2>1. request'[w] = [r EXCEPT !.step = "remote"]
    BY <1>1, <1>7 DEF ClearServer
  <2>2. /\ request'[w].command = r.command /\ request'[w].answer = r.answer
        /\ r.step = "next" /\ request'[w].step = "remote"
    BY <1>1, <1>7, <2>1 DEF ClearServer, CallsDone, At, Request
  <2> QED
    BY <1>3, <2>2 DEF Stopping
<1>8. CASE EndRefresh(w)
  <2>1. CASE Goes(w, "commit")
    <3>1. /\ request'[w].command = r.command /\ request'[w].answer = r.answer
          /\ r.step = "refreshing" /\ request'[w].step = "commit"
      BY <1>1, <1>8, <2>1 DEF EndRefresh, Goes, At, Request
    <3> QED
      BY <1>3, <3>1
  <2>2. CASE Throws(w)
    BY <1>1, <1>2, <1>8, <2>2, Failing DEF EndRefresh, At
  <2> QED
    BY <1>8, <2>1, <2>2 DEF EndRefresh
<1> QED
  BY <1>4, <1>5, <1>6, <1>7, <1>8

\* A daemon that answers through a handler's client is that of its server, which
\* is one of the manager's own.
LEMMA ItsServer ==
    ASSUME VictimsInv, OnlyOwnServers, NEW w \in Worker, request[w].step \in Connected,
           NEW i \in Answering(GetClient(w))
    PROVE  i \in Instance /\ cloud[i] = "running"
          /\ (ReuseAddresses \/ (i = TargetId(w) /\ i \notin Foreign))
<1>1. i \in Instance /\ cloud[i] = "running" /\ addr[i] = GetClient(w)
  BY DEF Answering
<1>2. GetClient(w) # NoAddress /\ TargetId(w) \in Instance
  BY ObjectIds DEF VictimsInv, ApiInv, RequestInv, TargetInv, TargetId
<1>3. CASE CrossTalkInv
  <2>1. i = TargetId(w)
    BY <1>1, <1>2, <1>3 DEF CrossTalkInv, AddressesOwned, OwnerOf, GetClient
  <2> QED
    BY <1>1, <1>2, <2>1 DEF OnlyOwnServers, GetClient
<1> QED
  BY <1>1, <1>3 DEF VictimsInv

\* It makes a container, or is done with the one it made.
LEMMA MovesMade ==
    ASSUME NEW w \in User, \A v \in User \ {w} : SameRequest(v),
           request'[w].command = request[w].command, request'[w].answer = request[w].answer,
           NEW s, Stage(w)' = s,
           NEW m, m = IF request'[w].step = "run" THEN request'[w].held ELSE All
    PROVE  Account!Holds(w, s, m)
<1> DEFINE job == [v \in User |-> JobOf(v)]
           r == request[w]
<1>1. JobOf(w)' = [command |-> r.command, stage |-> s, made |-> m, answer |-> r.answer]
  BY DEF JobOf, At
<1> DEFINE moved == [command |-> r.command, stage |-> s, made |-> JobOf(w).made,
                     answer |-> r.answer]
<1>2. [JobOf(w) EXCEPT !.stage = s] = moved
  BY DEF JobOf
<1>3. [moved EXCEPT !.made = m] = JobOf(w)'
  BY <1>1
<1>4. [job EXCEPT ![w].stage = s, ![w].made = m] = [job EXCEPT ![w] = [moved EXCEPT !.made = m]]
  BY <1>2
<1> HIDE DEF moved, job
<1>5. [job EXCEPT ![w].stage = s, ![w].made = m] = [job EXCEPT ![w] = JobOf(w)']
  BY <1>3, <1>4
<1> QED
  BY <1>5, OneJob DEF job, User, Account!Holds

\* A container is made on a server the request is for,
LEMMA SpawnStep ==
    ASSUME VictimsInv, OnlyOwnServers, NEW w \in User, \A v \in User \ {w} : SameRequest(v),
           CreateContainer(w)
    PROVE  Account!Serve(w)
<1> DEFINE r == request[w]
           job == [v \in User |-> JobOf(v)]
<1>1. /\ RequestTypeOK /\ request \in [Worker -> Request] /\ r \in Request /\ w \in Worker
      /\ r.step = "create" /\ RequestInv(w)
  BY DEF VictimsInv, ApiInv, RequestTypeOK, User, CreateContainer, At
<1>2. /\ Account!At(w, "open") /\ Account!Asks(w, {"spawn"}) /\ Account!Command(w) = r.command
  BY <1>1, JobFacts DEF Stage, RequestInv, ControlInv, Handles
<1>3. UNCHANGED <<Account!cloudVars, consoleOps, imageInfos>>
  BY DEF CreateContainer, managerUnchanged, cloudVars, Account!cloudVars
<1>4. ASSUME NEW c \in Container, NEW i \in Answering(GetClient(w)),
             Create(c, i, r.command.image),
             Replies(w, [request EXCEPT ![w].held = c, ![w].step = "run"])
      PROVE  Account!Serve(w)
  <2>1. i \in Instance /\ cloud[i] = "running" /\ Account!IsForServer(Account!Command(w), i)
    <3>1. /\ i \in Instance /\ cloud[i] = "running"
          /\ ReuseAddresses \/ (i = TargetId(w) /\ i \notin Foreign)
      BY <1>1, <1>4, ItsServer DEF Connected
    <3>2. r.command.handler = "spawn" /\ r.command.server \in {NoInstance, TargetId(w)}
      BY <1>1 DEF RequestInv, ControlInv, TargetInv, Handles, Connected
    <3> QED
      BY <1>2, <3>1, <3>2 DEF Account!IsForServer
  <2>2. Account!Create(c, i, Account!Command(w).image)
    BY <1>2, <1>4, SameExternal
  <2>3. Account!Holds(w, "made", c) \/ Account!Answers(w, "error")
    <3>1. CASE request' = [request EXCEPT ![w].held = c, ![w].step = "run"]
      <4>1. /\ request'[w].command = r.command /\ request'[w].answer = r.answer
            /\ request'[w].step = "run" /\ request'[w].held = c
        BY <1>1, <3>1 DEF Request
      <4>2. Stage(w)' = "made"
        BY <4>1 DEF Stage
      <4>3. c = IF request'[w].step = "run" THEN request'[w].held ELSE All
        BY <4>1
      <4> QED
        BY <4>1, <4>2, <4>3, MovesMade
    <3>2. CASE Throws(w)
      BY <1>1, <3>2, AnswersJob DEF Throws
    <3> QED
      BY <1>4, <3>1, <3>2 DEF Replies
  <2>4. Account!Spawn(w)
    BY <1>2, <1>3, <2>1, <2>2, <2>3 DEF Account!Spawn, User
  <2> QED
    BY <1>2, <2>4 DEF Account!Serve
<1>5. CASE Throws(w) /\ UNCHANGED containers
  BY <1>1, <1>5, Failing DEF CreateContainer, managerUnchanged, externalVars
<1> QED
  BY <1>4, <1>5 DEF CreateContainer

\* ... and that container is the one that is started.
LEMMA StartStep ==
    ASSUME VictimsInv, NEW w \in User, \A v \in User \ {w} : SameRequest(v), StartContainer(w)
    PROVE  Account!Serve(w)
<1> DEFINE r == request[w]
           c == r.held
           job == [v \in User |-> JobOf(v)]
<1>1. /\ RequestTypeOK /\ request \in [Worker -> Request] /\ r \in Request /\ w \in Worker
      /\ r.step = "run" /\ containers \in [Container -> ContainerRecord]
  BY DEF VictimsInv, ApiInv, RequestTypeOK, User, StartContainer, At, TypeOK, ExternalTypeOK
<1>2. Account!At(w, "made") /\ job[w].made = c
  BY <1>1, JobFacts DEF Stage, JobOf, At, User
<1>3. UNCHANGED <<Account!cloudVars, consoleOps, imageInfos>>
  BY DEF StartContainer, managerUnchanged, cloudVars, Account!cloudVars
<1>4. CASE /\ c \in Held(w) /\ containers[c].state # "running" /\ Run(c)
           /\ Replies(w, [request EXCEPT ![w].held = All, ![w].step = "refresh"])
  <2>1. containers[c].state \in {"created", "exited"} /\ cloud[containers[c].home] = "running"
    BY <1>1, <1>4 DEF Held, Answering, ContainersOn, ContainerRecord, ContainerState
  <2>2. Account!Run(c)
    BY <1>4, SameExternal
  <2>3. Account!Holds(w, "over", All) \/ Account!Answers(w, "error")
    <3>1. CASE request' = [request EXCEPT ![w].held = All, ![w].step = "refresh"]
      <4>1. /\ request'[w].command = r.command /\ request'[w].answer = r.answer
            /\ request'[w].step = "refresh"
        BY <1>1, <3>1 DEF Request
      <4>2. Stage(w)' = "over"
        BY <4>1 DEF Stage
      <4>3. All = IF request'[w].step = "run" THEN request'[w].held ELSE All
        BY <4>1
      <4> QED
        BY <4>1, <4>2, <4>3, MovesMade
    <3>2. CASE Throws(w)
      BY <1>1, <3>2, AnswersJob DEF Throws
    <3> QED
      BY <1>4, <3>1, <3>2 DEF Replies
  <2>4. Account!StartMade(w)
    BY <1>2, <1>3, <2>1, <2>2, <2>3 DEF Account!StartMade, User
  <2> QED
    BY <1>2, <2>4 DEF Account!Serve
<1>5. CASE Throws(w) /\ UNCHANGED containers
  BY <1>1, <1>5, Failing DEF StartContainer, managerUnchanged, externalVars
<1> QED
  BY <1>4, <1>5 DEF StartContainer

\* What is stopped or removed was asked for, on a server of the request.
LEMMA VictimIsAskedFor ==
    ASSUME VictimsInv, OnlyOwnServers, NEW w \in User, request[w].step \in {"stop", "remove"},
           NEW c \in Held(w), IsVictim(w, c)
    PROVE  /\ Account!Asks(w, StopHandler) /\ Account!IsForContainer(Account!Command(w), c)
           /\ \E i \in Instance : /\ c \in Account!ContainersOn(i) /\ cloud[i] = "running"
                                 /\ Account!IsForServer(Account!Command(w), i)
<1> DEFINE k == request[w].command
<1>1. RequestInv(w) /\ w \in Worker /\ Account!Command(w) = k
  BY JobFacts DEF VictimsInv, ApiInv, User
<1>2. k.handler \in StopHandler /\ Matches(k, request[w].call)
  BY <1>1 DEF RequestInv, ControlInv, CallsInv, Stopping
<1>3. Account!IsForContainer(k, c)
  BY <1>2 DEF Account!IsForContainer, IsVictim, IsOfImage, Matches
<1>4. PICK i \in Answering(GetClient(w)) : c \in ContainersOn(i)
  BY DEF Held
<1>5. /\ i \in Instance /\ cloud[i] = "running"
      /\ ReuseAddresses \/ (i = TargetId(w) /\ i \notin Foreign)
  BY <1>1, ItsServer DEF Connected
<1>6. k.handler \in {"shutdown", "stop", "terminate"} => TargetId(w) = k.server
  BY <1>1 DEF RequestInv, TargetInv, Connected
<1>7. Account!IsForServer(k, i)
  BY <1>2, <1>5, <1>6 DEF Account!IsForServer, StopHandler
<1>8. c \in Account!ContainersOn(i)
  BY <1>4, SameExternal
<1> QED
  BY <1>1, <1>2, <1>3, <1>5, <1>7, <1>8, JobFacts

\* So both are what the request is for.
LEMMA StopSteps ==
    ASSUME VictimsInv, OnlyOwnServers, NEW w \in User, \A v \in User \ {w} : SameRequest(v),
           StopContainer(w) \/ RemoveContainer(w)
    PROVE  Account!Serve(w) \/ UNCHANGED Account!accountVars
<1> DEFINE r == request[w]
           job == [v \in User |-> JobOf(v)]
           goesOn == /\ request'[w].command = r.command /\ request'[w].answer = r.answer
                     /\ request'[w].step \in {"next", "stop", "remove"}
<1>1. /\ RequestTypeOK /\ request \in [Worker -> Request] /\ r \in Request /\ w \in Worker
      /\ r.step \in {"stop", "remove"} /\ VictimInv(w)
  BY DEF VictimsInv, ApiInv, RequestTypeOK, User, StopContainer, RemoveContainer, At
<1>2. Account!At(w, "open")
  BY <1>1, JobFacts DEF Stage
<1>3. UNCHANGED <<cloudVars, consoleOps, imageInfos>>
  BY DEF StopContainer, RemoveContainer, managerUnchanged
<1>4. UNCHANGED <<Account!cloudVars, consoleOps, imageInfos>>
  BY <1>3 DEF cloudVars, Account!cloudVars
<1>5. ASSUME goesOn PROVE UNCHANGED job
  <2>1. Stage(w)' = "open" /\ Stage(w) = "open"
    BY <1>1, <1>5 DEF Stage
  <2>2. JobOf(w)' = JobOf(w)
    BY <1>1, <1>5, <2>1 DEF JobOf, At
  <2>3. job' = [job EXCEPT ![w] = JobOf(w)]
    BY <2>2, OneJob
  <2> QED
    BY <2>3
<1>6. ASSUME NEW c \in Held(w), IsVictim(w, c), goesOn \/ Throws(w),
             (containers[c].state = "running" /\ Exit(c)) \/ Remove(c)
      PROVE  Account!Serve(w)
  <2>1. UNCHANGED job \/ Account!Answers(w, "error")
    BY <1>1, <1>5, <1>6, AnswersJob DEF Throws
  <2>2. (containers[c].state = "running" /\ Account!Exit(c)) \/ Account!Remove(c)
    BY <1>6, SameExternal
  <2> HIDE DEF job
  <2>3. /\ Account!Asks(w, StopHandler) /\ Account!IsForContainer(Account!Command(w), c)
        /\ \E i \in Instance : /\ c \in Account!ContainersOn(i) /\ cloud[i] = "running"
                              /\ Account!IsForServer(Account!Command(w), i)
    BY <1>1, <1>6, VictimIsAskedFor
  <2>4. Account!StopOrRemove(w)
    BY <1>4, <2>1, <2>2, <2>3 DEF Account!StopOrRemove, StopHandler, job, User
  <2> QED
    BY <1>2, <2>4 DEF Account!Serve
<1>7. CASE Throws(w) /\ UNCHANGED containers
  BY <1>1, <1>3, <1>7, Failing DEF externalVars
<1>8. CASE goesOn /\ UNCHANGED containers
  <2>1. UNCHANGED job
    BY <1>5, <1>8
  <2> QED
    BY <1>4, <1>8, <2>1 DEF Account!accountVars, Account!externalVars, User
<1>9. CASE StopContainer(w)
  <2> DEFINE rest(v) == [r EXCEPT !.victims = @ \ {v}, !.held = v[1], !.step = "remove"]
             endOfCall == [r EXCEPT !.victims = {}, !.call = NoCall, !.step = "next"]
  <2>1. \E v \in r.victims :
          \/ UNCHANGED containers /\ request'[w] \in {rest(v), endOfCall}
          \/ UNCHANGED containers /\ Throws(w)
          \/ /\ v[1] \in Held(w) /\ containers[v[1]].state = "running" /\ Exit(v[1])
             /\ request'[w] = rest(v) \/ Throws(w)
    BY <1>1, <1>9 DEF StopContainer, Replies
  <2>2. ASSUME NEW v, request'[w] = rest(v) PROVE goesOn
    BY <1>1, <2>2 DEF Request
  <2>3. ASSUME request'[w] = endOfCall PROVE goesOn
    BY <1>1, <2>3 DEF Request
  <2>4. \A v \in r.victims : IsVictim(w, v[1])
    BY <1>1, <1>9 DEF VictimInv
  <2> HIDE DEF rest, endOfCall, goesOn
  <2> QED
    BY <1>6, <1>7, <1>8, <2>1, <2>2, <2>3, <2>4
<1>10. CASE RemoveContainer(w)
  <2>1. r.step = "remove" /\ IsVictim(w, r.held)
    BY <1>1, <1>10 DEF RemoveContainer, At, VictimInv
  <2>2. request' = [request EXCEPT ![w].step = "stop", ![w].held = All] => goesOn
    BY <1>1 DEF Request
  <2>3. \/ /\ r.held \in Held(w) /\ Remove(r.held)
           /\ request' = [request EXCEPT ![w].step = "stop", ![w].held = All] \/ Throws(w)
        \/ Throws(w) /\ UNCHANGED containers
    BY <1>10 DEF RemoveContainer, Replies
  <2> HIDE DEF goesOn
  <2> QED
    BY <1>6, <1>7, <2>1, <2>2, <2>3
<1> QED
  BY <1>9, <1>10

\* A list is not seen; one that changed under the enumerator is an exception.
LEMMA ListStep ==
    ASSUME ApiInv, NEW w \in User, \A v \in User \ {w} : SameRequest(v),
           ListVictims(w) \/ ListModified(w)
    PROVE  Account!Serve(w) \/ UNCHANGED Account!accountVars
<1> DEFINE r == request[w]
<1>1. /\ RequestTypeOK /\ request \in [Worker -> Request] /\ r \in Request /\ w \in Worker
      /\ r.step \in {"list", "next"}
  BY DEF ApiInv, RequestTypeOK, User, ListVictims, ListModified, At
<1>2. UNCHANGED <<externalVars, imageInfos>>
  BY DEF ListVictims, ListModified, managerUnchanged, vars
<1>3. ASSUME NEW V, request' = [request EXCEPT ![w].step = "stop", ![w].victims = V]
      PROVE  UNCHANGED Account!accountVars
  <2>1. /\ request'[w].command = r.command /\ request'[w].answer = r.answer
        /\ request'[w].step = "stop"
    BY <1>1, <1>3 DEF Request
  <2>2. Stage(w)' = Stage(w)
    BY <1>1, <2>1 DEF Stage
  <2> QED
    BY <1>1, <1>2, <2>1, <2>2, Silent
<1>4. Throws(w) \/ \E V : request' = [request EXCEPT ![w].step = "stop", ![w].victims = V]
  BY DEF ListVictims, ListModified, BreaksOff
<1> QED
  BY <1>1, <1>2, <1>3, <1>4, Failing

\* EC2 is called once, for the server of the request.
LEMMA Ec2Step ==
    ASSUME ApiInv, NEW w \in User, \A v \in User \ {w} : SameRequest(v), RemoteInv(w), RemoteCall(w)
    PROVE  Account!Serve(w)
<1> DEFINE r == request[w]
           k == r.command
           i == k.server
<1>1. /\ RequestTypeOK /\ request \in [Worker -> Request] /\ r \in Request /\ w \in Worker
      /\ r.step = "remote"
  BY DEF ApiInv, RequestTypeOK, User, RemoteCall, At
<1>2. Account!At(w, "open") /\ Account!Command(w) = k
  BY <1>1, JobFacts DEF Stage
<1>3. UNCHANGED <<containers, consoleOps, imageInfos>>
  BY DEF RemoteCall, managerUnchanged
<1>4. CASE Throws(w) /\ UNCHANGED cloudVars
  BY <1>1, <1>3, <1>4, Failing DEF externalVars
<1>5. CASE CallEc2(w) /\ Replies(w, [request EXCEPT ![w].step = "refresh"])
  <2>1. Account!Becomes(w, "over") \/ Account!Answers(w, "error")
    <3>1. CASE request' = [request EXCEPT ![w].step = "refresh"]
      <4>1. /\ request'[w].command = r.command /\ request'[w].answer = r.answer
            /\ request'[w].step = "refresh"
        BY <1>1, <3>1 DEF Request
      <4>2. Stage(w)' = "over"
        BY <4>1 DEF Stage
      <4> QED
        BY <1>1, <4>1, <4>2, MovesJob
    <3>2. CASE Throws(w)
      BY <1>1, <3>2, AnswersJob DEF Throws
    <3> QED
      BY <1>5, <3>1, <3>2 DEF Replies
  <2>2. \/ TargetId(w) = NoInstance /\ i = NoInstance /\ k.handler = "startOrRun"
        \/ TargetId(w) = i /\ i \in Instance \ Foreign /\ i # NoInstance
    <3>1. k.handler \in ServerHandler
      BY <1>5 DEF CallEc2, Handles, ServerHandler
    <3> QED
      BY <1>1, <3>1, NoInstanceAssumption DEF RemoteInv, ServerStep, TargetId, NoObject, IdOf
  <2>3. \/ k.handler = "startOrRun" /\ i = NoInstance /\ RunInstances
        \/ /\ i \in Instance \ Foreign
           /\ \/ k.handler = "startOrRun" /\ StartInstances(i)
              \/ k.handler = "stop" /\ StopInstances(i)
              \/ k.handler = "terminate" /\ TerminateInstances(i)
    <3> HIDE DEF i
    <3> QED
      BY <1>5, <2>2 DEF CallEc2, Handles
  <2>4. /\ RunInstances <=> Account!RunInstances
        /\ StartInstances(i) <=> Account!StartInstances(i)
        /\ StopInstances(i) <=> Account!StopInstances(i)
        /\ TerminateInstances(i) <=> Account!TerminateInstances(i)
    BY SameCalls
  <2>5. \A h : Account!Asks(w, {h}) <=> k.handler = h
    BY JobFacts
  <2>6. Account!CallEc2(w)
    BY <1>2, <1>3, <2>1, <2>3, <2>4, <2>5 DEF Account!CallEc2
  <2> QED
    BY <1>2, <2>6 DEF Account!Serve
<1> QED
  BY <1>4, <1>5 DEF RemoteCall

\* The calls are done, whatever they returned.
LEMMA SettleSteps ==
    ASSUME ApiInv, NEW w \in User, \A v \in User \ {w} : SameRequest(v),
           DeleteRow(w) \/ ContainerShutDown(w)
    PROVE  Account!Serve(w)
<1> DEFINE r == request[w]
<1>1. /\ RequestTypeOK /\ request \in [Worker -> Request] /\ r \in Request /\ w \in Worker
      /\ r.step = "next" /\ r.command.handler \in {"shutdown", "removeImage"}
  BY DEF ApiInv, RequestTypeOK, User, DeleteRow, ContainerShutDown, CallsDone, At, Handles
<1>2. UNCHANGED <<Account!externalVars, imageInfos>>
  BY SameExternal DEF DeleteRow, ContainerShutDown, vars, externalVars, cloudVars,
     Account!externalVars, Account!cloudVars
<1>3. PICK s \in {"commit", "refresh"} : Goes(w, s)
  BY DEF DeleteRow, ContainerShutDown
<1>4. /\ request'[w].command = r.command /\ request'[w].answer = r.answer
      /\ request'[w].step = s
  BY <1>1, <1>3 DEF Goes, Request
<1>5. Stage(w)' = "over" /\ Stage(w) = "open"
  BY <1>1, <1>4 DEF Stage
<1>6. Account!Becomes(w, "over")
  BY <1>1, <1>4, <1>5, MovesJob
<1>7. Account!At(w, "open") /\ Account!Asks(w, {"shutdown", "removeImage"})
  BY <1>1, <1>5, JobFacts
<1> QED
  BY <1>2, <1>6, <1>7 DEF Account!Serve, Account!Settle

\* The trailing refresh is not seen unless EC2 refuses it.
LEMMA RefreshStepOfUser ==
    ASSUME ApiInv, NEW w \in User, \A v \in User \ {w} : SameRequest(v), Refresh(w)
    PROVE  Account!Serve(w) \/ UNCHANGED Account!accountVars
<1> DEFINE r == request[w]
<1>1. /\ RequestTypeOK /\ request \in [Worker -> Request] /\ r \in Request /\ w \in Worker
      /\ r.step = "refresh"
  BY DEF ApiInv, RequestTypeOK, User, Refresh, At
<1>2. UNCHANGED <<externalVars, imageInfos>>
  BY DEF Refresh, DescribeInstances, managerUnchanged
<1>3. CASE Goes(w, "refreshing")
  <2>1. /\ request'[w].command = r.command /\ request'[w].answer = r.answer
        /\ request'[w].step = "refreshing"
    BY <1>1, <1>3 DEF Goes, Request
  <2>2. Stage(w)' = Stage(w)
    BY <1>1, <2>1 DEF Stage
  <2> QED
    BY <1>1, <1>2, <2>1, <2>2, Silent
<1>4. CASE Throws(w)
  BY <1>1, <1>2, <1>4, Failing
<1> QED
  BY <1>3, <1>4 DEF Refresh

\* The filter saves what is promised.
LEMMA CommitStep ==
    ASSUME ApiInv, NEW w \in User, Commit(w)
    PROVE  Account!Serve(w)
<1> DEFINE k == request[w].command
<1>1. RequestTypeOK /\ request[w].step = "commit"
  BY DEF ApiInv, Commit, At
<1>2. Account!At(w, "over") /\ Account!Command(w) = k
  BY <1>1, JobFacts DEF Stage
<1>3. UNCHANGED Account!externalVars
  BY SameExternal DEF Commit, externalVars, cloudVars, Account!externalVars, Account!cloudVars
<1>4. \A H : Account!Asks(w, H) <=> k.handler \in H
  BY JobFacts
<1>5. CASE /\ ~Conflicts(w) /\ Answers(w, "ok")
           /\ imageInfos' = CASE Handles(w, "createImage") -> imageInfos \cup {k.image}
                              [] Handles(w, "removeImage") -> imageInfos \ {k.image}
                              [] OTHER -> imageInfos
  <2>1. Account!Answers(w, "ok")
    BY <1>1, <1>5, AnswersJob
  <2>2. \/ k.handler = "createImage" /\ k.image \notin imageInfos
          /\ imageInfos' = imageInfos \cup {k.image}
        \/ k.handler = "removeImage" /\ k.image \in imageInfos
          /\ imageInfos' = imageInfos \ {k.image}
        \/ k.handler \notin {"createImage", "removeImage"} /\ UNCHANGED imageInfos
    BY <1>5 DEF Conflicts, Handles
  <2>3. Account!Finish(w)
    BY <1>2, <1>3, <1>4, <2>1, <2>2 DEF Account!Finish
  <2> QED
    BY <1>2, <2>3 DEF Account!Serve
<1>6. CASE Answers(w, "badRequest") /\ UNCHANGED imageInfos
  <2>1. Account!Finish(w)
    BY <1>1, <1>3, <1>6, AnswersJob DEF Account!Finish
  <2> QED
    BY <1>2, <2>1 DEF Account!Serve
<1> QED
  BY <1>5, <1>6 DEF Commit

\* A request arrives.
LEMMA ReceiveStep ==
    ASSUME ApiInv, NEW w \in Worker, Receive(w)
    PROVE  w \in User /\ Account!Serve(w)
<1>1. w \in User /\ RequestTypeOK /\ \A v \in User \ {w} : SameRequest(v)
  BY OthersStay DEF ApiInv, User, Receive
<1>2. Account!At(w, "none")
  BY <1>1, JobFacts DEF Receive, At, Stage
<1>3. UNCHANGED <<Account!externalVars, imageInfos>>
  BY SameExternal DEF Receive, managerUnchanged, externalVars, cloudVars,
     Account!externalVars, Account!cloudVars
<1>4. PICK k \in Commands :
          IF k.handler \in {"spawn", "shutdown", "removeImage"} /\ k.image \notin imageInfos
            THEN Answers(w, "notFound")
            ELSE request' = [request EXCEPT ![w] = [Idle EXCEPT !.command = k, !.step = "begin"]]
  BY DEF Receive
<1>5. Answers(w, "notFound") => Account!Answers(w, "notFound")
  BY <1>1, AnswersJob
<1> DEFINE job == [v \in User |-> JobOf(v)]
           new == Account!Job(k, "new", All, "none")
<1>6. request' = [request EXCEPT ![w] = [Idle EXCEPT !.command = k, !.step = "begin"]]
        => job' = [job EXCEPT ![w] = new]
  <2> SUFFICES ASSUME request' = [request EXCEPT ![w] = [Idle EXCEPT !.command = k, !.step = "begin"]]
               PROVE  job' = [job EXCEPT ![w] = new]
    OBVIOUS
  <2>1. request'[w].command = k
    BY <1>1 DEF RequestTypeOK, User, Idle
  <2>2. request'[w].step = "begin"
    BY <1>1 DEF RequestTypeOK, User, Idle
  <2>3. request'[w].answer = "none"
    BY <1>1 DEF RequestTypeOK, User, Idle
    <2>4. JobOf(w)' = new
    BY <2>1, <2>2, <2>3 DEF JobOf, Stage, At, Account!Job
  <2> QED
    BY <1>1, <2>4, OneJob
<1>7. IF k.handler \in {"spawn", "shutdown", "removeImage"} /\ k.image \notin imageInfos
        THEN Account!Answers(w, "notFound")
        ELSE job' = [job EXCEPT ![w] = new]
  BY <1>4, <1>5, <1>6
<1>8. Account!Receive(w)
  BY <1>3, <1>7 DEF Account!Receive, User
<1> QED
  BY <1>1, <1>2, <1>8 DEF Account!Serve

-----------------------------------------------------------------------------
(* All steps *)

\* What happens elsewhere happens there.
LEMMA OutsideStep ==
    ASSUME Outside
    PROVE  Account!Elsewhere
<1>1. PICK i \in Instance : CloudProgress(i) \/ Console(i)
  BY DEF Outside, External
<1>2. UNCHANGED [v \in User |-> JobOf(v)] /\ UNCHANGED imageInfos
  <2>1. \A v \in User : SameRequest(v)
    BY DEF Outside, SameRequest
  <2> QED
    BY <2>1, JobsStay DEF Outside, External
<1>3. Account!CloudProgress(i) <=> CloudProgress(i)
  BY DEF Account!CloudProgress, CloudProgress, Account!Boot, Boot, Account!Halt, Halt,
     Account!Destroy, Destroy, Account!Forget, Forget, Account!Move, Move, Account!Release, Release,
     Account!Free, Free
<1>4. ASSUME ConsoleStep(i) PROVE Account!ConsoleStep(i)
  <2>1. /\ Account!Launch(i) <=> Launch(i)
        /\ Account!Start(i) <=> Start(i)
        /\ Account!Stop(i) <=> Stop(i)
        /\ Account!Terminate(i) <=> Terminate(i)
    BY DEF Account!Launch, Launch, Account!Start, Start, Account!Stop, Stop,
       Account!Terminate, Terminate, Account!Move, Move
  <2>2. CASE /\ "create" \in ConsoleOps /\ cloud[i] = "running" /\ UNCHANGED cloudVars
             /\ \E c \in Container, m \in Image : Create(c, i, m)
    <3>1. UNCHANGED Account!cloudVars /\ \E c \in Container, m \in Image : Account!Create(c, i, m)
      BY <2>2, SameExternal DEF cloudVars, Account!cloudVars
    <3> QED
      BY <2>2, <3>1 DEF Account!ConsoleStep
  <2>3. CASE /\ "remove" \in ConsoleOps /\ cloud[i] = "running" /\ UNCHANGED cloudVars
             /\ \E c \in ContainersOn(i) : Remove(c)
    <3>1. UNCHANGED Account!cloudVars /\ \E c \in Account!ContainersOn(i) : Account!Remove(c)
      BY <2>3, SameExternal DEF cloudVars, Account!cloudVars
    <3> QED
      BY <2>3, <3>1 DEF Account!ConsoleStep
  <2> QED
    BY <1>4, <2>1, <2>2, <2>3 DEF Account!ConsoleStep, ConsoleStep
<1>5. Console(i) => Account!Console(i)
  BY <1>4 DEF Account!Console, Console
<1> QED
  BY <1>1, <1>2, <1>3, <1>5 DEF Account!Elsewhere, User

\* A step that leaves requests, servers, containers and rows alone is not seen.
LEMMA QuietStep ==
    ASSUME \A v \in User : SameRequest(v), UNCHANGED <<externalVars, imageInfos>>
    PROVE  UNCHANGED Account!accountVars
<1>1. UNCHANGED [v \in User |-> JobOf(v)]
  BY JobsStay
<1> QED
  BY <1>1, SameExternal
     DEF User, Account!accountVars, externalVars, cloudVars, Account!externalVars, Account!cloudVars

\* So every step of a handler keeps the promises,
LEMMA UserSteps ==
    ASSUME VictimsInv, ServersInv, NEW w \in Worker, HandlerStep(w)
    PROVE  w \in User /\ (Account!Serve(w) \/ UNCHANGED Account!accountVars)
<1>1. /\ ApiInv /\ OnlyOwnServers /\ RemoteInv(w)
  BY DEF ServersInv, ForeignInv
<1>2. w \in User /\ \A v \in User \ {w} : SameRequest(v)
  BY <1>1, HandlersServeUsers
<1> QED
  BY <1>1, <1>2, BeginSteps, SilentSteps, SpawnStep, StartStep, StopSteps, ListStep, Ec2Step,
     SettleSteps, RefreshStepOfUser, CommitStep DEF HandlerStep, TryStopContainer

\* ... and so does every step of the API.
LEMMA ApiStep ==
    ASSUME VictimsInv, ServersInv, [ApiNext]_apiVars
    PROVE  Account!Next \/ UNCHANGED Account!accountVars
<1>1. ApiInv /\ RequestTypeOK
  BY DEF ServersInv, ApiInv
<1>2. CASE Outside
  BY <1>2, OutsideStep DEF Account!Next
<1>3. CASE \E w \in Worker : Receive(w) \/ HandlerStep(w)
  BY <1>1, <1>3, ReceiveStep, UserSteps DEF Account!Next, User
<1>4. ASSUME NEW w \in Worker, PipelineStep(w) PROVE UNCHANGED Account!accountVars
  <2>1. RefreshStep(w) \/ RemoteCallFails(w)
    BY <1>4 DEF PipelineStep
  <2>2. UNCHANGED imageInfos
    BY <2>1 DEF RefreshStep, RemoteCallFails, MergeInstances, DescribeInstanceStatus, ApplyStatus,
       ListImages, CollectionModified, Visit, AddClient, AnswerPing, PingReply, ListContainers,
       MergeImages, StartProbes, FinishRefresh
  <2>3. \A v \in User : SameRequest(v)
    BY <1>1, <1>4, PipelineStaysRequest DEF User
  <2> QED
    BY <2>1, <2>2, <2>3, RefreshExternal, QuietStep
<1>5. CASE HostedBegins \/ UNCHANGED apiVars
  <2>1. UNCHANGED <<request, externalVars, imageInfos>>
    BY <1>5 DEF HostedBegins, HostedRefresh, DescribeInstances, apiVars, vars
  <2> QED
    BY <2>1, QuietStep DEF SameRequest
<1> QED
  BY <1>2, <1>3, <1>4, <1>5 DEF ApiNext

\* At first nothing is asked for.
LEMMA AccountInit == ApiInit => Account!Init
<1> SUFFICES ASSUME ApiInit PROVE Account!Init
  OBVIOUS
<1> DEFINE job == [v \in User |-> JobOf(v)]
<1>1. ExternalInit /\ imageInfos \in SUBSET Image
  BY DEF ApiInit, Init
<1>2. Account!ExternalInit
  BY <1>1 DEF ExternalInit, Account!ExternalInit, NoContainer, Account!NoContainer,
     ContainerRecord, Account!ContainerRecord,
     ContainerState, Account!ContainerState
<1>3. ASSUME NEW w \in User PROVE JobOf(w) = Account!Job(Account!NoCommand, "none", All, "none")
  <2>1. request[w] = Idle
    BY DEF ApiInit, User
  <2> QED
    BY <2>1 DEF Idle, JobOf, Stage, At, Account!Job, Account!NoCommand, NoCommand
<1> QED
  BY <1>1, <1>2, <1>3 DEF Account!Init, User

\* For any servers, containers, images, requests and interleavings, with or
\* without reused DNS names: handlers, their refreshes and the service keep the
\* promises of ManagedAccount.  The three invariants are those of ManagerApiProofs;
\* they tie a captured object to the server of the request, a listed container to
\* its server and image, and a client to a server of the manager's own.
THEOREM AccountIsManaged == ApiSpec => ImplementsAccount
<1>1. ApiInit => VictimsInv /\ ServersInv /\ LambdaInv
  <2>1. ApiInit => \A w \in Worker : RemoteInv(w)
    BY DEF ApiInit, Idle, RemoteInv, ServerStep, Stopping
  <2> QED
    BY <2>1, InitVictims, ApiInitInv, InitForeign, InitLambda DEF ApiInit, ServersInv
<1>2. VictimsInv /\ ServersInv /\ LambdaInv /\ [ApiNext]_apiVars
         => (VictimsInv /\ ServersInv /\ LambdaInv)'
  BY VictimsNext, ServersNext, RegistryUnderApi DEF ServersInv
<1>3. VictimsInv /\ ServersInv /\ LambdaInv /\ [ApiNext]_apiVars
         => [Account!Next]_(Account!accountVars)
  BY ApiStep
<1> QED
  BY <1>1, <1>2, <1>3, AccountInit, PTL DEF ApiSpec, ImplementsAccount, Account!Spec
=============================================================================

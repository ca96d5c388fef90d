----------------------------- MODULE MCManagerApi -----------------------------
(***************************************************************************)
(* Instances of ManagerApi for TLC: the requests that users send.          *)
(***************************************************************************)
EXTENDS ManagerApi, TLC

CONSTANTS
    TheImage, TheServer   \* what requests name

Ask(h, m, s, c) == [handler |-> h, image |-> m, server |-> s, only |-> c]

\* Each request once, for any server or container and, where the handler
\* allows it, for a given one
EveryCommand ==
    {Ask("spawn", TheImage, NoInstance, All), Ask("shutdown", TheImage, TheServer, All),
     Ask("removeImage", TheImage, NoInstance, All), Ask("createImage", TheImage, NoInstance, All)}
    \cup {Ask("startOrRun", NoImage, s, All) : s \in {NoInstance, TheServer}}
    \cup {Ask(h, NoImage, TheServer, All) : h \in {"stop", "terminate"}}

\* Those after which the server stays registered
NotTerminate == {c \in EveryCommand : c.handler # "terminate"}

\* Those that change containers, and those that change servers, for any server.
\* A stop does what a terminate does up to its call of EC2.
OfContainers == {c \in EveryCommand : c.handler \notin {"createImage", "startOrRun", "stop"}}
OfServers == {Ask(h, NoImage, s, All) : h \in {"startOrRun", "terminate"}, s \in Instance}
OfEither == OfContainers \cup OfServers

\* No request names a container.
ContainerSymmetry == Permutations(Container)
=============================================================================

---------------------------- MODULE ApiClientProofs ----------------------------
(***************************************************************************)
(* Proofs about ApiClient: which request of the client takes which route   *)
(* of the API, for any values of the parameters.                           *)
(***************************************************************************)
EXTENDS ApiClient, SequenceTheorems, TLAPS

\* A path that has the segments of two others is their concatenation.
LEMMA Concatenated ==
    ASSUME NEW S, NEW s \in Seq(S), NEW t \in Seq(S), NEW u \in Seq(S),
           Len(u) = Len(s) + Len(t),
           \A i \in 1..Len(u) : u[i] = IF i <= Len(s) THEN s[i] ELSE t[i - Len(s)]
    PROVE  s \o t = u
<1>1. /\ s \o t \in Seq(S) /\ Len(s \o t) = Len(u)
      /\ \A i \in 1..Len(u) : (s \o t)[i] = u[i]
  BY ConcatProperties
<1> QED
  BY <1>1, SeqEqual

\* Two segments and one.
LEMMA TwoAndOne ==
    ASSUME NEW a, NEW b, NEW c
    PROVE  <<a, b>> \o <<c>> = <<a, b, c>>
<1> DEFINE S == {a, b, c}
           left == <<a, b>>
           right == <<c>>
           both == <<a, b, c>>
<1>1. left \in Seq(S) /\ right \in Seq(S) /\ both \in Seq(S)
  OBVIOUS
<1>2. Len(both) = Len(left) + Len(right)
  OBVIOUS
<1>3. \A i \in 1..Len(both) : both[i] = IF i <= Len(left) THEN left[i] ELSE right[i - Len(left)]
  OBVIOUS
<1> HIDE DEF S, left, right, both
<1>4. left \o right = both
  BY <1>1, <1>2, <1>3, Concatenated
<1> QED
  BY <1>4 DEF left, right, both

\* Two segments and two.
LEMMA TwoAndTwo ==
    ASSUME NEW a, NEW b, NEW c, NEW d
    PROVE  <<a, b>> \o <<c, d>> = <<a, b, c, d>>
<1> DEFINE S == {a, b, c, d}
           left == <<a, b>>
           right == <<c, d>>
           both == <<a, b, c, d>>
<1>1. left \in Seq(S) /\ right \in Seq(S) /\ both \in Seq(S)
  OBVIOUS
<1>2. Len(both) = Len(left) + Len(right)
  OBVIOUS
<1>3. \A i \in 1..Len(both) : both[i] = IF i <= Len(left) THEN left[i] ELSE right[i - Len(left)]
  OBVIOUS
<1> HIDE DEF S, left, right, both
<1>4. left \o right = both
  BY <1>1, <1>2, <1>3, Concatenated
<1> QED
  BY <1>4 DEF left, right, both

\* Two segments and three.
LEMMA TwoAndThree ==
    ASSUME NEW a, NEW b, NEW c, NEW d, NEW e
    PROVE  <<a, b>> \o <<c, d, e>> = <<a, b, c, d, e>>
<1> DEFINE S == {a, b, c, d, e}
           left == <<a, b>>
           right == <<c, d, e>>
           both == <<a, b, c, d, e>>
<1>1. left \in Seq(S) /\ right \in Seq(S) /\ both \in Seq(S)
  OBVIOUS
<1>2. Len(both) = Len(left) + Len(right)
  OBVIOUS
<1>3. \A i \in 1..Len(both) : both[i] = IF i <= Len(left) THEN left[i] ELSE right[i - Len(left)]
  OBVIOUS
<1> HIDE DEF S, left, right, both
<1>4. left \o right = both
  BY <1>1, <1>2, <1>3, Concatenated
<1> QED
  BY <1>4 DEF left, right, both

\* Four segments and one.
LEMMA FourAndOne ==
    ASSUME NEW a, NEW b, NEW c, NEW d, NEW e
    PROVE  <<a, b, c, d>> \o <<e>> = <<a, b, c, d, e>>
<1> DEFINE S == {a, b, c, d, e}
           left == <<a, b, c, d>>
           right == <<e>>
           both == <<a, b, c, d, e>>
<1>1. left \in Seq(S) /\ right \in Seq(S) /\ both \in Seq(S)
  OBVIOUS
<1>2. Len(both) = Len(left) + Len(right)
  OBVIOUS
<1>3. \A i \in 1..Len(both) : both[i] = IF i <= Len(left) THEN left[i] ELSE right[i - Len(left)]
  OBVIOUS
<1> HIDE DEF S, left, right, both
<1>4. left \o right = both
  BY <1>1, <1>2, <1>3, Concatenated
<1> QED
  BY <1>4 DEF left, right, both

-----------------------------------------------------------------------------
(* The table of the routes *)

Route(action, method, path) == [action |-> action, method |-> method, path |-> path]

StopPath == <<Literal("v1"), Literal("serverinstances"), Param("provider"), Param("serverId")>>
TerminatePath == <<Literal("v1"), Literal("serverinstances"), Param("provider"),
                   Param("serverId"), Literal("permanent")>>

\* Paths of several parts, written out.
LEMMA Paths ==
    /\ SpawnPath = <<Literal("v1"), Literal("images"), Literal("spawn")>>
    /\ ServersPath \o <<Param("provider"), Param("serverId")>> = StopPath
    /\ ServersPath \o <<Param("provider"), Param("serverId"), Literal("permanent")>> = TerminatePath
    /\ \A p, s : ServerPath(p, s) =
          <<Literal("v1"), Literal("serverinstances"), EncodeURIComponent(p), EncodeURIComponent(s)>>
    /\ \A p, s : ServerPath(p, s) \o <<Literal("permanent")>> =
          <<Literal("v1"), Literal("serverinstances"), EncodeURIComponent(p), EncodeURIComponent(s),
            Literal("permanent")>>
<1> DEFINE v1 == Literal("v1")
           servers1 == Literal("serverinstances")
<1>1. SpawnPath = <<v1, Literal("images"), Literal("spawn")>>
  BY TwoAndOne DEF SpawnPath, ImagesPath
<1>2. \A a, b : ServersPath \o <<a, b>> = <<v1, servers1, a, b>>
  BY TwoAndTwo DEF ServersPath
<1>3. \A a, b, c : ServersPath \o <<a, b, c>> = <<v1, servers1, a, b, c>>
  BY TwoAndThree DEF ServersPath
<1>4. \A a, b, c : <<v1, servers1, a, b>> \o <<c>> = <<v1, servers1, a, b, c>>
  BY FourAndOne
<1> HIDE DEF v1, servers1
<1>5. StopPath = ServersPath \o <<Param("provider"), Param("serverId")>>
  BY <1>2 DEF StopPath, v1, servers1
<1>6. TerminatePath = ServersPath \o <<Param("provider"), Param("serverId"), Literal("permanent")>>
  BY <1>3 DEF TerminatePath, v1, servers1
<1>7. \A p, s : ServerPath(p, s) = <<v1, servers1, EncodeURIComponent(p), EncodeURIComponent(s)>>
  BY <1>2 DEF ServerPath
<1>8. \A p, s : ServerPath(p, s) \o <<Literal("permanent")>> =
        <<v1, servers1, EncodeURIComponent(p), EncodeURIComponent(s), Literal("permanent")>>
  BY <1>4, <1>7
<1> QED
  BY <1>1, <1>5, <1>6, <1>7, <1>8 DEF v1, servers1

\* The controllers' templates, without concatenations.
LEMMA RouteTable ==
    Routes = {Route("GetAvailableImagesList", "GET", ImagesPath),
              Route("Create", "POST", ImagesPath),
              Route("Remove", "DELETE", ImagesPath),
              Route("SpawnImage", "POST", SpawnPath),
              Route("ShutdownContainer", "DELETE", SpawnPath),
              Route("GetServersList", "GET", ServersPath),
              Route("StartOrRunServer", "POST", ServersPath),
              Route("StopServer", "DELETE", StopPath),
              Route("TerminateServer", "DELETE", TerminatePath)}
  BY Paths DEF Routes, Route

\* Lengths, and what tells the lists of images and servers apart.
LEMMA PathLengths ==
    /\ Len(ImagesPath) = 2 /\ Len(SpawnPath) = 3 /\ Len(ServersPath) = 2
    /\ Len(StopPath) = 4 /\ Len(TerminatePath) = 5
    /\ ImagesPath[2] = Literal("images") /\ ServersPath[2] = Literal("serverinstances")
    /\ DOMAIN ImagesPath = {1, 2} /\ DOMAIN ServersPath = {1, 2} /\ DOMAIN SpawnPath = {1, 2, 3}
    /\ DOMAIN StopPath = {1, 2, 3, 4} /\ DOMAIN TerminatePath = {1, 2, 3, 4, 5}
    /\ Len(SpawnPath) \notin {Len(ImagesPath), Len(ServersPath)}
<1>1. /\ Len(ImagesPath) = 2 /\ Len(SpawnPath) = 3 /\ Len(ServersPath) = 2
      /\ Len(StopPath) = 4 /\ Len(TerminatePath) = 5
  BY Paths DEF ImagesPath, ServersPath, StopPath, TerminatePath
<1>2. ImagesPath[2] = Literal("images") /\ ServersPath[2] = Literal("serverinstances")
  BY DEF ImagesPath, ServersPath
<1>3. DOMAIN ImagesPath = {1, 2} /\ DOMAIN ServersPath = {1, 2}
  BY DEF ImagesPath, ServersPath
<1>4. DOMAIN SpawnPath = {1, 2, 3}
  BY Paths
<1>5. DOMAIN StopPath = {1, 2, 3, 4} /\ DOMAIN TerminatePath = {1, 2, 3, 4, 5}
  BY DEF StopPath, TerminatePath
<1> QED
  BY <1>1, <1>2, <1>3, <1>4, <1>5

-----------------------------------------------------------------------------
(* A request takes one route *)

\* A template without parameters matches its own path only.
LEMMA NoOtherRoute ==
    ASSUME NEW r \in Routes, NEW request, Matches(r, request)
    PROVE  /\ request.method = "DELETE" =>
                /\ Len(request.path) = 2 => r = Route("Remove", "DELETE", ImagesPath)
                /\ Len(request.path) = 3 => r = Route("ShutdownContainer", "DELETE", SpawnPath)
                /\ Len(request.path) = 4 => r = Route("StopServer", "DELETE", StopPath)
                /\ Len(request.path) = 5 => r = Route("TerminateServer", "DELETE", TerminatePath)
           /\ request.method = "POST" =>
                /\ request.path = ImagesPath => r = Route("Create", "POST", ImagesPath)
                /\ request.path = SpawnPath => r = Route("SpawnImage", "POST", SpawnPath)
                /\ request.path = ServersPath => r = Route("StartOrRunServer", "POST", ServersPath)
           /\ request.method = "GET" =>
                /\ request.path = ImagesPath =>
                      r = Route("GetAvailableImagesList", "GET", ImagesPath)
                /\ request.path = ServersPath => r = Route("GetServersList", "GET", ServersPath)
<1>1. r.method = request.method /\ Len(r.path) = Len(request.path)
  BY DEF Matches
<1>2. /\ r.path = ImagesPath => request.path # ServersPath
      /\ r.path = ServersPath => request.path # ImagesPath
  BY PathLengths DEF Matches, Literal
<1>3. \A a, m, p : Route(a, m, p).method = m /\ Route(a, m, p).path = p
  BY DEF Route
<1>4. ASSUME request.method = "DELETE"
      PROVE  /\ Len(request.path) = 2 => r = Route("Remove", "DELETE", ImagesPath)
             /\ Len(request.path) = 3 => r = Route("ShutdownContainer", "DELETE", SpawnPath)
             /\ Len(request.path) = 4 => r = Route("StopServer", "DELETE", StopPath)
             /\ Len(request.path) = 5 => r = Route("TerminateServer", "DELETE", TerminatePath)
  <2>1. \/ r = Route("Remove", "DELETE", ImagesPath) /\ r.path = ImagesPath
        \/ r = Route("ShutdownContainer", "DELETE", SpawnPath) /\ r.path = SpawnPath
        \/ r = Route("StopServer", "DELETE", StopPath) /\ r.path = StopPath
        \/ r = Route("TerminateServer", "DELETE", TerminatePath) /\ r.path = TerminatePath
    BY <1>1, <1>3, <1>4, RouteTable
  <2>2. Len(request.path) = Len(r.path) /\ 2 # 3 /\ 2 # 4 /\ 2 # 5 /\ 3 # 4 /\ 3 # 5 /\ 4 # 5
    BY <1>1
  <2>3. /\ Len(ImagesPath) = 2 /\ Len(SpawnPath) = 3
        /\ Len(StopPath) = 4 /\ Len(TerminatePath) = 5
    BY PathLengths
  <2> QED
    BY <2>1, <2>2, <2>3, Zenon
<1>5. ASSUME request.method = "POST"
      PROVE  /\ request.path = ImagesPath => r = Route("Create", "POST", ImagesPath)
             /\ request.path = SpawnPath => r = Route("SpawnImage", "POST", SpawnPath)
             /\ request.path = ServersPath => r = Route("StartOrRunServer", "POST", ServersPath)
  <2>1. \/ r = Route("Create", "POST", ImagesPath) /\ r.path = ImagesPath
        \/ r = Route("SpawnImage", "POST", SpawnPath) /\ r.path = SpawnPath
        \/ r = Route("StartOrRunServer", "POST", ServersPath) /\ r.path = ServersPath
    BY <1>1, <1>3, <1>5, RouteTable
  <2>2. CASE r = Route("Create", "POST", ImagesPath) /\ r.path = ImagesPath
    <3>1. request.path # SpawnPath /\ request.path # ServersPath
      BY <1>1, <1>2, <2>2, PathLengths, Zenon
    <3> QED
      BY <2>2, <3>1
  <2>3. CASE r = Route("SpawnImage", "POST", SpawnPath) /\ r.path = SpawnPath
    <3>1. request.path # ImagesPath /\ request.path # ServersPath
      BY <1>1, <2>3, PathLengths, Zenon
    <3> QED
      BY <2>3, <3>1
  <2>4. CASE r = Route("StartOrRunServer", "POST", ServersPath) /\ r.path = ServersPath
    <3>1. request.path # ImagesPath /\ request.path # SpawnPath
      BY <1>1, <1>2, <2>4, PathLengths, Zenon
    <3> QED
      BY <2>4, <3>1
  <2> QED
    BY <2>1, <2>2, <2>3, <2>4
<1>6. ASSUME request.method = "GET"
      PROVE  /\ request.path = ImagesPath =>
                   r = Route("GetAvailableImagesList", "GET", ImagesPath)
             /\ request.path = ServersPath => r = Route("GetServersList", "GET", ServersPath)
  <2>1. \/ r = Route("GetAvailableImagesList", "GET", ImagesPath) /\ r.path = ImagesPath
        \/ r = Route("GetServersList", "GET", ServersPath) /\ r.path = ServersPath
    BY <1>1, <1>3, <1>6, RouteTable
  <2> QED
    BY <1>2, <2>1
<1> QED
  BY <1>4, <1>5, <1>6

\* A request that matches one route starts its action.
LEMMA StartedOne ==
    ASSUME NEW request, NEW route \in Routes, Matches(route, request),
           \A r \in Routes : Matches(r, request) => r = route
    PROVE  Started(request) = {[action |-> route.action, args |-> Bound(route, request),
                                cmd |-> request.body]}
  BY DEF Started

\* The arguments that the query gives.
QueryArgs(query) == {<<pair[1], pair[2][2]>> : pair \in query}

\* A path without parameters matches itself, and binds what the query has.
LEMMA LiteralPaths ==
    ASSUME NEW path \in {ImagesPath, SpawnPath, ServersPath}, NEW action, NEW method, NEW request,
           request.path = path, request.method = method
    PROVE  /\ Matches(Route(action, method, path), request)
           /\ Bound(Route(action, method, path), request) = QueryArgs(request.query)
<1> DEFINE route == Route(action, method, path)
<1>1. route.path = path /\ route.method = method
  BY DEF Route
<1>2. \A i \in DOMAIN path : path[i][1] # "param"
  <2>1. /\ ImagesPath[1][1] = "literal" /\ ImagesPath[2][1] = "literal"
        /\ ServersPath[1][1] = "literal" /\ ServersPath[2][1] = "literal"
    BY DEF ImagesPath, ServersPath, Literal
  <2>2. SpawnPath[1][1] = "literal" /\ SpawnPath[2][1] = "literal" /\ SpawnPath[3][1] = "literal"
    BY Paths DEF Literal
  <2> QED
    BY <2>1, <2>2, PathLengths
<1> HIDE DEF route
<1>3. Matches(route, request)
  BY <1>1 DEF Matches
<1>4. Bound(route, request) = QueryArgs(request.query)
  BY <1>1, <1>2 DEF Bound, QueryArgs
<1> QED
  BY <1>3, <1>4 DEF route

\* What the lists of images and servers start.
LEMMA ListCalls ==
    /\ Started(ImagesGetAvailableImagesList) =
          {[action |-> "GetAvailableImagesList", args |-> {}, cmd |-> Absent]}
    /\ Started(ServerInstancesGetServersList) =
          {[action |-> "GetServersList", args |-> {}, cmd |-> Absent]}
<1>1. ASSUME NEW action, NEW path, NEW request,
             \/ action = "GetAvailableImagesList" /\ path = ImagesPath
             \/ action = "GetServersList" /\ path = ServersPath,
             request = Request("GET", path, {}, Absent)
      PROVE  Started(request) = {[action |-> action, args |-> {}, cmd |-> Absent]}
  <2> DEFINE route == Route(action, "GET", path)
  <2>1. /\ request.method = "GET" /\ request.path = path
        /\ request.query = {} /\ request.body = Absent
    BY <1>1 DEF Request
  <2>2. route \in Routes /\ route.action = action
    BY <1>1, RouteTable DEF Route
  <2>3. Matches(route, request) /\ Bound(route, request) = QueryArgs(request.query)
    BY <1>1, <2>1, LiteralPaths
  <2>5. Bound(route, request) = {}
    BY <2>1, <2>3 DEF QueryArgs
  <2>4. \A r \in Routes : Matches(r, request) => r = route
    BY <1>1, <2>1, NoOtherRoute
  <2> HIDE DEF route
  <2> QED
    BY <2>1, <2>2, <2>3, <2>4, <2>5, StartedOne
<1> QED
  BY <1>1 DEF ImagesGetAvailableImagesList, ServerInstancesGetServersList

\* Commands, which are sent as the body.
LEMMA PostCalls ==
    ASSUME NEW cmd
    PROVE  /\ Started(ImagesCreate(cmd)) = {[action |-> "Create", args |-> {}, cmd |-> cmd]}
           /\ Started(ImagesSpawnImage(cmd)) =
                 {[action |-> "SpawnImage", args |-> {}, cmd |-> cmd]}
           /\ Started(ServerInstancesStartOrRunServer(cmd)) =
                 {[action |-> "StartOrRunServer", args |-> {}, cmd |-> cmd]}
<1>1. ASSUME NEW action, NEW path, NEW request,
             \/ action = "Create" /\ path = ImagesPath
             \/ action = "SpawnImage" /\ path = SpawnPath
             \/ action = "StartOrRunServer" /\ path = ServersPath,
             request = Request("POST", path, {}, cmd)
      PROVE  Started(request) = {[action |-> action, args |-> {}, cmd |-> cmd]}
  <2> DEFINE route == Route(action, "POST", path)
  <2>1. /\ request.method = "POST" /\ request.path = path
        /\ request.query = {} /\ request.body = cmd
    BY <1>1 DEF Request
  <2>2. route \in Routes /\ route.action = action
    BY <1>1, RouteTable DEF Route
  <2>3. Matches(route, request) /\ Bound(route, request) = QueryArgs(request.query)
    BY <1>1, <2>1, LiteralPaths
  <2>5. Bound(route, request) = {}
    BY <2>1, <2>3 DEF QueryArgs
  <2>4. \A r \in Routes : Matches(r, request) => r = route
    BY <1>1, <2>1, NoOtherRoute
  <2> HIDE DEF route
  <2> QED
    BY <2>1, <2>2, <2>3, <2>4, <2>5, StartedOne
<1> QED
  BY <1>1 DEF ImagesCreate, ImagesSpawnImage, ServerInstancesStartOrRunServer

\* What is deleted by the query.
LEMMA RemoveCalls ==
    ASSUME NEW i, i # Absent
    PROVE  Started(ImagesRemove(i)) =
              {[action |-> "Remove", args |-> {<<"imageId", i>>}, cmd |-> Absent]}
<1> DEFINE request == ImagesRemove(i)
           route == Route("Remove", "DELETE", ImagesPath)
<1>1. /\ request.method = "DELETE" /\ request.path = ImagesPath /\ request.body = Absent
      /\ request.query = {<<"imageId", <<"encoded", i>>>>}
  BY DEF ImagesRemove, Request, AddToHttpParams, EncodeURIComponent
<1> HIDE DEF request
<1>2. route \in Routes /\ route.action = "Remove"
  BY RouteTable DEF Route
<1>3. Matches(route, request) /\ Bound(route, request) = QueryArgs(request.query)
  BY <1>1, LiteralPaths
<1>4. Bound(route, request) = {<<"imageId", i>>}
  BY <1>1, <1>3 DEF QueryArgs
<1>5. \A r \in Routes : Matches(r, request) => r = route
  BY <1>1, PathLengths, NoOtherRoute
<1> HIDE DEF route
<1> QED
  BY <1>1, <1>2, <1>3, <1>4, <1>5, StartedOne DEF request

\* A container is named by its server, provider, image and id.
LEMMA ShutdownCalls ==
    ASSUME NEW s, NEW p, NEW i, NEW c, Absent \notin {s, p, i, c}
    PROVE  Started(ImagesShutdownContainer(s, p, i, c)) =
              {[action |-> "ShutdownContainer",
                args |-> {<<"serverId", s>>, <<"providerId", p>>, <<"imageId", i>>,
                          <<"containerId", c>>},
                cmd |-> Absent]}
<1> DEFINE request == ImagesShutdownContainer(s, p, i, c)
           route == Route("ShutdownContainer", "DELETE", SpawnPath)
<1>1. /\ request.method = "DELETE" /\ request.path = SpawnPath /\ request.body = Absent
      /\ request.query = {<<"serverId", <<"encoded", s>>>>, <<"providerId", <<"encoded", p>>>>,
                          <<"imageId", <<"encoded", i>>>>, <<"containerId", <<"encoded", c>>>>}
  BY DEF ImagesShutdownContainer, Request, AddToHttpParams, EncodeURIComponent
<1> HIDE DEF request
<1>2. route \in Routes /\ route.action = "ShutdownContainer"
  BY RouteTable DEF Route
<1>3. Matches(route, request) /\ Bound(route, request) = QueryArgs(request.query)
  BY <1>1, LiteralPaths
<1>4. Bound(route, request) = {<<"serverId", s>>, <<"providerId", p>>, <<"imageId", i>>,
                               <<"containerId", c>>}
  BY <1>1, <1>3 DEF QueryArgs
<1>5. \A r \in Routes : Matches(r, request) => r = route
  BY <1>1, PathLengths, NoOtherRoute
<1> HIDE DEF route
<1> QED
  BY <1>1, <1>2, <1>3, <1>4, <1>5, StartedOne DEF request

\* A server is named by the parameters of the path.
LEMMA StopCalls ==
    ASSUME NEW p, NEW s, Absent \notin {p, s}
    PROVE  Started(ServerInstancesStopServer(p, s)) =
              {[action |-> "StopServer", args |-> {<<"provider", p>>, <<"serverId", s>>},
                cmd |-> Absent]}
<1> DEFINE request == ServerInstancesStopServer(p, s)
           route == Route("StopServer", "DELETE", StopPath)
<1>1. /\ request.method = "DELETE" /\ request.body = Absent /\ request.query = {}
      /\ request.path = <<Literal("v1"), Literal("serverinstances"), EncodeURIComponent(p),
                          EncodeURIComponent(s)>>
  BY Paths DEF ServerInstancesStopServer, Required, Request
<1> HIDE DEF request
<1>2. Len(request.path) = 4
  BY <1>1
<1>3. route \in Routes /\ route.action = "StopServer"
  BY RouteTable DEF Route
<1>4. route.path = StopPath /\ route.method = "DELETE"
  BY DEF Route
<1>5. /\ StopPath[1] = request.path[1] /\ StopPath[2] = request.path[2]
      /\ StopPath[1][1] # "param" /\ StopPath[2][1] # "param"
      /\ StopPath[3] = <<"param", "provider">> /\ request.path[3] = <<"encoded", p>>
      /\ StopPath[4] = <<"param", "serverId">> /\ request.path[4] = <<"encoded", s>>
  BY <1>1 DEF StopPath, Param, EncodeURIComponent, Literal
<1> HIDE DEF route
<1>6. Matches(route, request)
  BY <1>1, <1>2, <1>4, <1>5, PathLengths DEF Matches
<1>7. {i \in DOMAIN route.path : route.path[i][1] = "param"} = {3, 4}
  BY <1>4, <1>5, PathLengths
<1>8. Bound(route, request) = {<<"provider", p>>, <<"serverId", s>>}
  BY <1>1, <1>4, <1>5, <1>7 DEF Bound
<1>9. \A r \in Routes : Matches(r, request) => r = route
  BY <1>1, <1>2, NoOtherRoute DEF route
<1> QED
  BY <1>1, <1>3, <1>6, <1>8, <1>9, StartedOne DEF request

\* The last segment tells a termination.
LEMMA TerminateCalls ==
    ASSUME NEW p, NEW s, Absent \notin {p, s}
    PROVE  Started(ServerInstancesTerminateServer(p, s)) =
              {[action |-> "TerminateServer", args |-> {<<"provider", p>>, <<"serverId", s>>},
                cmd |-> Absent]}
<1> DEFINE request == ServerInstancesTerminateServer(p, s)
           route == Route("TerminateServer", "DELETE", TerminatePath)
<1>1. /\ request.method = "DELETE" /\ request.body = Absent /\ request.query = {}
      /\ request.path = <<Literal("v1"), Literal("serverinstances"), EncodeURIComponent(p),
                          EncodeURIComponent(s), Literal("permanent")>>
  BY Paths DEF ServerInstancesTerminateServer, Required, Request
<1> HIDE DEF request
<1>2. Len(request.path) = 5
  BY <1>1
<1>3. route \in Routes /\ route.action = "TerminateServer"
  BY RouteTable DEF Route
<1>4. route.path = TerminatePath /\ route.method = "DELETE"
  BY DEF Route
<1>5. /\ TerminatePath[1] = request.path[1] /\ TerminatePath[2] = request.path[2]
      /\ TerminatePath[5] = request.path[5] /\ TerminatePath[5][1] # "param"
      /\ TerminatePath[1][1] # "param" /\ TerminatePath[2][1] # "param"
      /\ TerminatePath[3] = <<"param", "provider">> /\ request.path[3] = <<"encoded", p>>
      /\ TerminatePath[4] = <<"param", "serverId">> /\ request.path[4] = <<"encoded", s>>
  BY <1>1 DEF TerminatePath, Param, EncodeURIComponent, Literal
<1> HIDE DEF route
<1>6. Matches(route, request)
  BY <1>1, <1>2, <1>4, <1>5, PathLengths DEF Matches
<1>7. {i \in DOMAIN route.path : route.path[i][1] = "param"} = {3, 4}
  BY <1>4, <1>5, PathLengths
<1>8. Bound(route, request) = {<<"provider", p>>, <<"serverId", s>>}
  BY <1>1, <1>4, <1>5, <1>7 DEF Bound
<1>9. \A r \in Routes : Matches(r, request) => r = route
  BY <1>1, <1>2, NoOtherRoute DEF route
<1> QED
  BY <1>1, <1>3, <1>6, <1>8, <1>9, StartedOne DEF request

\* The selectors of the configuration: JSON is what the client asks for and expects.
LEMMA JsonAccepted == SelectHeaderAccept(Accepts) = "application/json"
<1> DEFINE json == {i \in DOMAIN Accepts : IsJsonMime(Accepts[i])}
<1>1. DOMAIN Accepts = {1, 2, 3} /\ Accepts # <<>>
  BY DEF Accepts
<1>2. /\ Accepts[1] = "text/plain" /\ Accepts[2] = "application/json" /\ Accepts[3] = "text/json"
  BY DEF Accepts
<1>3. json = {2}
  BY <1>1, <1>2 DEF IsJsonMime, JsonMimes
<1>4. (CHOOSE i \in json : \A j \in json : i <= j) = 2
  BY <1>3
<1> QED
  BY <1>1, <1>2, <1>3, <1>4 DEF SelectHeaderAccept, SelectHeader

\* Every request goes to the host of the API, and its answer is read as JSON.
LEMMA RequestsOfHost ==
    ASSUME NEW method, NEW path, NEW query, NEW body
    PROVE  /\ Request(method, path, query, body).base = ApiHostName
           /\ Request(method, path, query, body).responseType = "json"
<1>1. BasePath(Absent, ApiHostName) = ApiHostName
  BY HostAssumption DEF BasePath
<1>2. ResponseType(SelectHeaderAccept(Accepts)) = "json"
  BY JsonAccepted DEF ResponseType
<1> QED
  BY <1>1, <1>2 DEF Request
=============================================================================

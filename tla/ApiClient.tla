------------------------------ MODULE ApiClient ------------------------------
(***************************************************************************)
(* The generated client of the management API: the HTTP request that each  *)
(* method of ImagesService and ServerInstancesService builds, and how the  *)
(* routes of the API's controllers read it.                                *)
(*                                                                         *)
(* A segment of a path is a pair: what the template says literally, or a   *)
(* value, which the client encodes and the router decodes.  A query is a   *)
(* set of pairs of a key and a value, a body the command as a record.      *)
(***************************************************************************)
EXTENDS Naturals, Sequences

CONSTANTS
    Absent,       \* null or undefined
    ApiHostName   \* environment.apiHostName, provided as BASE_PATH

ASSUME HostAssumption == ApiHostName # Absent

-----------------------------------------------------------------------------
(* Configuration *)

\* Of the types that the clients know, "text/json" does not pass the pattern.
JsonMimes == {"application/json", "application/json-patch+json", "application/_*+json"}
IsJsonMime(mime) == mime \in JsonMimes

\* The first JSON type, else the first of all; both selectors of Configuration.
SelectHeader(types) ==
    LET json == {i \in DOMAIN types : IsJsonMime(types[i])} IN
    IF types = <<>> THEN Absent
    ELSE IF json = {} THEN types[1]
    ELSE types[CHOOSE i \in json : \A j \in json : i <= j]

SelectHeaderAccept(accepts) == SelectHeader(accepts)
SelectHeaderContentType(contentTypes) == SelectHeader(contentTypes)

\* configuration.basePath is never set; BASE_PATH is.
BasePath(configured, injected) ==
    IF configured # Absent THEN configured
    ELSE IF injected # Absent THEN injected ELSE "http://localhost"

Accepts == <<"text/plain", "application/json", "text/json">>
Consumes == <<"application/json-patch+json", "application/json", "text/json",
              "application/_*+json">>

ResponseType(accept) == IF accept \in {"text/plain", "text/json"} THEN "text" ELSE "json"

-----------------------------------------------------------------------------
(* Requests *)

Literal(text) == <<"literal", text>>
EncodeURIComponent(value) == <<"encoded", value>>

\* Every parameter is a string, and one that is not given is left out.
AddToHttpParams(params, value, key) ==
    IF value = Absent THEN params ELSE params \cup {<<key, EncodeURIComponent(value)>>}

Request(method, path, query, body) ==
    [method |-> method, path |-> path, query |-> query, body |-> body,
     base |-> BasePath(Absent, ApiHostName),
     accept |-> SelectHeaderAccept(Accepts),
     contentType |-> IF body = Absent THEN Absent ELSE SelectHeaderContentType(Consumes),
     responseType |-> ResponseType(SelectHeaderAccept(Accepts))]

ImagesPath == <<Literal("v1"), Literal("images")>>
ServersPath == <<Literal("v1"), Literal("serverinstances")>>
SpawnPath == ImagesPath \o <<Literal("spawn")>>
ServerPath(provider, serverId) ==
    ServersPath \o <<EncodeURIComponent(provider), EncodeURIComponent(serverId)>>

ImagesGetAvailableImagesList == Request("GET", ImagesPath, {}, Absent)

ImagesCreate(createImageCommand) == Request("POST", ImagesPath, {}, createImageCommand)

ImagesRemove(imageId) ==
    Request("DELETE", ImagesPath, AddToHttpParams({}, imageId, "imageId"), Absent)

ImagesSpawnImage(spawnImageCommand) == Request("POST", SpawnPath, {}, spawnImageCommand)

ImagesShutdownContainer(serverId, providerId, imageId, containerId) ==
    LET server == AddToHttpParams({}, serverId, "serverId")
        provider == AddToHttpParams(server, providerId, "providerId")
        image == AddToHttpParams(provider, imageId, "imageId")
    IN Request("DELETE", SpawnPath, AddToHttpParams(image, containerId, "containerId"), Absent)

ServerInstancesGetServersList == Request("GET", ServersPath, {}, Absent)

ServerInstancesStartOrRunServer(startOrRunServerInstanceCommand) ==
    Request("POST", ServersPath, {}, startOrRunServerInstanceCommand)

\* The client throws without its two parameters, before anything is sent.
Required(provider, serverId) == Absent \notin {provider, serverId}

ServerInstancesStopServer(provider, serverId) ==
    IF Required(provider, serverId)
    THEN Request("DELETE", ServerPath(provider, serverId), {}, Absent)
    ELSE Absent

\* Mutant: the two requests differ by their last segment only.
ServerInstancesTerminateServerUnmarked(provider, serverId) ==
    Request("DELETE", ServerPath(provider, serverId), {}, Absent)

ServerInstancesTerminateServer(provider, serverId) ==
    IF Required(provider, serverId)
    THEN Request("DELETE", ServerPath(provider, serverId) \o <<Literal("permanent")>>,
                 {}, Absent)
    ELSE Absent

-----------------------------------------------------------------------------
(* The commands *)

CreateImageCommand(imageName, slug, imageType, requiredSpawnParameters) ==
    [imageName |-> imageName, slug |-> slug, imageType |-> imageType,
     requiredSpawnParameters |-> requiredSpawnParameters]

SpawnImageCommand(imageId, parameters, serverId) ==
    [imageId |-> imageId, parameters |-> parameters, serverId |-> serverId]

StartOrRunServerInstanceCommand(providerName, stoppedInstanceId) ==
    [providerName |-> providerName, stoppedInstanceId |-> stoppedInstanceId]

-----------------------------------------------------------------------------
(* The controllers *)

Param(name) == <<"param", name>>

\* Action, method and template; what comes from query or body has no segment.
Routes ==
    {[action |-> "GetAvailableImagesList", method |-> "GET", path |-> ImagesPath],
     [action |-> "Create", method |-> "POST", path |-> ImagesPath],
     [action |-> "Remove", method |-> "DELETE", path |-> ImagesPath],
     [action |-> "SpawnImage", method |-> "POST", path |-> SpawnPath],
     [action |-> "ShutdownContainer", method |-> "DELETE", path |-> SpawnPath],
     [action |-> "GetServersList", method |-> "GET", path |-> ServersPath],
     [action |-> "StartOrRunServer", method |-> "POST", path |-> ServersPath],
     [action |-> "StopServer", method |-> "DELETE",
      path |-> ServersPath \o <<Param("provider"), Param("serverId")>>],
     [action |-> "TerminateServer", method |-> "DELETE",
      path |-> ServersPath \o <<Param("provider"), Param("serverId"), Literal("permanent")>>]}

Matches(route, request) ==
    /\ route.method = request.method
    /\ Len(route.path) = Len(request.path)
    /\ \A i \in DOMAIN route.path :
          \/ route.path[i][1] = "param"
          \/ route.path[i] = request.path[i]

\* What the action gets: pairs of a name and a value, decoded.
Bound(route, request) ==
    {<<route.path[i][2], request.path[i][2]>> :
        i \in {i \in DOMAIN route.path : route.path[i][1] = "param"}}
    \cup {<<pair[1], pair[2][2]>> : pair \in request.query}

\* The actions that a request starts, each with its arguments.
Started(request) ==
    {[action |-> route.action, args |-> Bound(route, request), cmd |-> request.body] :
        route \in {route \in Routes : Matches(route, request)}}
=============================================================================

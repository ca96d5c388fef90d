----------------------------- MODULE AdminRoutes -----------------------------
(***************************************************************************)
(* The route tables of the application, the menu and the breadcrumb that   *)
(* RoutesProvider and LayoutComponent make of them, and where the router   *)
(* ends up at an URL.  An URL is the sequence of its segments.             *)
(***************************************************************************)
EXTENDS Naturals, Sequences

Page == {"dashboard", "server-images"}

RouteData(route, title) == [route |-> route, title |-> title]
NoData == RouteData("", "")

\* The chain of routes from the host down to a page, and that of the login.
AppRoute == [path |-> "", data |-> NoData]
AdminRoute == [path |-> "admin", data |-> RouteData("admin", "admin.title")]
ChildrenRoute == [path |-> "", data |-> NoData]
PageRoute ==
    [p \in Page |->
        [path |-> p,
         data |-> IF p = "dashboard" THEN RouteData("dashboard", "admin.dashboard.title")
                  ELSE RouteData("server-images", "admin.serverImages.title")]]
AccountRoute == [path |-> "account", data |-> NoData]

Chain(p) == <<AppRoute, AdminRoute, ChildrenRoute, PageRoute[p]>>

\* Redirects: nothing and "account" lead to the login, "admin" to the dashboard.
Redirect(url) ==
    IF url \in {<<"/">>, <<"/", "account">>} THEN <<"/", "account", "login">>
    ELSE IF url = <<"/", "admin">> THEN <<"/", "admin", "dashboard">>
    ELSE url

PageAt(url) == {p \in Page : Redirect(url) = <<"/", "admin", p>>}

-----------------------------------------------------------------------------
(* RoutesProvider *)

ExtractRouteDataList(routes) == {r.data : r \in routes} \ {NoData}

\* Mutant: an URL relative to the route that is active.
ResolveUrl(segments) == SelectSeq(segments, LAMBDA s : s # "")

ResolveUrlFromRoot(segments) == <<"/">> \o SelectSeq(segments, LAMBDA s : s # "")

RootRoutes == ExtractRouteDataList({AccountRoute, AdminRoute})
SecondLvlRoutes == ExtractRouteDataList({PageRoute[p] : p \in Page})

GetLoginUrl == <<"account">>
GetAuthenticatedRedirectUrl == <<"/", "admin">>

-----------------------------------------------------------------------------
(* LayoutComponent *)

MainMenu == {ResolveUrlFromRoot(<<r.route>>) : r \in RootRoutes}
SecondLvlMenu == {ResolveUrlFromRoot(<<AdminRoute.data.route, r.route>>) : r \in SecondLvlRoutes}

\* The segments of all routes so far; a route without a path adds none.
SegmentsTo(chain, i) ==
    <<"/">> \o SelectSeq([j \in 1..i |-> chain[j].path], LAMBDA s : s # "")

BuildNavSegments(chain) ==
    SelectSeq([i \in DOMAIN chain |-> [data |-> chain[i].data, url |-> SegmentsTo(chain, i)]],
              LAMBDA segment : segment.data # NoData)
=============================================================================

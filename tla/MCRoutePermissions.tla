------------------------ MODULE MCRoutePermissions ------------------------
\* Two routers, /a with its list and /b with a detail route: within its router
\* the path of a detail looks like the list of the other.
EXTENDS RoutePermissions, TLC
MCEndpoints == {[path |-> <<"a">>, route |-> <<>>], [path |-> <<"b", "a">>, route |-> <<Dyn>>]}
MCRoutes == {<<"a">>, <<"b">>, <<"b", Dyn>>}
MCActions == {<<"a", "list">>, <<"b", "detail">>}
SlotSymmetry == Permutations(Slots)
===========================================================================

------------------------------ MODULE MCStarts ------------------------------
(***************************************************************************)
(* Where executions of Cockpit start: one location each, as the flags      *)
(* --page and --resource name it, and one kind of resource that changes.   *)
(***************************************************************************)
EXTENDS Pages

At(loc, kind, routes, filters, many) ==
    [keys |-> many, stack |-> IF loc = Home THEN << Home >> ELSE << Home, loc >>,
     changing |-> kind, routes |-> routes, filters |-> filters]

(* Every page on its own.                                                  *)
OnPage(route, kind) == At(Location(route, NoRef, NoRef), kind, {route}, {}, 2)
MCEach ==
    { OnPage(r, Listed[r]) : r \in ListRoutes } \cup
    { OnPage(r, "workspace") : r \in {"history", "search", "performance", "config"} }

(* The pages of the workspaces, with the filter, from home and from the    *)
(* page of a machine.                                                      *)
MCFilters == {{3}, {1, 3}}
MCWorkspaces ==
    {At(Location("workspaces", NoRef, NoRef), "workspace", {"dashboard"}, MCFilters, 3)}

(* The same with more keys, over catalogs of the same workspaces.          *)
MCNarrowed ==
    {At(Location("workspaces", NoRef, NoRef), "none", {}, {{3}}, 4)}
MCInspect ==
    {At(Home, "workspace", {"workspaces", "workspace"}, {}, 3),
     At(Location("workspace", Ref("workspace", 3), NoRef), "workspace", {"dashboard"}, {}, 3),
     At(Location("terminals", Ref("terminal", 3), NoRef), "terminal", {"agents"}, {}, 2),
     At(Location("workspaces", NoRef, Ref("machine", 2)), "workspace", {"snapshots"}, {{3}}, 2)}

(* More keys where they find a cursor that a catalog has left astray.      *)
MCAstray ==
    {At(Location("terminals", NoRef, NoRef), "terminal", {}, {}, 3),
     At(Location("reconcile", Ref("plan", 3), NoRef), "plan", {}, {}, 2)}

MCSetups == MCEach \cup MCWorkspaces \cup MCNarrowed \cup MCInspect \cup MCAstray
=============================================================================

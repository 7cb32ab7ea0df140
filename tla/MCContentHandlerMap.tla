------------------------- MODULE MCContentHandlerMap -------------------------
(* An instance of ContentHandlerMap for TLC: paths /a, /a/b, /a/b/c and /d, *)
(* a plugin and the built-in handlers.                                      *)
EXTENDS ContentHandlerMap, TLC

CONSTANTS plugin, builtin, t1, t2

Paths == {<<"a">>, <<"a", "b">>, <<"a", "b", "c">>, <<"d">>}
Targets == {builtin, plugin}
NoEngines == {}
Threads == {t1, t2}
Symmetry == Permutations(Threads)

(* URIs and admin requests meet in the removal of a target and in the       *)
(* shutdown only: one of the two tables is filled at a time.                *)
NoUris == \A u \in Uri : view[u] = None
NoAdminRequests == entries = {} /\ \A t \in Thread : adding[t] = None /\ running[t] = None
OneTableAtATime == NoUris \/ NoAdminRequests

=============================================================================

---------------------------- MODULE MCDiscovery ----------------------------
(* A line of nodes for TLC: routers A and C with a relay or router between. *)
EXTENDS Discovery, TLC

CONSTANTS A, B, C, eA, eC, eLocal

Both(n, m)  == {<<n, m>>, <<m, n>>}
Line        == Both(A, B) \cup Both(B, C)
NearLocal   == Both(B, C)
SomeHandlers == (A :> {eA}) @@ (B :> {}) @@ (C :> {eC, eLocal})
=============================================================================

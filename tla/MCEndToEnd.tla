----------------------------- MODULE MCEndToEnd -----------------------------
(* Instances of EndToEnd for TLC.                                           *)
EXTENDS EndToEnd
CONSTANTS p1, p2

Net(h, ks, sh, nb) == [hub |-> h, known |-> ks, shared |-> sh, needsBytes |-> nb]

\* With discovery every side of a hub hears several announcers; a relay that
\* does not announce itself and one holder that does leave them unshared.
Networks == {Net("direct", {1, 2}, {}, {2}), Net("relay", {}, {}, {2}),
             Net("relay", {1}, {}, {}), Net("relay", {1, 2}, Hops, {}),
             Net("router", {1, 2}, Hops, {})}

With(nets, ps, n) == {[hub |-> s.hub, known |-> s.known, shared |-> s.shared,
                       needsBytes |-> s.needsBytes, packets |-> ps, faults |-> n] : s \in nets}

\* Two packets and one fault, one packet and two.
Both == With(Networks, {p1, p2}, 1) \cup With(Networks, {p1}, 2)
=============================================================================

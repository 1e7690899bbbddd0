------------------------------ MODULE MCRoutes ------------------------------
(* Instances of Routes for TLC: three sides, a fourth may be added.         *)
EXTENDS Routes

Packet(ty, eps, id, source, bytes) ==
  [ty |-> ty, eps |-> eps, id |-> id, source |-> source, bytes |-> bytes]

Plain    == Packet("plain", {"e"}, 1, None, FALSE)
Reliable == Packet("reliable", {"e"}, 2, None, TRUE)
Ack      == Packet("ack", {}, 2, "d", FALSE)
AckBytes == Packet("ack", {}, 2, "d", TRUE)
Private  == Packet("plain", {"l"}, 3, None, FALSE)
Time     == Packet("timesync", {}, 4, "t", FALSE)
Hello    == Packet("discovery", {}, 5, None, FALSE)

AllPackets == {Plain, Reliable, Ack, AckBytes, Private, Time, Hello}
Mixed    == {Plain, Private}
Inbound  == {<<1, Plain>>, <<1, Reliable>>, <<2, Ack>>, <<3, Time>>}
FromOne  == {<<1, 2>>}
Open     == {[ingress |-> TRUE, egress |-> TRUE, link_local |-> FALSE]}
Partial  == {[eps |-> {"e"}, sources |-> {"t"}, holders |-> {<<"d", {"e"}>>}, fresh |-> TRUE]}

Unset(k) == [kind |-> k, modes |-> <<>>, weights |-> <<>>, prios |-> <<>>]
Weighed  == [kind |-> "relay", modes |-> 1 :> "weighted", weights |-> <<1, 3>> :> 2, prios |-> <<>>]
Setup    == {Unset("router"), Unset("relay"), Weighed}
=============================================================================

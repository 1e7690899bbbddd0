------------------------------- MODULE MCWire -------------------------------
(* Packets that reach every layout of Wire. *)
EXTENDS Wire

\* 0: dynamic and plain, 1: dynamic and reliable, 9: two varint bytes, static
SmallSchema ==
    [t \in {0, 1, 9} |-> [reliable |-> t # 0, size |-> IF t = 9 THEN 2 ELSE -1]]

Names == {<<5>>, <<6, 6, 6, 6, 6>>}
Payloads == {<<>>, <<3, 7>>, <<2, 2, 2, 2, 2>>}

SmallPackets ==
    {p \in [ty : {0, 1, 9}, eps : {<<1>>, <<0, 2>>}, sender : Names,
            ts : {3, 20}, payload : Payloads] :
        /\ p.ts = 20 => p.payload = <<3, 7>>
        /\ p.eps = <<1>> => p.sender = <<5>>}
=============================================================================

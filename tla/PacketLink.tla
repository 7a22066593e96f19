------------------------------ MODULE PacketLink ------------------------------
(***************************************************************************)
(* What a link between two routers promises (AbstractLinkEndpoint.hpp):    *)
(* what sendData is given is handed on at the other end as it was, late,   *)
(* out of order, again, or never.                                          *)
(***************************************************************************)
EXTENDS Sequences

CONSTANT Packet

VARIABLES
    sent,        \* the packets given to sendData, in order
    delivered    \* the packets handed to dataArrivedCallback

Init == sent = <<>> /\ delivered = {}

SendData(p) == sent' = Append(sent, p) /\ UNCHANGED delivered

Deliver(i) == delivered' = delivered \cup {sent[i]} /\ UNCHANGED sent

Next ==
    \/ \E p \in Packet : SendData(p)
    \/ \E i \in DOMAIN sent : Deliver(i)

Spec == Init /\ [][Next]_<<sent, delivered>>

==============================================================================

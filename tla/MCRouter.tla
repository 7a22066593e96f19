------------------------------- MODULE MCRouter -------------------------------
(* Instances of Router for the model checker.  They start in the reachable   *)
(* state where every interface is connected; the adverts of `Advertisers'    *)
(* are in flight, the others are lost.                                       *)
EXTENDS Router, MCGeography

CONSTANTS t1, t2, Advertisers

MCDistance == GridDistance(Location)
MCHeading == GridHeading(Node, Location)

Connected ==
    /\ ifaces = [n \in Node |-> {p \in Node : <<n, p>> \in Linked}]
    /\ greedy = [n \in Node |-> {}]
    /\ local = [n \in Node |-> [m \in Node |-> NoIface]]
    /\ face = [n \in Node |-> {}]
    /\ net = {LocationInfo(l[1], l[2]) : l \in {k \in Linked : k[1] \in Advertisers}}

MCInit == Connected /\ RouterInit

LiveSpec ==
    MCInit /\ [][RouterNext]_routerVars /\ FloodFairness /\ TrafficFairness

SettledSpec ==
    MCInit /\ [][SettledNext]_routerVars /\ SettledFairness

IPv6 == [t \in Traffic |-> MSGTYPE_IPv6]
FromA == [t \in Traffic |-> a]
FromAAndB == (t1 :> a) @@ (t2 :> b)
ToCAndD == (t1 :> c) @@ (t2 :> d)
ToC == [t \in Traffic |-> c]

==============================================================================

----------------------------- MODULE MCUDPBridge -----------------------------
(***************************************************************************)
(* Two clients and a server that is itself a client of the first, and that *)
(* may end and start again.                                                *)
(***************************************************************************)
EXTENDS UDPBridge, TLC

CONSTANTS a, b, c

MCUdpPeers == (a :> <<b>>) @@ (b :> <<a>>) @@ (c :> <<b>>)
MCMaxEpoch == (a :> 1) @@ (b :> 2) @@ (c :> 1)
==============================================================================

--------------------------- MODULE MCAttribution ---------------------------
(* Two sockets, each in its own table and connected to its own address.    *)
EXTENDS Attribution, TLC

CONSTANTS s, t, a, b, tcp, udp

TheTableOf == (s :> tcp) @@ (t :> udp)
TheRemote == (s :> a) @@ (t :> b)
=============================================================================

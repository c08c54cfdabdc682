------------------------------- MODULE MCIpc -------------------------------
(* Two clients and two servers on one CPU, one EC on the other.            *)
EXTENDS Ipc

CONSTANTS cpu1, cpu2, a, b, u, s, t, sa, sb, su

MCHome == [e \in ECs |-> IF e = u THEN cpu2 ELSE cpu1]
MCOwner == (sa :> a) @@ (sb :> b) @@ (su :> u)
MCStartup == (a :> s) @@ (b :> t) @@ (u :> NONE)
MCPrio == (sa :> 1) @@ (sb :> 2) @@ (su :> 1)
=============================================================================

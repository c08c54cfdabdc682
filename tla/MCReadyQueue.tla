---------------------------- MODULE MCReadyQueue ----------------------------
EXTENDS ReadyQueue

\* Two priorities above that of the idle SC; s1 and s2 share the lower one.
MCPrio == [s \in AllScs |-> CASE s = "idle" -> 0 [] s \in {"s1", "s2"} -> 1 [] OTHER -> 2]
=============================================================================

------------------------------ MODULE MCSpaces ------------------------------
(***************************************************************************)
(* The parts of Spaces.  As in MCPlatform all of them are in their initial *)
(* states and one, which, takes steps.                                     *)
(***************************************************************************)
EXTENDS Spaces, TLC

\* All, some and no rights, for the host, the guest or both.
MCOffers == {<<{"r", "w"}, {"host"}>>, <<{"r", "w"}, {"guest"}>>,
             <<{"r", "x"}, {"host", "guest"}>>, <<{}, {"host", "guest"}>>}

\* Domains p and q, a global EC e with SC s, a local EC l with portal t, a
\* semaphore m, a kernel page k and a vCPU v.  A scenario has some of them from
\* the start, creates others, and revokes the mortal ones in any order.
Pointers ==
    [p |-> {}, q |-> {}, m |-> {}, k |-> {},
     e |-> {<<"pd", "p">>, <<"pd_user_page", "p">>}, l |-> {<<"pd", "p">>, <<"pd_user_page", "p">>},
     s |-> {<<"ec", "e">>}, t |-> {<<"ec", "l">>},
     v |-> {<<"pd", "p">>, <<"kp_vcpu_state", "k">>, <<"kp_fpu_state", "k">>}]
Scenario(s, l, m) == [start |-> s, later |-> l, mortal |-> m, ptr |-> Pointers]
MCKind ==
    [p |-> "PD", q |-> "PD", e |-> "EC", l |-> "EC", s |-> "SC", t |-> "PT", m |-> "SM", k |-> "KP",
     v |-> "VCPU"]
MCHome == [e |-> 0, l |-> 0, v |-> 0]
MCScenarios ==
    {Scenario({"p", "e", "s", "l", "t"}, {}, {"e", "l", "t"}),
     Scenario({"p", "e", "s", "m"}, {}, {"p", "e", "s", "m"}),
     Scenario({"p", "e", "s", "k", "v"}, {}, {"p", "k", "v"}),
     Scenario({"p", "e"}, {"s", "q"}, {"p", "e", "s", "q"}),
     Scenario({"p", "l"}, {"t"}, {"p", "l", "t"}),
     Scenario({"p", "k"}, {"v", "m"}, {"p", "v", "m"}),
     Scenario({"p"}, {"e", "k"}, {"p", "e", "k"})}

\* One value of XCR0 is refused.
MCXcr0s == {{"X87"}, {"X87", "AVX"}}

\* What the proofs about Context assume.
ASSUME ContextInstance == X!ContextAssumption

-----------------------------------------------------------------------------
allvars == <<which, space, object, context>>

MCInit ==
    /\ which \in {"space", "object", "context"}
    /\ Init /\ O!Init /\ X!Init
    /\ which # "object" => mortal = {"p", "e", "k"}

\* One part moves, the others stay as they are.
SpaceMoves   == which = "space" /\ Next /\ UNCHANGED <<which, object, context>>
ObjectMoves  == which = "object" /\ O!Next /\ UNCHANGED <<which, space, context>>
ContextMoves == which = "context" /\ X!Next /\ UNCHANGED <<which, space, object>>

MCNext == SpaceMoves \/ ObjectMoves \/ ContextMoves

MCSpec == MCInit /\ [][MCNext]_allvars

\* The two domains of MemSpace are alike; the other parts do not name them.
Symmetry == Permutations(PDs)
=============================================================================

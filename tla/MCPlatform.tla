----------------------------- MODULE MCPlatform -----------------------------
(***************************************************************************)
(* The parts of Platform, the page allocator and the mapping tree.  All of *)
(* them are in their initial states and one, which, takes steps, so that   *)
(* the states of this model are the union of theirs.                       *)
(***************************************************************************)
EXTENDS Platform

VARIABLES \* Buddy, Avl
          tag, ord, list, used,
          tree, members

\* Three of four processors are listed and enabled; the BSP asks for S1 and S3.
MCMadt == <<[apic_id |-> 0, enabled |-> TRUE], [apic_id |-> 5, enabled |-> FALSE],
            [apic_id |-> 2, enabled |-> TRUE], [apic_id |-> 4, enabled |-> TRUE]>>
MCSleepCalls == {<<0, "S1">>, <<0, "S3">>, <<2, "S3">>, <<2, "bad">>}

\* Two priorities above that of the idle SC.
MCPrio == [idle |-> 0, s1 |-> 1, s3 |-> 2]

\* Two variable ranges, nested, adjacent, overlapping or invalid, just above 1 MiB.
Var(b, o, ty, v) == [base |-> b, order |-> o, type |-> ty, valid |-> v]
MCBanks == [1..2 -> {Var(256, 3, 6, TRUE), Var(256, 4, 4, TRUE), Var(260, 1, 0, TRUE),
                     Var(264, 2, 1, TRUE), Var(262, 1, 6, FALSE), Var(268, 0, 0, TRUE)}]
MCFixed == {[i \in 0..87 |-> i % 7]}
MCRegions == {<<0, 262>>, <<254, 272>>, <<259, 271>>}

\* The root domain may take ports from the kernel; items for the other domain
\* name its guest bitmap only.
MCSubs == [root |-> {{"host", "guest"}}, sub |-> {{"guest"}}]
MCReceive == {[base |-> 0, order |-> 1, attr |-> {"r", "w"}], [base |-> 1, order |-> 0, attr |-> {"w"}]}

\* The pool is not aligned to its largest order, at either end.
B == INSTANCE Buddy WITH MinIdx <- -3, MaxIdx <- 6, FirstIdx <- -2, Order <- 4

\* Pages, and two larger nodes that overlap some of them.
A == INSTANCE Avl WITH
        Nodes <- {[base |-> b, order |-> 0] : b \in 0..7}
                 \cup {[base |-> 2, order |-> 1], [base |-> 4, order |-> 2]}

\* What the proofs about the parts assume.
ASSUME PlatformInstance ==
    /\ M!MachineAssumption /\ R!QueueAssumption /\ S!PageAssumption
    /\ C!SlabAssumption /\ T!MtrrAssumption /\ Io!PortAssumption

-----------------------------------------------------------------------------
buddy   == <<tag, ord, list, used>>
avl     == <<tree, members>>
allvars == <<which, lock, machine, queues, state, slab, buddy, avl, mtrr, ports>>

MCInit ==
    /\ which \in {"lock", "machine", "queues", "state", "slab", "buddy", "avl", "mtrr", "ports"}
    /\ Init /\ M!Init /\ R!Init /\ S!Init /\ C!Init /\ B!Init /\ A!Init /\ T!Init /\ Io!Init
    /\ which # "state" => item = "RSP" /\ at = "vmm" /\ page.v = 0
    /\ which # "mtrr" => region = <<0, 262>> /\ \A i \in DOMAIN msr : msr[i] = Var(268, 0, 0, TRUE)

\* One part moves, the others stay as they are.
LockMoves ==
    /\ which = "lock" /\ Next
    /\ UNCHANGED <<which, machine, queues, state, slab, buddy, avl, mtrr, ports>>
MachineMoves ==
    /\ which = "machine" /\ M!Next
    /\ UNCHANGED <<which, lock, queues, state, slab, buddy, avl, mtrr, ports>>
QueuesMove ==
    /\ which = "queues" /\ R!Next
    /\ UNCHANGED <<which, lock, machine, state, slab, buddy, avl, mtrr, ports>>
StateMoves ==
    /\ which = "state" /\ S!Next
    /\ UNCHANGED <<which, lock, machine, queues, slab, buddy, avl, mtrr, ports>>
SlabMoves ==
    /\ which = "slab" /\ C!Next
    /\ UNCHANGED <<which, lock, machine, queues, state, buddy, avl, mtrr, ports>>
BuddyMoves ==
    /\ which = "buddy" /\ B!Next
    /\ UNCHANGED <<which, lock, machine, queues, state, slab, avl, mtrr, ports>>
AvlMoves ==
    /\ which = "avl" /\ A!Next
    /\ UNCHANGED <<which, lock, machine, queues, state, slab, buddy, mtrr, ports>>
MtrrMoves ==
    /\ which = "mtrr" /\ T!Next
    /\ UNCHANGED <<which, lock, machine, queues, state, slab, buddy, avl, ports>>
PortsMove ==
    /\ which = "ports" /\ Io!Next
    /\ UNCHANGED <<which, lock, machine, queues, state, slab, buddy, avl, mtrr>>

\* The steps that a processor takes by itself.
MachineStep(p) ==
    /\ which = "machine" /\ M!Step(p)
    /\ UNCHANGED <<which, lock, queues, state, slab, buddy, avl, mtrr, ports>>

\* The steps of ReadyQueue that are fair.
KernelStep ==
    /\ which = "queues" /\ R!Kernel
    /\ UNCHANGED <<which, lock, machine, state, slab, buddy, avl, mtrr, ports>>
NmiStep ==
    /\ which = "queues" /\ R!Nmi
    /\ UNCHANGED <<which, lock, machine, state, slab, buddy, avl, mtrr, ports>>
WakerStep(w) ==
    /\ which = "queues" /\ R!Waker(w)
    /\ UNCHANGED <<which, lock, machine, state, slab, buddy, avl, mtrr, ports>>

MCNext ==
    \/ LockMoves \/ MachineMoves \/ QueuesMove \/ StateMoves \/ SlabMoves \/ BuddyMoves \/ AvlMoves
    \/ MtrrMoves \/ PortsMove

\* The fairness of Spinlock, Machine and ReadyQueue.
MCSpec ==
    /\ MCInit /\ [][MCNext]_allvars
    /\ Fairness
    /\ \A p \in Procs : WF_allvars(MachineStep(p))
    /\ WF_allvars(KernelStep) /\ WF_allvars(NmiStep)
    /\ \A w \in Wakers : WF_allvars(WakerStep(w))

-----------------------------------------------------------------------------
(* The properties of the parts that are only here.                         *)

\* Every page of Buddy is in one block, used or on the list of its order, and two
\* free buddies never remain (Buddy::alloc, Buddy::free).  The mapping tree finds
\* what was inserted and not removed, nothing else, and stays balanced (Avl::insert,
\* Avl::remove, Mdb::lookup).
PoolAndTreeExact ==
    /\ which = "buddy" => B!PoolExact
    /\ which = "avl" => A!TreeExact
=============================================================================

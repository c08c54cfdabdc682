---------------------------- MODULE GracePeriod ----------------------------
(***************************************************************************)
(* What include/rcu.hpp promises to the rest of the hypervisor, without    *)
(* saying how: an object handed to Rcu::call() is given to its free        *)
(* callback once every CPU has gone through a quiescent state, and never   *)
(* before that.  A CPU is quiescent when it leaves the kernel for user     *)
(* space or is in the idle loop: it then holds no pointer to any object    *)
(* that it did not count as a reference.                                   *)
(***************************************************************************)
CONSTANTS CPUs,  \* the CPUs that are online
          Elems  \* the objects under RCU (Rcu_elem)

VARIABLES estate, \* "live", "retired" (Rcu::call was invoked) or "freed"
          unseen  \* CPUs that were not quiescent since Rcu::call of the object

gpvars == <<estate, unseen>>

GPInit ==
    /\ estate = [e \in Elems |-> "live"]
    /\ unseen = [e \in Elems |-> {}]

Retire(e) ==
    /\ estate[e] = "live"
    /\ estate' = [estate EXCEPT ![e] = "retired"]
    /\ unseen' = [unseen EXCEPT ![e] = CPUs]

Quiesce(c) ==
    /\ unseen' = [e \in Elems |-> unseen[e] \ {c}]
    /\ UNCHANGED estate

\* The callbacks of a whole batch run one after the other on one CPU.
Reclaim(E) ==
    /\ \A e \in E : estate[e] = "retired" /\ unseen[e] = {}
    /\ estate' = [e \in Elems |-> IF e \in E THEN "freed" ELSE estate[e]]
    /\ UNCHANGED unseen

GPNext ==
    \/ \E e \in Elems : Retire(e)
    \/ \E c \in CPUs : Quiesce(c)
    \/ \E E \in SUBSET Elems : Reclaim(E)

GPSpec == GPInit /\ [][GPNext]_gpvars
=============================================================================

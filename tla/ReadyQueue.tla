----------------------------- MODULE ReadyQueue -----------------------------
(***************************************************************************)
(* The ready queue of one CPU (src/sc.cpp) and everything that feeds it:   *)
(* its own system calls, other CPUs through Sc::remote_enqueue and an NMI, *)
(* Ec::handle_hazards and Ec::idle (src/ec.cpp), and the NMI handler       *)
(* (src/ec_exc.cpp).                                                       *)
(*                                                                         *)
(* All scheduling contexts (SCs) here belong to this CPU.  Wakers are other*)
(* CPUs that wake them, in Ec::release.  The spinlock of the remote queue  *)
(* is held by a waker from "mask" to "send"; rrq_handler runs under it and *)
(* is one step.  Reference counts and accounting are left out.             *)
(***************************************************************************)
EXTENDS Integers, Sequences

CONSTANTS Scs,     \* the SCs of ECs in user space
          Idle,    \* the SC of the idle EC, of priority 0
          Prio,    \* the priority of every SC
          MaxPrio, \* NUM_PRIORITIES - 1
          Wakers   \* the other CPUs

AllScs == Scs \cup {Idle}

QueueAssumption ==
    /\ MaxPrio \in Nat /\ Prio \in [AllScs -> 0..MaxPrio]
    /\ Idle \notin Scs /\ Prio[Idle] = 0

VARIABLES list,     \* the SCs ready to run, by priority
          prio_top, \* the highest priority with a ready SC
          current,  \* Sc::current()
          queue,    \* rq().queue, filled by other CPUs
          blocked,  \* SCs that wait for somebody to wake them
          hazard,   \* the bits HZD_RRQ and HZD_SCHED of this CPU
          nmi,      \* whether an NMI is pending
          trap,     \* whether only the kernel part of the GDT is loaded
          pc,       \* where this CPU is
          hzd,      \* the local variable of handle_hazards
          wpc       \* where each waker is

vars == <<list, prio_top, current, queue, blocked, hazard, nmi, trap, pc, hzd, wpc>>

ready == <<list, prio_top, current>>

Init ==
    /\ list = [p \in 0..MaxPrio |-> <<>>]
    /\ prio_top = 0
    /\ current = Idle
    /\ queue = <<>>
    /\ blocked = Scs
    /\ hazard = {} /\ nmi = FALSE /\ trap = FALSE
    /\ pc = "exit"
    /\ hzd = {}
    /\ wpc = [w \in Wakers |-> "out"]

MaxOf(S) == CHOOSE m \in S : \A n \in S : n <= m

-----------------------------------------------------------------------------
(* Faulty variants, against which the properties are tried.                *)

\* ready_dequeue lowers prio_top by at most one.
TopLoweredOnce(l, t) == IF l[t] = <<>> /\ t > 0 THEN t - 1 ELSE t

\* The remote queue is left as it was after its SCs were made ready.
DrainKeepsQueue ==
    /\ \A w \in Wakers : wpc[w] = "out"
    /\ list' = [p \in 0..MaxPrio |-> list[p] \o SelectSeq(queue, LAMBDA x : Prio[x] = p)]
    /\ prio_top' = MaxOf({prio_top} \cup {Prio[queue[i]] : i \in 1..Len(queue)})
    /\ UNCHANGED <<current, blocked, queue, hazard>>

\* prio_top is set to one past the new SC's priority.
EnqueueTopTooHigh(s) ==
    /\ pc = "kernel" /\ s \in blocked
    /\ blocked' = blocked \ {s}
    /\ list' = [list EXCEPT ![Prio[s]] = Append(@, s)]
    /\ prio_top' = Prio[s] + 1
    /\ UNCHANGED <<current, queue, hazard, nmi, trap, pc, hzd, wpc>>

\* A waker that finds the CPU's hazards non-zero relies on them.
SetRrqIfIdle(w) ==
    /\ wpc[w] = "mask"
    /\ hazard' = IF hazard = {} THEN {"RRQ"} ELSE hazard
    /\ wpc' = [wpc EXCEPT ![w] = "send"]
    /\ pc' = IF pc \in {"armed", "asleep"} THEN "exit" ELSE pc
    /\ UNCHANGED <<ready, queue, blocked, nmi, trap, hzd>>

\* An NMI in the kernel leaves IRET as it is.
NmiNoTrap ==
    /\ nmi /\ pc # "user" /\ pc \notin {"nmi", "nmi_clear"}
    /\ nmi' = FALSE
    /\ pc' = IF pc = "asleep" THEN "exit" ELSE pc
    /\ UNCHANGED <<ready, queue, blocked, hazard, trap, hzd, wpc>>
-----------------------------------------------------------------------------
(* The list of ready SCs.                                                  *)

\* Sc::ready_enqueue for a sequence of SCs, one after the other: the new lists,
\* the new prio_top and whether HZD_SCHED gets set.
Enqueued(l, s) ==
    LET e[i \in 0..Len(s)] ==
            IF i = 0 THEN l ELSE [e[i - 1] EXCEPT ![Prio[s[i]]] = Append(@, s[i])]
    IN  e[Len(s)]
TopAfter(t, s) == MaxOf({t} \cup {Prio[s[i]] : i \in 1..Len(s)})
SchedHazard(s) == IF \E i \in 1..Len(s) : Prio[s[i]] > Prio[current] THEN {"SCHED"} ELSE {}

\* The loop at the end of Sc::ready_dequeue lowers prio_top to the next
\* non-empty list, and stops at 0.
TopOf(l, t) == MaxOf({0} \cup {p \in 0..t : l[p] # <<>>})

\* Sc::schedule(): run the first SC of highest priority.
Pick(l, t) ==
    /\ current' = Head(l[t])
    /\ list' = [l EXCEPT ![t] = Tail(@)]
    /\ prio_top' = TopOf([l EXCEPT ![t] = Tail(@)], t)
    /\ pc' = "exit"

-----------------------------------------------------------------------------
(* This CPU in the kernel.                                                 *)

Enter ==
    /\ pc = "user"
    /\ pc' = "kernel"
    /\ UNCHANGED <<ready, queue, blocked, hazard, nmi, trap, hzd, wpc>>

\* A system call wakes an SC of this CPU: remote_enqueue on its own CPU.
ready_enqueue(s) ==
    /\ pc = "kernel" /\ s \in blocked
    /\ blocked' = blocked \ {s}
    /\ list' = Enqueued(list, <<s>>)
    /\ prio_top' = TopAfter(prio_top, <<s>>)
    /\ hazard' = hazard \cup SchedHazard(<<s>>)
    /\ UNCHANGED <<current, queue, nmi, trap, pc, hzd, wpc>>

\* Ec::block_sc: the current SC can be woken from now on ...
block_sc ==
    /\ pc = "kernel" /\ current # Idle
    /\ blocked' = blocked \cup {current}
    /\ pc' = "suspend"
    /\ UNCHANGED <<ready, queue, hazard, nmi, trap, hzd, wpc>>

\* ... and then schedule(true) gives up the CPU.
schedule_suspend ==
    /\ pc = "suspend"
    /\ Pick(list, prio_top)
    /\ UNCHANGED <<queue, blocked, hazard, nmi, trap, hzd, wpc>>

\* schedule(false), for ec_ctrl_yield and for HZD_SCHED: the current SC goes to the
\* end of its list.  Its priority is not above its own, so HZD_SCHED stays.
schedule ==
    /\ pc \in {"kernel", "reschedule"}
    /\ Pick(Enqueued(list, <<current>>), TopAfter(prio_top, <<current>>))
    /\ UNCHANGED <<queue, blocked, hazard, nmi, trap, hzd, wpc>>

-----------------------------------------------------------------------------
(* Ec::handle_hazards, on the way to user space and in the idle loop.      *)

handle_hazards ==
    /\ pc \in {"kernel", "exit"}
    /\ hzd' = hazard
    /\ hazard' = {}
    /\ pc' = "hazards"
    /\ UNCHANGED <<ready, queue, blocked, nmi, trap, wpc>>

LockFree == \A w \in Wakers : wpc[w] = "out"

\* Sc::rrq_handler: under the lock, all of the remote queue becomes ready.
rrq_handler ==
    /\ LockFree
    /\ list' = Enqueued(list, queue)
    /\ prio_top' = TopAfter(prio_top, queue)
    /\ hazard' = hazard \cup SchedHazard(queue)
    /\ queue' = <<>>
    /\ UNCHANGED <<current, blocked>>

AfterHazards == IF "SCHED" \in hzd THEN "reschedule" ELSE "leave"

handle_rrq ==
    /\ pc = "hazards"
    /\ \/ "RRQ" \in hzd /\ rrq_handler
       \/ "RRQ" \notin hzd /\ UNCHANGED <<ready, queue, blocked, hazard>>
    /\ hzd' = {}
    /\ pc' = AfterHazards
    /\ UNCHANGED <<nmi, trap, wpc>>

\* Ec::ret_user_iret.  IRET traps if an NMI came in; then handle_hazards runs again.
ret_user_iret ==
    /\ pc = "leave" /\ current # Idle
    /\ trap' = FALSE
    /\ pc' = IF trap THEN "exit" ELSE "user"
    /\ UNCHANGED <<ready, queue, blocked, hazard, nmi, hzd, wpc>>

\* Ec::idle: the monitor is armed, the hazards are looked at once more, and MWAIT
\* sleeps until the hazards are written or an NMI arrives.
monitor ==
    /\ pc = "leave" /\ current = Idle
    /\ pc' = "armed"
    /\ UNCHANGED <<ready, queue, blocked, hazard, nmi, trap, hzd, wpc>>

mwait ==
    /\ pc = "armed"
    /\ pc' = IF hazard # {} THEN "exit" ELSE "asleep"
    /\ UNCHANGED <<ready, queue, blocked, hazard, nmi, trap, hzd, wpc>>

-----------------------------------------------------------------------------
(* Ec::handle_exc_altstack and Ec::do_deferred_nmi_work.                   *)

InNmi == pc \in {"nmi", "nmi_clear"}

nmi_in_kernel ==
    /\ nmi /\ pc # "user" /\ ~InNmi
    /\ nmi' = FALSE /\ trap' = TRUE
    /\ pc' = IF pc = "asleep" THEN "exit" ELSE pc
    /\ UNCHANGED <<ready, queue, blocked, hazard, hzd, wpc>>

nmi_in_user ==
    /\ nmi /\ pc = "user"
    /\ nmi' = FALSE
    /\ pc' = IF "RRQ" \in hazard THEN "nmi" ELSE "user"
    /\ UNCHANGED <<ready, queue, blocked, hazard, trap, hzd, wpc>>

nmi_rrq ==
    /\ pc = "nmi"
    /\ rrq_handler
    /\ pc' = "nmi_clear"
    /\ UNCHANGED <<nmi, trap, hzd, wpc>>

\* clr_mask(HZD_RRQ), after the work.
nmi_clear ==
    /\ pc = "nmi_clear"
    /\ hazard' = hazard \ {"RRQ"}
    /\ pc' = "user"
    /\ UNCHANGED <<ready, queue, blocked, nmi, trap, hzd, wpc>>

-----------------------------------------------------------------------------
(* Sc::remote_enqueue on another CPU.                                      *)

\* Under the lock: append; only the first one signals.
remote_enqueue(w, s) ==
    /\ wpc[w] = "out" /\ LockFree
    /\ s \in blocked
    /\ blocked' = blocked \ {s}
    /\ queue' = Append(queue, s)
    /\ wpc' = [wpc EXCEPT ![w] = IF queue = <<>> THEN "mask" ELSE "out"]
    /\ UNCHANGED <<ready, hazard, nmi, trap, pc, hzd>>

\* The hazards are written, which ends an MWAIT whose monitor was armed before.
set_rrq(w) ==
    /\ wpc[w] = "mask"
    /\ hazard' = hazard \cup {"RRQ"}
    /\ wpc' = [wpc EXCEPT ![w] = "send"]
    /\ pc' = IF pc \in {"armed", "asleep"} THEN "exit" ELSE pc
    /\ UNCHANGED <<ready, queue, blocked, nmi, trap, hzd>>

send_nmi(w) ==
    /\ wpc[w] = "send"
    /\ nmi' = TRUE
    /\ wpc' = [wpc EXCEPT ![w] = "out"]
    /\ UNCHANGED <<ready, queue, blocked, hazard, trap, pc, hzd>>

-----------------------------------------------------------------------------
Kernel ==
    \/ schedule_suspend \/ (pc = "reschedule" /\ schedule)
    \/ handle_hazards \/ handle_rrq \/ ret_user_iret
    \/ monitor \/ mwait \/ nmi_rrq \/ nmi_clear

Nmi == nmi_in_kernel \/ nmi_in_user

Waker(w) == set_rrq(w) \/ send_nmi(w)

Next ==
    \/ Enter \/ block_sc \/ schedule \/ Kernel \/ Nmi
    \/ \E s \in Scs : ready_enqueue(s)
    \/ \E w \in Wakers : Waker(w) \/ \E s \in Scs : remote_enqueue(w, s)

\* The kernel runs to completion on every CPU and pending NMIs are delivered; user
\* code need not enter the kernel, and nobody has to wake anybody.
Fairness == WF_vars(Kernel) /\ WF_vars(Nmi) /\ \A w \in Wakers : WF_vars(Waker(w))

Spec == Init /\ [][Next]_vars
FairSpec == Spec /\ Fairness

-----------------------------------------------------------------------------
TypeOK ==
    /\ list \in [0..MaxPrio -> Seq(AllScs)]
    /\ prio_top \in 0..MaxPrio
    /\ current \in AllScs
    /\ queue \in Seq(Scs)
    /\ blocked \subseteq Scs
    /\ hazard \subseteq {"RRQ", "SCHED"} /\ hzd \subseteq {"RRQ", "SCHED"}
    /\ nmi \in BOOLEAN /\ trap \in BOOLEAN
    /\ pc \in {"user", "kernel", "exit", "hazards", "leave", "reschedule", "suspend",
               "armed", "asleep", "nmi", "nmi_clear"}
    /\ wpc \in [Wakers -> {"out", "mask", "send"}]

\* The places where an SC is linked into a list.
Linked(s) ==
    {<<"list", i>> : i \in {j \in 1..Len(list[Prio[s]]) : list[Prio[s]][j] = s}}
      \cup {<<"queue", i>> : i \in {j \in 1..Len(queue) : queue[j] = s}}

(* Sc has one pair of links, so it can be on one list only: an SC that is  *)
(* neither running nor blocked is on exactly one of the ready list of its  *)
(* priority and the remote queue, and none is lost.  The current SC is on  *)
(* none, save for the moment between block_sc and schedule(true), when it  *)
(* may have been woken already (the assertion in Sc::schedule).            *)
OnePlace ==
    \A s \in AllScs :
        LET running == s = current /\ pc # "suspend"
        IN  IF running \/ s \in blocked THEN Linked(s) = {}
            ELSE \E x \in Linked(s) : Linked(s) = {x}

(* prio_top is the highest priority with a ready SC, so the first SC that  *)
(* Sc::schedule takes from list()[prio_top()] is of highest priority, and  *)
(* there always is one (assert(sc)).                                       *)
PrioTopExact ==
    /\ \A p \in 0..MaxPrio : p > prio_top => list[p] = <<>>
    /\ prio_top > 0 \/ current # Idle => list[prio_top] # <<>>

\* The lists of this CPU are as Sc::schedule and Sc::remote_enqueue expect them.
QueuesExact == OnePlace /\ PrioTopExact

(* include/hazards.hpp on HZD_RRQ: there are SCs in the ready queue and    *)
(* they have to be enqueued.  Whenever the remote queue is not empty, the  *)
(* CPU is told or is about to look.                                        *)
RemoteSignalled ==
    queue # <<>> => \/ "RRQ" \in hazard \cup hzd
                    \/ \E w \in Wakers : wpc[w] = "mask"

(* An SC that another CPU wakes does not stay in the remote queue, also    *)
(* when this CPU is about to sleep in MWAIT or runs user code that never   *)
(* enters the kernel.                                                      *)
RemoteDrained == queue # <<>> ~> queue = <<>>
=============================================================================

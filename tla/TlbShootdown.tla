---------------------------- MODULE TlbShootdown ----------------------------
(***************************************************************************)
(* Removing a translation from the host TLBs of all CPUs:                  *)
(* Space_mem::shootdown (src/space_mem.cpp), the NMI it sends and the two  *)
(* places that answer it (src/ec_exc.cpp, Ec::handle_hazards in            *)
(* src/ec.cpp), and Pd::make_current (include/pd.hpp).                     *)
(*                                                                         *)
(* One protection domain, Target, has pages taken away from it; the others *)
(* only matter as something else for a CPU to run.  TLB entries are tagged *)
(* with a PCID, so those of Target survive a switch to another domain.     *)
(* One step is one access to memory that another CPU uses as well.         *)
(***************************************************************************)
EXTENDS Integers, FiniteSets

CONSTANTS NumCpus,     \* CPUs that are online are numbered from 0
          Initiators,  \* CPUs on which user space revokes memory
          PDs,         \* protection domains
          Target,      \* the one whose memory is revoked
          Pages,       \* its pages
          OtherNmis,   \* bound on the NMIs sent for other reasons
          CounterMod   \* number of values of the shootdown counter (2^16)

Cpu == 0..(NumCpus - 1)

\* The static_assert in include/cpulocal.hpp: the counter has more values than
\* there are CPUs.
ASSUME ShootdownAssumption ==
    /\ NumCpus \in Nat \ {0}
    /\ Initiators \subseteq Cpu
    /\ Target \in PDs
    /\ OtherNmis \in Nat
    /\ CounterMod \in Nat /\ CounterMod > NumCpus

VARIABLES page,     \* "mapped", "unmapped" or, once the system call is over, "revoked"
          tlb,      \* pages of Target that a CPU has cached translations of
          stale,    \* Target's stale_host_tlb
          cur,      \* Pd::current() of each CPU
          pc,       \* where each CPU is
          innmi,    \* whether the CPU is in an NMI handler entered from user space
          nmi,      \* whether an NMI is pending
          trap,     \* whether only the kernel part of the GDT is loaded
          hazard,   \* whether HZD_TLB is set
          counter,  \* Counter::tlb_shootdown of each CPU
          switchto, \* argument of Pd::make_current
          job,      \* the page that a CPU is revoking
          idx,      \* the loop variable cpu of shootdown()
          snap,     \* Space_mem::tlb_shootdown(), the counters seen
          waitfor,  \* stale_cpus, the CPUs to which an NMI was sent
          others    \* NMIs sent for other reasons so far

vars == <<page, tlb, stale, cur, pc, innmi, nmi, trap, hazard, counter, switchto,
          job, idx, snap, waitfor, others>>

memory == <<page, tlb, stale, cur>>
work   == <<switchto, job, idx, snap, waitfor>>
signal == <<nmi, trap, counter, others>>

\* All CPUs in user space, the pages in present mapped and cached everywhere,
\* the others gone.
Start(present) ==
    /\ page = [g \in Pages |-> IF g \in present THEN "mapped" ELSE "revoked"]
    /\ tlb = [c \in Cpu |-> present]
    /\ stale = {}
    /\ cur \in [Cpu -> PDs]
    /\ pc = [c \in Cpu |-> "user"]
    /\ innmi = [c \in Cpu |-> FALSE]
    /\ nmi = [c \in Cpu |-> FALSE]
    /\ trap = [c \in Cpu |-> FALSE]
    /\ hazard = [c \in Cpu |-> FALSE]
    /\ counter = [c \in Cpu |-> 0]
    /\ switchto = [c \in Cpu |-> Target]
    /\ job = [c \in Cpu |-> {}]
    /\ idx = [c \in Cpu |-> 0]
    /\ snap = [c \in Cpu |-> [d \in Cpu |-> 0]]
    /\ waitfor = [c \in Cpu |-> {}]

Init == Start(Pages) /\ others = 0

Goto(c, l) == pc' = [pc EXCEPT ![c] = l]

-----------------------------------------------------------------------------
(* Faulty variants, against which the properties are tried.                *)

\* Returning to user space goes through although an NMI came in.
IretAnyway(c) ==
    /\ pc[c] = "iret"
    /\ Goto(c, "user")
    /\ UNCHANGED <<memory, innmi, hazard, signal, work>>

\* An NMI is acknowledged only when it interrupted user code.
NoAckInKernel(c) ==
    /\ nmi[c] /\ pc[c] # "user" /\ ~innmi[c]
    /\ nmi' = [nmi EXCEPT ![c] = FALSE]
    /\ trap' = [trap EXCEPT ![c] = TRUE]
    /\ UNCHANGED <<memory, pc, innmi, hazard, counter, others, work>>

\* CR3 is always loaded with the no-flush bit.
LoadNoFlush(c) ==
    /\ pc[c] \in {"switch", "switch_flush"}
    /\ cur' = [cur EXCEPT ![c] = switchto[c]]
    /\ switchto' = [switchto EXCEPT ![c] = Target]
    /\ Goto(c, "kernel")
    /\ UNCHANGED <<page, tlb, stale, innmi, hazard, signal, job, idx, snap, waitfor>>

\* The NMI is sent and nobody waits for it.
SendNoWait(c) ==
    /\ pc[c] = "send"
    /\ nmi' = [nmi EXCEPT ![idx[c]] = TRUE]
    /\ idx' = [idx EXCEPT ![c] = @ + 1]
    /\ Goto(c, "scan")
    /\ UNCHANGED <<memory, innmi, hazard, trap, counter, others, switchto, job, snap, waitfor>>
-----------------------------------------------------------------------------
(* User space and the way into the kernel.                                 *)

\* The page walker caches a translation.
Fill(c, g) ==
    /\ pc[c] = "user" /\ cur[c] = Target
    /\ page[g] = "mapped" /\ g \notin tlb[c]
    /\ tlb' = [tlb EXCEPT ![c] = @ \cup {g}]
    /\ UNCHANGED <<page, stale, cur, pc, innmi, hazard, signal, work>>

Enter(c) ==
    /\ pc[c] = "user"
    /\ Goto(c, "kernel")
    /\ UNCHANGED <<memory, innmi, hazard, signal, work>>

-----------------------------------------------------------------------------
(* The system call: Space_mem::revoke, then Space_mem::shootdown.          *)

\* hpt.update() takes the page out of the page table.
revoke(c, g) ==
    /\ pc[c] = "kernel" /\ c \in Initiators
    /\ page[g] = "mapped"
    /\ page' = [page EXCEPT ![g] = "unmapped"]
    /\ job' = [job EXCEPT ![c] = {g}]
    /\ Goto(c, "merge")
    /\ UNCHANGED <<tlb, stale, cur, innmi, hazard, signal, switchto, idx, snap, waitfor>>

\* The scope guard of delegate(): stale_host_tlb.merge(cpus).
merge(c) ==
    /\ pc[c] = "merge"
    /\ stale' = Cpu
    /\ idx' = [idx EXCEPT ![c] = 0]
    /\ Goto(c, "scan")
    /\ UNCHANGED <<page, tlb, cur, innmi, hazard, signal, switchto, job, snap, waitfor>>

Remote(c) == idx[c]

NextCpu(c) == idx' = [idx EXCEPT ![c] = @ + 1]

\* The loop body up to the test of the remote hazard.
scan(c) ==
    /\ pc[c] = "scan" /\ Remote(c) \in Cpu
    /\ LET isStale == cur[Remote(c)] = Target /\ Remote(c) \in stale
       IN  \/ /\ ~isStale
              /\ NextCpu(c)
              /\ UNCHANGED <<pc, hazard>>
           \/ /\ isStale /\ Remote(c) = c
              /\ hazard' = [hazard EXCEPT ![c] = TRUE]
              /\ NextCpu(c)
              /\ UNCHANGED pc
           \/ /\ isStale /\ Remote(c) # c
              /\ Goto(c, "test")
              /\ UNCHANGED <<idx, hazard>>
    /\ UNCHANGED <<memory, innmi, signal, switchto, job, snap, waitfor>>

\* "If the remote core already has HZD_TLB set": no NMI, no waiting.
test_hazard(c) ==
    /\ pc[c] = "test"
    /\ IF hazard[Remote(c)]
         THEN NextCpu(c) /\ Goto(c, "scan")
         ELSE Goto(c, "snapshot") /\ UNCHANGED idx
    /\ UNCHANGED <<memory, innmi, hazard, signal, switchto, job, snap, waitfor>>

snapshot(c) ==
    /\ pc[c] = "snapshot"
    /\ snap' = [snap EXCEPT ![c][Remote(c)] = counter[Remote(c)]]
    /\ Goto(c, "set_mask")
    /\ UNCHANGED <<memory, innmi, hazard, signal, switchto, job, idx, waitfor>>

set_mask(c) ==
    /\ pc[c] = "set_mask"
    /\ hazard' = [hazard EXCEPT ![Remote(c)] = TRUE]
    /\ Goto(c, "send")
    /\ UNCHANGED <<memory, innmi, signal, work>>

\* Lapic::send_nmi.
send_nmi(c) ==
    /\ pc[c] = "send"
    /\ nmi' = [nmi EXCEPT ![Remote(c)] = TRUE]
    /\ waitfor' = [waitfor EXCEPT ![c] = @ \cup {Remote(c)}]
    /\ NextCpu(c)
    /\ Goto(c, "scan")
    /\ UNCHANGED <<memory, innmi, hazard, trap, counter, others, switchto, job, snap>>

\* The second loop: the CPU has gone through do_early_nmi_work.
wait(c, d) ==
    /\ pc[c] = "scan" /\ Remote(c) \notin Cpu
    /\ d \in waitfor[c] /\ counter[d] # snap[c][d]
    /\ waitfor' = [waitfor EXCEPT ![c] = @ \ {d}]
    /\ UNCHANGED <<memory, pc, innmi, hazard, signal, switchto, job, idx, snap>>

\* shootdown() returns and with it the system call's work is done.
shootdown_done(c) ==
    /\ pc[c] = "scan" /\ Remote(c) \notin Cpu /\ waitfor[c] = {}
    /\ page' = [g \in Pages |-> IF g \in job[c] THEN "revoked" ELSE page[g]]
    /\ job' = [job EXCEPT ![c] = {}]
    /\ idx' = [idx EXCEPT ![c] = 0]
    /\ snap' = [snap EXCEPT ![c] = [d \in Cpu |-> 0]]
    /\ Goto(c, "kernel")
    /\ UNCHANGED <<tlb, stale, cur, innmi, hazard, signal, switchto, waitfor>>

-----------------------------------------------------------------------------
(* Pd::make_current on the way to the user space of another domain.        *)

\* The test of the stale bit; a CPU already in that domain without it is done.
make_current(c, p) ==
    /\ pc[c] = "kernel"
    /\ Goto(c, IF p = Target /\ c \in stale THEN "switch_clear"
               ELSE IF cur[c] = p THEN "kernel" ELSE "switch")
    /\ switchto' = [switchto EXCEPT ![c] = p]
    /\ UNCHANGED <<memory, innmi, hazard, signal, job, idx, snap, waitfor>>

switch_clear(c) ==
    /\ pc[c] = "switch_clear"
    /\ stale' = stale \ {c}
    /\ Goto(c, "switch_flush")
    /\ UNCHANGED <<page, tlb, cur, innmi, hazard, signal, work>>

\* current() = this, and CR3 is loaded with or without the no-flush bit.
load_cr3(c) ==
    /\ pc[c] \in {"switch", "switch_flush"}
    /\ cur' = [cur EXCEPT ![c] = switchto[c]]
    /\ tlb' = [tlb EXCEPT ![c] = IF pc[c] = "switch_flush" THEN {} ELSE @]
    /\ switchto' = [switchto EXCEPT ![c] = Target]  \* out of scope
    /\ Goto(c, "kernel")
    /\ UNCHANGED <<page, stale, innmi, hazard, signal, job, idx, snap, waitfor>>

-----------------------------------------------------------------------------
(* The way out of the kernel: Ec::handle_hazards and Ec::ret_user_iret.    *)

\* The hazards are exchanged for 0 before they are looked at.
handle_hazards(c) ==
    /\ pc[c] \in {"kernel", "exit"}
    /\ hazard' = [hazard EXCEPT ![c] = FALSE]
    /\ Goto(c, IF hazard[c] THEN "check" ELSE "iret")
    /\ UNCHANGED <<memory, innmi, signal, work>>

\* IRET traps when an NMI came in since the GDT was last restored; the handler of
\* the #GP restores it and starts over with handle_hazards.
iret(c) ==
    /\ pc[c] = "iret"
    /\ trap' = [trap EXCEPT ![c] = FALSE]
    /\ Goto(c, IF trap[c] THEN "exit" ELSE "user")
    /\ UNCHANGED <<memory, innmi, hazard, nmi, counter, others, work>>

-----------------------------------------------------------------------------
(* Flushing, done by handle_hazards and by do_deferred_nmi_work.           *)

AfterFlush(c) == IF innmi[c] THEN "clear_mask" ELSE "iret"

check_stale(c) ==
    /\ pc[c] = "check"
    /\ Goto(c, IF cur[c] = Target /\ c \in stale THEN "clear_stale" ELSE AfterFlush(c))
    /\ UNCHANGED <<memory, innmi, hazard, signal, work>>

clear_stale(c) ==
    /\ pc[c] = "clear_stale"
    /\ stale' = stale \ {c}
    /\ Goto(c, "flush")
    /\ UNCHANGED <<page, tlb, cur, innmi, hazard, signal, work>>

\* Hpt::flush().
flush(c) ==
    /\ pc[c] = "flush"
    /\ tlb' = [tlb EXCEPT ![c] = {}]
    /\ Goto(c, AfterFlush(c))
    /\ UNCHANGED <<page, stale, cur, innmi, hazard, signal, work>>

-----------------------------------------------------------------------------
(* Ec::handle_exc_altstack.  An NMI that arrives during the handler of     *)
(* another one stays pending.                                              *)

EarlyNmiWork(c) ==
    /\ nmi' = [nmi EXCEPT ![c] = FALSE]
    /\ counter' = [counter EXCEPT ![c] = (@ + 1) % CounterMod]

\* From the kernel: acknowledge, and make the next IRET to user space trap.
nmi_in_kernel(c) ==
    /\ nmi[c] /\ pc[c] # "user" /\ ~innmi[c]
    /\ EarlyNmiWork(c)
    /\ trap' = [trap EXCEPT ![c] = TRUE]
    /\ UNCHANGED <<memory, pc, innmi, hazard, others, work>>

\* From user space: acknowledge, and go on with do_deferred_nmi_work.
nmi_in_user(c) ==
    /\ nmi[c] /\ pc[c] = "user"
    /\ EarlyNmiWork(c)
    /\ innmi' = [innmi EXCEPT ![c] = TRUE]
    /\ Goto(c, "deferred")
    /\ UNCHANGED <<memory, trap, hazard, others, work>>

do_deferred_nmi_work(c) ==
    /\ pc[c] = "deferred"
    /\ IF hazard[c]
         THEN Goto(c, "check") /\ UNCHANGED innmi
         ELSE Goto(c, "user") /\ innmi' = [innmi EXCEPT ![c] = FALSE]
    /\ UNCHANGED <<memory, hazard, signal, work>>

\* clr_mask(HZD_TLB), after the work, and back to user space.
clear_mask(c) ==
    /\ pc[c] = "clear_mask"
    /\ hazard' = [hazard EXCEPT ![c] = FALSE]
    /\ innmi' = [innmi EXCEPT ![c] = FALSE]
    /\ Goto(c, "user")
    /\ UNCHANGED <<memory, signal, work>>

\* Another CPU sends an NMI for another reason: Sc::remote_enqueue,
\* Lapic::park_all_but_self, Vcpu::poke.
other_nmi(c) ==
    /\ others < OtherNmis
    /\ others' = others + 1
    /\ nmi' = [nmi EXCEPT ![c] = TRUE]
    /\ UNCHANGED <<memory, pc, innmi, hazard, trap, counter, work>>

-----------------------------------------------------------------------------
Shootdown(c) ==
    \/ merge(c) \/ scan(c) \/ test_hazard(c) \/ snapshot(c) \/ set_mask(c)
    \/ send_nmi(c) \/ (\E d \in Cpu : wait(c, d)) \/ shootdown_done(c)

Local(c) ==
    \/ switch_clear(c) \/ load_cr3(c) \/ handle_hazards(c) \/ iret(c)
    \/ check_stale(c) \/ clear_stale(c) \/ flush(c)
    \/ do_deferred_nmi_work(c) \/ clear_mask(c)

Nmi(c) == nmi_in_kernel(c) \/ nmi_in_user(c)

Next ==
    \E c \in Cpu :
        \/ Enter(c) \/ other_nmi(c)
        \/ \E g \in Pages : Fill(c, g) \/ revoke(c, g)
        \/ \E p \in PDs : make_current(c, p)
        \/ Shootdown(c) \/ Local(c) \/ Nmi(c)

\* The CPUs run, and an NMI that is pending is delivered.
Fairness ==
    \A c \in Cpu : WF_vars(Shootdown(c)) /\ WF_vars(Local(c)) /\ WF_vars(Nmi(c))

Spec == Init /\ [][Next]_vars
FairSpec == Spec /\ Fairness

-----------------------------------------------------------------------------
Locations ==
    {"user", "kernel", "merge", "scan", "test", "snapshot", "set_mask", "send", "switch",
     "switch_clear", "switch_flush", "exit", "iret", "check", "clear_stale", "flush", "deferred", "clear_mask"}

TypeOK ==
    /\ page \in [Pages -> {"mapped", "unmapped", "revoked"}]
    /\ tlb \in [Cpu -> SUBSET Pages]
    /\ stale \subseteq Cpu
    /\ cur \in [Cpu -> PDs]
    /\ pc \in [Cpu -> Locations]
    /\ innmi \in [Cpu -> BOOLEAN]
    /\ nmi \in [Cpu -> BOOLEAN]
    /\ trap \in [Cpu -> BOOLEAN]
    /\ hazard \in [Cpu -> BOOLEAN]
    /\ counter \in [Cpu -> 0..(CounterMod - 1)]
    /\ switchto \in [Cpu -> PDs]
    /\ job \in [Cpu -> SUBSET Pages]
    /\ idx \in [Cpu -> 0..NumCpus]
    /\ snap \in [Cpu -> [Cpu -> 0..(CounterMod - 1)]]
    /\ waitfor \in [Cpu -> SUBSET Cpu]
    /\ others \in 0..OtherNmis

\* Pages whose translation a CPU holds although they were unmapped and marked.
OldEntries(c) ==
    {g \in tlb[c] : page[g] # "mapped" /\ \A d \in Cpu : pc[d] = "merge" => g \notin job[d]}

(* When shootdown() has returned, no CPU executes user code of the domain  *)
(* with a translation that was revoked.                                    *)
NoStaleUse ==
    \A c \in Cpu : pc[c] = "user" /\ cur[c] = Target
                   => \A g \in tlb[c] : page[g] # "revoked"

(* The need to flush is never forgotten for good: whenever a CPU has an    *)
(* outdated translation, stale_host_tlb says so, or the CPU has just taken *)
(* the mark and flushes next (the order of clr() and Hpt::flush() in       *)
(* handle_hazards, do_deferred_nmi_work and make_current).                 *)
StaleTracked ==
    \A c \in Cpu : OldEntries(c) # {} => c \in stale \/ pc[c] \in {"flush", "switch_flush"}

(* User code never runs while the GDT is cut down to its kernel part: the  *)
(* assertion on the GDT limit in Ec::handle_exc_altstack.                  *)
NoTrapInUser == \A c \in Cpu : pc[c] = "user" \/ innmi[c] => ~trap[c]

(* No work that an NMI stands for is forgotten: a CPU with old entries is  *)
(* marked until it flushes, and one that was interrupted in the kernel     *)
(* does not get to user space without looking (do_early_nmi_work,          *)
(* maybe_handle_deferred_nmi_work).                                        *)
NmiWorkKept == TypeOK /\ StaleTracked /\ NoTrapInUser

(* Every shootdown() returns, also when CPUs shoot at each other: a CPU    *)
(* that waits for another one still acknowledges NMIs itself.              *)
ShootdownReturns ==
    \A g \in Pages : page[g] = "unmapped" ~> page[g] = "revoked"
=============================================================================

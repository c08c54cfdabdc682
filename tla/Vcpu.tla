-------------------------------- MODULE Vcpu --------------------------------
(***************************************************************************)
(* Running and poking virtual CPUs (src/vcpu.cpp, src/ec_vmx.cpp): the     *)
(* ECs of a VMM take turns on one CPU, the home of all vCPUs; one other    *)
(* CPU pokes vCPUs, takes memory away from the guests and wakes ECs.  The  *)
(* NMI that each of these sends reaches the home CPU in user space, in the *)
(* guest or between any two steps of the kernel (src/ec_exc.cpp).          *)
(*                                                                         *)
(* One step is one access to memory that the two CPUs share.  The counter  *)
(* that acknowledges a shootdown is in TlbShootdown; here it is enough     *)
(* whether it moved since it was read.                                     *)
(***************************************************************************)
EXTENDS Naturals

CONSTANTS ECs,          \* ECs of the VMM, all on the home CPU
          VCPUs,        \* vCPUs, all created for the home CPU
          Passthrough,  \* those of a passthrough VM
          NoEc, NoVcpu, \* null pointers
          Sipi,         \* vCPUs that can be in wait-for-SIPI state
          Injected,     \* vCPUs into which the VMM injects events
          MaxRuns,      \* bound on the system calls of the VMM
          MaxCalls      \* bound on the system calls of the other CPU

ASSUME VcpuAssumption ==
    /\ Passthrough \subseteq VCPUs /\ Sipi \subseteq VCPUs /\ Injected \subseteq VCPUs
    /\ ECs # {} /\ NoEc \notin ECs /\ NoVcpu \notin VCPUs
    /\ MaxRuns \in Nat /\ MaxCalls \in Nat

VARIABLES pc,         \* where the home CPU is
          cur,        \* Ec::current() of the home CPU
          cont,       \* continuations of the ECs
          vcpu,       \* Ec::vcpu
          hazard,     \* Cpu::hazard of the home CPU
          nmi,        \* whether an NMI is pending there
          trap,       \* whether only the kernel part of the GDT is loaded
          spurious,   \* Cpu::seen_spurious_nmi
          might_lose, \* Cpu::might_lose_nmis
          vmcs,       \* the vCPU whose VMCS is current
          trashed,    \* vCPUs with a null HOST_SEL_CS
          owner,      \* Vcpu::owner
          poked,      \* Vcpu::poked
          entered,    \* Vcpu::has_entered
          mtf,        \* Vcpu::has_pending_mtf_trap
          reason,     \* exit_reason() of the vCPU that runs: run() resets it
          portal,     \* whether regs.dst_portal is VMX_POKED
          inj,        \* whether the state page asks for the injection of an event
          ent,        \* whether the VM-entry interruption information is valid
          vect,       \* whether the IDT vectoring information is valid
          sipi,       \* whether the state page has activity state 3
          pending,    \* whether the VMM still counts on an event to be injected
          dlv,        \* whether the guest is in the delivery of an injected event
          cached,     \* whether the guest TLB holds a translation of the page
          page,       \* a guest page: "mapped", "unmapped" or, to its revoker, "revoked"
          stale,      \* whether the home CPU is in stale_guest_tlb
          rpc, rv, acked, \* the other CPU: where it is, the vCPU it pokes, counter moved
          runs, calls     \* so far

cpustate == <<cur, cont, vcpu, runs>>
signals  == <<nmi, trap, spurious, might_lose, trashed>>
vstate   == <<entered, mtf, reason, portal>>
events   == <<inj, ent, vect, pending, dlv>>
memory   == <<cached, page, stale>>
remote   == <<rpc, rv, acked, calls>>
vars == <<pc, cpustate, hazard, signals, vmcs, owner, poked, vstate, events, sipi, memory, remote>>

Init ==
    /\ pc = "user" /\ cur = (CHOOSE e \in ECs : TRUE)
    /\ cont = [e \in ECs |-> "iret"] /\ vcpu = [e \in ECs |-> NoVcpu]
    /\ hazard = {} /\ nmi = FALSE /\ trap = FALSE /\ spurious = FALSE
    /\ might_lose = FALSE /\ vmcs = NoVcpu /\ trashed = {}
    /\ owner = [v \in VCPUs |-> NoEc] /\ poked = [v \in VCPUs |-> FALSE]
    /\ entered = [v \in VCPUs |-> FALSE] /\ mtf = [v \in VCPUs |-> FALSE]
    /\ reason = "NONE" /\ portal = [v \in VCPUs |-> FALSE]
    /\ inj = [v \in VCPUs |-> FALSE] /\ ent = [v \in VCPUs |-> FALSE]
    /\ vect = FALSE /\ sipi = [v \in VCPUs |-> FALSE]
    /\ pending = [v \in VCPUs |-> FALSE]
    /\ dlv = FALSE /\ cached = FALSE /\ page = "mapped" /\ stale = FALSE
    /\ rpc = "idle" /\ rv = NoVcpu /\ acked = TRUE
    /\ runs = 0 /\ calls = 0

V == vcpu[cur]
Set(f, v, x) == [f EXCEPT ![v] = x]
Goto(l) == pc' = l
InKernel == pc \notin {"user", "guest"}

\* Vcpu::synthesize_poked_exit.
synthesize_poked_exit ==
    /\ reason' = "POKED" /\ portal' = Set(portal, V, TRUE)

\* run() after it looked at poked: back to the VMM, or on to the VM entry with
\* the state page in the VMCS (save_vmx) and its mtd cleared.
run_after(return) ==
    /\ pc = "run_poked"
    /\ IF return
       THEN /\ synthesize_poked_exit /\ mtf' = Set(mtf, V, FALSE)
            /\ Goto("ret")
            /\ UNCHANGED <<entered, inj, ent>>
       ELSE /\ reason' = "NONE" /\ mtf' = Set(mtf, V, poked[V])
            /\ entered' = Set(entered, V, TRUE)
            /\ ent' = Set(ent, V, ent[V] \/ inj[V]) /\ inj' = Set(inj, V, FALSE)
            /\ Goto("tlb") /\ UNCHANGED portal
    /\ UNCHANGED <<cpustate, hazard, signals, vmcs, owner, poked, vect, pending, dlv, sipi, memory, remote>>

-----------------------------------------------------------------------------
(* Faulty variants, against which the properties are tried.                *)

\* A poked vCPU returns at once although there is an event to inject.
ReturnIfPoked == run_after(poked[V])

\* The NMI handler does not trash the VMCS.
NmiWithoutTrash ==
    /\ nmi /\ InKernel
    /\ nmi' = FALSE /\ acked' = TRUE /\ trap' = TRUE
    /\ UNCHANGED <<pc, cpustate, hazard, spurious, might_lose, trashed, vmcs, owner, poked, vstate,
                   events, sipi, memory, rpc, rv, calls>>

\* run() leaves the VMCS of the last vCPU current.
RunSameVmcs ==
    /\ pc = "run"
    /\ vmcs' = IF vmcs = NoVcpu THEN V ELSE vmcs
    /\ Goto("run_hazards")
    /\ UNCHANGED <<cpustate, hazard, signals, poked, owner, vstate, events, sipi, memory, remote>>

-----------------------------------------------------------------------------
(* Hazards and the way back to user space.                                 *)

\* Ec::handle_hazards.  Of the hazards, HZD_TLB concerns the host TLB here and
\* rrq_handler may queue an SC of a higher priority: this sets HZD_SCHED, but
\* the hazards in hand were read before.
handle_hazards(k, next) ==
    /\ hazard' \in IF "RRQ" \in hazard THEN {{}, {"SCHED"}} ELSE {{}}
    /\ IF "SCHED" \in hazard
       THEN /\ cont' = Set(cont, cur, k)
            /\ cur' \in ECs
            /\ Goto(cont'[cur'])
       ELSE Goto(next) /\ UNCHANGED <<cur, cont>>
    /\ UNCHANGED <<vcpu, runs>>

ret_user_iret ==
    /\ pc = "iret"
    /\ handle_hazards("iret", "iret_to_user")
    /\ UNCHANGED <<signals, vmcs, owner, poked, vstate, events, sipi, memory, remote>>

\* fixup_nmi_user_trap: the full GDT, and HOST_SEL_CS of the current VMCS.
fixup_nmi_user_trap ==
    /\ trap' = FALSE /\ trashed' = trashed \ {vmcs}

\* IRET faults when an NMI came in since; ret_user_iret then starts again.
iret_to_user ==
    /\ pc = "iret_to_user"
    /\ IF trap THEN Goto("iret") /\ fixup_nmi_user_trap
               ELSE Goto("user") /\ UNCHANGED <<trap, trashed>>
    /\ UNCHANGED <<cpustate, hazard, nmi, spurious, might_lose, vmcs, owner, poked, vstate,
                   events, sipi, memory, remote>>

\* The shootdown counter goes up.
do_early_nmi_work == acked' = TRUE

do_deferred_nmi_work ==
    hazard' \in IF "RRQ" \in hazard THEN {hazard \ {"TLB", "RRQ"}, {"SCHED"}} ELSE {hazard \ {"TLB"}}

\* The NMI handler when it interrupted the kernel.
NmiInKernel ==
    /\ nmi /\ InKernel
    /\ nmi' = FALSE /\ do_early_nmi_work /\ trap' = TRUE
    /\ trashed' = IF vmcs = NoVcpu THEN trashed ELSE trashed \cup {vmcs}
    /\ UNCHANGED <<pc, cpustate, hazard, spurious, might_lose, vmcs, owner, poked, vstate,
                   events, sipi, memory, rpc, rv, calls>>

\* The NMI handler when it interrupted user space.
NmiInUser ==
    /\ nmi /\ pc = "user"
    /\ nmi' = FALSE /\ do_early_nmi_work /\ do_deferred_nmi_work
    /\ UNCHANGED <<pc, cpustate, trap, spurious, might_lose, trashed, vmcs, owner, poked, vstate,
                   events, sipi, memory, rpc, rv, calls>>

-----------------------------------------------------------------------------
(* System calls of the VMM on the home CPU.                                *)

try_acquire(v) ==
    /\ owner[v] = NoEc
    /\ owner' = Set(owner, v, cur) /\ vcpu' = Set(vcpu, cur, v)

release_vcpu ==
    owner' = Set(owner, V, NoEc) /\ vcpu' = Set(vcpu, cur, NoVcpu)

\* sys_vcpu_ctrl_run: the VMM has prepared the state page; the call takes the
\* ownership or ends with BUSY.
sys_vcpu_ctrl_run(v, event, wait) ==
    /\ pc = "user"
    /\ runs < MaxRuns /\ runs' = runs + 1
    /\ \/ /\ try_acquire(v)
          /\ inj' = Set(inj, v, event) /\ pending' = Set(pending, v, event)
          /\ sipi' = Set(sipi, v, wait)
          /\ Goto("resume")
       \/ /\ owner[v] # NoEc /\ ~event /\ ~wait
          /\ Goto("iret") /\ UNCHANGED <<owner, vcpu, inj, pending, sipi>>
    /\ UNCHANGED <<cur, cont, hazard, signals, vmcs, poked, vstate, ent, vect, dlv, memory, remote>>

\* On the home CPU poke() sends no NMI.
sys_vcpu_ctrl_poke(v) ==
    /\ pc = "user"
    /\ runs < MaxRuns /\ runs' = runs + 1
    /\ poked' = Set(poked, v, TRUE) /\ Goto("iret")
    /\ UNCHANGED <<cur, cont, vcpu, hazard, signals, vmcs, owner, vstate, events, sipi, memory, remote>>

-----------------------------------------------------------------------------
(* Vcpu::run.                                                              *)

resume_vcpu ==
    /\ pc = "resume"
    /\ handle_hazards("resume", "run")
    /\ UNCHANGED <<signals, vmcs, owner, poked, vstate, events, sipi, memory, remote>>

\* A passthrough vCPU takes an NMI that nobody else claimed, as a poke.
fetch_spurious_nmi ==
    LET fetch == V \in Passthrough /\ spurious
    IN  /\ spurious' = (spurious /\ ~fetch)
        /\ poked' = Set(poked, V, poked[V] \/ fetch)

run ==
    /\ pc = "run"
    /\ vmcs' = V
    /\ fetch_spurious_nmi
    /\ Goto(IF sipi[V] THEN "run_sipi" ELSE "run_hazards")
    /\ UNCHANGED <<cpustate, hazard, nmi, trap, might_lose, trashed, owner, vstate, events, sipi,
                   memory, remote>>

run_sipi ==
    /\ \/ pc = "run_sipi" /\ might_lose' = TRUE /\ Goto("run_count") /\ UNCHANGED acked
       \/ pc = "run_count" /\ acked' = TRUE /\ Goto("run_hazards") /\ UNCHANGED might_lose
    /\ UNCHANGED <<cpustate, hazard, nmi, trap, spurious, trashed, vmcs, owner, poked, vstate, events,
                   sipi, memory, rpc, rv, calls>>

run_hazards ==
    /\ pc = "run_hazards"
    /\ handle_hazards("resume", "run_poked")
    /\ UNCHANGED <<signals, vmcs, owner, poked, vstate, events, sipi, memory, remote>>

\* A poke ends the run unless an event would be lost: then the monitor trap flag
\* ends it right after the injection.
run_poked == run_after(poked[V] /\ (entered[V] \/ ~inj[V]))

\* stale_guest_tlb is checked and cleared before INVEPT.
invalidate ==
    /\ \/ pc = "tlb" /\ ~stale /\ Goto("entry") /\ UNCHANGED <<stale, cached>>
       \/ pc = "tlb" /\ stale /\ stale' = FALSE /\ Goto("invept") /\ UNCHANGED cached
       \/ pc = "invept" /\ cached' = FALSE /\ Goto("entry") /\ UNCHANGED stale
    /\ UNCHANGED <<cpustate, hazard, signals, vmcs, owner, poked, vstate, events, sipi, page, remote>>

\* The FPU state or XCR0 of the VMM is not accepted.
RefuseEntry ==
    /\ pc = "entry"
    /\ reason' = "FAIL_STATE" /\ Goto("exit")
    /\ UNCHANGED <<cpustate, hazard, signals, vmcs, owner, poked, entered, mtf, portal, events, sipi,
                   memory, remote>>

\* vmresume: with a null HOST_SEL_CS the host state checks fail.
vmresume ==
    /\ pc = "entry"
    /\ IF vmcs \in trashed
       THEN reason' = "FAIL_VMENTRY" /\ Goto("exit") /\ UNCHANGED <<ent, dlv>>
       ELSE Goto("guest") /\ dlv' = ent[V] /\ ent' = Set(ent, V, FALSE) /\ UNCHANGED reason
    /\ UNCHANGED <<cpustate, hazard, signals, vmcs, owner, poked, entered, mtf, portal, inj, vect,
                   pending, sipi, memory, remote>>

-----------------------------------------------------------------------------
(* The guest.                                                              *)

GuestFill ==
    /\ pc = "guest" /\ ~sipi[V] /\ page = "mapped" /\ ~cached
    /\ cached' = TRUE
    /\ UNCHANGED <<pc, cpustate, hazard, signals, vmcs, owner, poked, vstate, events, sipi, page, stale, remote>>

GuestDelivered ==
    /\ pc = "guest" /\ dlv
    /\ dlv' = FALSE /\ pending' = Set(pending, V, FALSE)
    /\ UNCHANGED <<pc, cpustate, hazard, signals, vmcs, owner, poked, vstate, inj, ent, vect, sipi, memory, remote>>

\* A VM exit for reason r; it loads a GDT limit that covers user segments.
\* One in the middle of the delivery of an event reports the event.
VmExit(r) ==
    /\ pc = "guest"
    /\ reason' = r
    /\ vect' = dlv /\ dlv' = FALSE
    /\ trap' = FALSE
    /\ Goto("exit")
    /\ UNCHANGED <<cpustate, hazard, spurious, might_lose, trashed, vmcs, owner, poked, entered, mtf, portal,
                   inj, ent, pending, sipi, memory, remote>>

ExitNmi == pc = "guest" /\ nmi /\ ~sipi[V] /\ VmExit("NMI") /\ nmi' = FALSE

ExitMtf == pc = "guest" /\ mtf[V] /\ ~dlv /\ ~sipi[V] /\ VmExit("MTF") /\ UNCHANGED nmi

\* INIT is recognised between instructions.
ExitInit == pc = "guest" /\ V \in Sipi /\ ~dlv /\ VmExit("INIT") /\ UNCHANGED nmi

\* An exception (VMX_EXC_NMI too), and everything else the VMM handles.
ExitOther == \E r \in {"EXC", "OTHER"} : VmExit(r) /\ UNCHANGED nmi

\* In wait-for-SIPI state an NMI that was on its way is lost.
LoseNmi ==
    /\ pc = "guest" /\ sipi[V] /\ nmi
    /\ nmi' = FALSE
    /\ UNCHANGED <<pc, cpustate, hazard, trap, spurious, might_lose, trashed, vmcs, owner, poked, vstate,
                   events, sipi, memory, remote>>

-----------------------------------------------------------------------------
(* Vcpu::handle_vmx.                                                       *)

\* Entry failed because of an NMI: repair and try again.  Any other failure is
\* the VMM's.
maybe_handle_invalid_guest_state ==
    /\ reason \in {"FAIL_VMENTRY", "FAIL_STATE"}
    /\ IF vmcs \in trashed
       THEN fixup_nmi_user_trap /\ Goto("resume")
       ELSE Goto("ret") /\ UNCHANGED <<trap, trashed>>
    /\ UNCHANGED <<hazard, spurious, reason, portal, events, sipi, acked>>

\* An event whose delivery was interrupted is injected again.
reinject == ent' = Set(ent, V, ent[V] \/ vect)

\* An NMI without a hazard is taken for one of the passthrough guest.
handle_nmi ==
    /\ reason = "NMI"
    /\ reinject /\ do_early_nmi_work
    /\ IF hazard = {}
       THEN spurious' = TRUE /\ synthesize_poked_exit /\ Goto("ret")
       ELSE Goto("resume") /\ UNCHANGED <<spurious, reason, portal>>
    /\ UNCHANGED <<hazard, trap, trashed, inj, vect, pending, dlv, sipi>>

handle_exception ==
    /\ reason = "EXC"
    /\ reinject /\ Goto("ret")
    /\ UNCHANGED <<hazard, trap, spurious, trashed, reason, portal, inj, vect, pending, dlv, sipi, acked>>

handle_init ==
    /\ reason = "INIT"
    /\ sipi' = Set(sipi, V, TRUE) /\ Goto("resume")
    /\ UNCHANGED <<hazard, trap, spurious, trashed, reason, portal, events, acked>>

\* The MTF exit that a poke asked for is not shown to the VMM.
handle_other ==
    /\ reason \in {"MTF", "OTHER"}
    /\ IF reason = "MTF" /\ mtf[V] THEN synthesize_poked_exit ELSE UNCHANGED <<reason, portal>>
    /\ Goto("ret")
    /\ UNCHANGED <<hazard, trap, spurious, trashed, events, sipi, acked>>

handle_vmx ==
    /\ pc = "exit"
    /\ might_lose' = FALSE
    /\ \/ maybe_handle_invalid_guest_state
       \/ handle_nmi
       \/ handle_exception
       \/ handle_init
       \/ handle_other
    /\ mtf' = Set(mtf, V, FALSE)
    /\ UNCHANGED <<cpustate, nmi, vmcs, owner, poked, entered, memory, rpc, rv, calls>>

-----------------------------------------------------------------------------
(* Vcpu::return_to_vmm and Ec::sys_finish.                                 *)

\* What load_vmx puts into the state page as interruption information: of the
\* VM entry if the vCPU was poked, else of the VM exit and the vectoring.
reported(v) == IF portal[v] THEN ent[v] ELSE vect

return_to_vmm ==
    /\ pc = "ret"
    /\ IF entered[V]
       THEN /\ entered' = Set(entered, V, FALSE) /\ portal' = Set(portal, V, FALSE)
       ELSE UNCHANGED <<entered, portal>>
    /\ vect' = FALSE /\ pending' = Set(pending, V, FALSE)
    /\ poked' = Set(poked, V, FALSE)
    /\ Goto("finish")
    /\ UNCHANGED <<cpustate, hazard, signals, vmcs, owner, mtf, reason, inj, ent, dlv, sipi, memory, remote>>

\* sys_finish: release_vcpu, then out.  The VMM decides anew about the activity
\* state before the next run.
sys_finish ==
    /\ pc = "finish"
    /\ sipi' = Set(sipi, V, FALSE)
    /\ release_vcpu /\ Goto("iret")
    /\ UNCHANGED <<cur, cont, runs, hazard, signals, vmcs, poked, vstate, events, memory, remote>>

-----------------------------------------------------------------------------
(* The other CPU: one system call at a time.                               *)

RGoto(l) == rpc' = l
BeginCall == calls < MaxCalls /\ calls' = calls + 1
home == <<pc, cpustate, trap, spurious, might_lose, trashed, vmcs, owner, vstate, events, sipi>>

\* Lapic::send_nmi.
send_nmi == nmi' = (nmi \/ ~might_lose)

\* Vcpu::poke; if the flag was set already, the call returns and nothing changes.
poke(v) ==
    /\ rpc = "idle" /\ BeginCall
    /\ ~poked[v]
    /\ poked' = Set(poked, v, TRUE)
    /\ RGoto("poke_owner") /\ rv' = v
    /\ UNCHANGED <<home, hazard, nmi, memory, acked>>

poke_owner ==
    /\ \/ rpc = "poke_owner" /\ RGoto(IF owner[rv] = NoEc THEN "idle" ELSE "poke_remote") /\ UNCHANGED nmi
       \/ rpc = "poke_remote" /\ RGoto(IF owner[rv] = cur THEN "poke_send" ELSE "idle") /\ UNCHANGED nmi
       \/ rpc = "poke_send" /\ send_nmi /\ RGoto("idle")
    /\ rv' = IF rpc' = "idle" THEN NoVcpu ELSE rv
    /\ UNCHANGED <<home, hazard, poked, memory, acked, calls>>

\* Space_mem::delegate takes a page from the guest, and gives it back.
revoke ==
    /\ \/ rpc = "idle" /\ BeginCall /\ page # "unmapped" /\ page' = "unmapped" /\ RGoto("merge") /\ UNCHANGED stale
       \/ rpc = "merge" /\ stale' = TRUE /\ RGoto("scan") /\ UNCHANGED <<page, calls>>
    /\ UNCHANGED <<home, hazard, nmi, poked, cached, rv, acked>>

\* Space_mem::shootdown for the home CPU.
shootdown ==
    /\ \/ rpc = "scan" /\ RGoto(IF stale /\ "TLB" \notin hazard THEN "snap" ELSE "done")
          /\ UNCHANGED <<hazard, nmi, page, acked>>
       \/ rpc = "snap" /\ acked' = FALSE /\ RGoto("set") /\ UNCHANGED <<hazard, nmi, page>>
       \/ rpc = "set" /\ hazard' = hazard \cup {"TLB"} /\ RGoto("send") /\ UNCHANGED <<nmi, page, acked>>
       \/ rpc = "send" /\ send_nmi /\ RGoto(IF might_lose THEN "done" ELSE "wait")
          /\ UNCHANGED <<hazard, page, acked>>
       \/ rpc = "wait" /\ (acked \/ might_lose) /\ RGoto("done") /\ UNCHANGED <<hazard, nmi, page, acked>>
       \/ rpc = "done" /\ page' = "revoked" /\ RGoto("idle") /\ UNCHANGED <<hazard, nmi, acked>>
    /\ UNCHANGED <<home, poked, cached, stale, rv, calls>>

\* Sc::remote_enqueue.
remote_enqueue ==
    /\ \/ rpc = "idle" /\ BeginCall /\ "RRQ" \notin hazard /\ hazard' = hazard \cup {"RRQ"} /\ RGoto("wake") /\ UNCHANGED nmi
       \/ rpc = "wake" /\ send_nmi /\ RGoto("idle") /\ UNCHANGED <<hazard, calls>>
    /\ UNCHANGED <<home, poked, memory, rv, acked>>

-----------------------------------------------------------------------------
\* Steps the home CPU takes without being asked.
Kernel ==
    \/ ret_user_iret \/ iret_to_user \/ NmiInKernel \/ NmiInUser
    \/ resume_vcpu \/ run \/ run_sipi \/ run_hazards \/ run_poked \/ invalidate \/ vmresume
    \/ GuestDelivered \/ ExitNmi \/ ExitMtf
    \/ handle_vmx \/ return_to_vmm \/ sys_finish

Remote == poke_owner \/ shootdown \/ remote_enqueue

Next ==
    \/ Kernel
    \/ \E v \in VCPUs : \/ \E e \in BOOLEAN, w \in BOOLEAN :
                              (e => v \in Injected) /\ (w => v \in Sipi /\ ~e) /\ sys_vcpu_ctrl_run(v, e, w)
                        \/ sys_vcpu_ctrl_poke(v)
                        \/ poke(v)
    \/ RefuseEntry \/ GuestFill \/ ExitInit \/ ExitOther \/ LoseNmi
    \/ Remote \/ revoke

Spec == Init /\ [][Next]_vars

FairSpec == Spec /\ WF_vars(Kernel) /\ WF_vars(poke_owner)

-----------------------------------------------------------------------------
(* Properties.                                                             *)

Locations ==
    {"user", "iret", "iret_to_user", "resume", "run", "run_sipi", "run_count", "run_hazards",
     "run_poked", "tlb", "invept", "entry", "guest", "exit", "ret", "finish"}

Flags ==
    /\ nmi \in BOOLEAN /\ trap \in BOOLEAN /\ spurious \in BOOLEAN /\ might_lose \in BOOLEAN
    /\ vect \in BOOLEAN /\ dlv \in BOOLEAN /\ cached \in BOOLEAN /\ stale \in BOOLEAN /\ acked \in BOOLEAN

Types ==
    /\ pc \in Locations
    /\ cur \in ECs /\ cont \in [ECs -> {"iret", "resume"}] /\ vcpu \in [ECs -> VCPUs \cup {NoVcpu}]
    /\ hazard \subseteq {"TLB", "RRQ", "SCHED"}
    /\ vmcs \in VCPUs \cup {NoVcpu} /\ trashed \subseteq VCPUs
    /\ owner \in [VCPUs -> ECs \cup {NoEc}]
    /\ poked \in [VCPUs -> BOOLEAN] /\ entered \in [VCPUs -> BOOLEAN] /\ mtf \in [VCPUs -> BOOLEAN]
    /\ portal \in [VCPUs -> BOOLEAN] /\ inj \in [VCPUs -> BOOLEAN] /\ ent \in [VCPUs -> BOOLEAN]
    /\ sipi \in [VCPUs -> BOOLEAN] /\ pending \in [VCPUs -> BOOLEAN]
    /\ reason \in {"NONE", "POKED", "FAIL_STATE", "FAIL_VMENTRY", "NMI", "MTF", "INIT", "EXC", "OTHER"}
    /\ page \in {"mapped", "unmapped", "revoked"}
    /\ rpc \in {"idle", "poke_owner", "poke_remote", "poke_send", "merge", "scan", "snap", "set",
                "send", "wait", "done", "wake"}
    /\ rv \in VCPUs \cup {NoVcpu}
    /\ runs \in 0..MaxRuns /\ calls \in 0..MaxCalls

TypeOK == Flags /\ Types

\* Owners and vCPUs refer to each other, and who runs a vCPU has its VMCS.
Owned ==
    /\ \A v \in VCPUs, e \in ECs : vcpu[e] = v <=> owner[v] = e
    /\ pc \notin {"user", "iret", "iret_to_user"} => owner[V] = cur
    /\ pc \in {"run_poked", "tlb", "invept", "entry", "guest", "exit"} => vmcs = V
    /\ pc = "ret" /\ entered[V] => vmcs = V

\* A vCPU is run by the one EC that owns it: try_acquire(), release() and the
\* assertions in run() and handle_vmx(); and the VMCS that the kernel reads and
\* writes for it is the current one, although NMIs, failed entries and other
\* ECs come between.
OwnerRuns == TypeOK /\ Owned

\* No guest runs with a translation of a page that a completed revocation took
\* from it, whichever VMCS was current when the NMI came in (the comment in
\* run() before the second handle_hazards), unless an NMI is about to interrupt
\* it or NMIs are announced to be lost.
GuestTlbFresh ==
    page = "revoked" /\ pc = "guest" /\ ~might_lose /\ ~nmi => ~cached

\* The same, whatever is announced: a CPU may announce that it loses NMIs only
\* for the vCPU that is in wait-for-SIPI state, and this one executes nothing.
NoGuestStale ==
    page = "revoked" /\ pc = "guest" /\ ~sipi[V] /\ ~nmi => ~cached

\* What load_vmx tells the VMM about interruptions fits the exit reason next to
\* it: of the VM entry for a poked vCPU, else of the VM exit.
PortalFitsReason ==
    pc = "ret" /\ entered[V] => /\ portal[V] => reason \in {"POKED", "FAIL_STATE"}
                                /\ reason = "POKED" => portal[V]

\* An event that the VMM asked run() to inject is injected, or the VMM is told
\* that it was not; pokes, NMIs and failed entries never make it disappear.
\* Exempt are an invalid state of the VMM's making, and the exits for which
\* PortalFitsReason is violated.
InjectionKept ==
    pc = "ret" /\ pending[V] =>
        \/ entered[V] /\ reported(V)
        \/ reason = "FAIL_STATE"
        \/ portal[V] /\ reason # "POKED"

\* A poked vCPU whose owner executes comes back to the VMM, unless the CPU
\* announces that it may lose NMIs: the flag, the owner and Ec::current are
\* looked at one after the other (poke()) while the vCPU is being entered.
PokeReturns ==
    \A v \in VCPUs :
        poked[v] /\ cur = owner[v] /\ ~might_lose
            ~> ~poked[v] \/ cur # owner[v] \/ might_lose
=============================================================================

------------------------------ MODULE Platform ------------------------------
(***************************************************************************)
(* The small parts that do not call each other while they work: the ticket *)
(* spinlock, bring-up and suspend, the ready queues, the vCPU state page,  *)
(* the slab allocator, the memory types and the port space.  Each is its   *)
(* own module; here they get variables of their own and their promises a   *)
(* name.  MCPlatform lets one of them, which, take steps, PlatformProofs   *)
(* proves what they promise.                                               *)
(***************************************************************************)
EXTENDS Spinlock

CONSTANTS \* Machine
          Procs, Bsp, Madt, NUM_CPU, SleepCalls, MaxSuspends, MaxWakeups,
          \* ReadyQueue
          Scs, Idle, Prio, MaxPrio, Wakers,
          \* StatePage
          Items, Passthrough, CrBits, FixSet, FixClr, Mon, Allowed0, Allowed1, Shift, TimerMax, MaxTicks,
          MaxRuns,
          \* Slab
          NumSlabs, Elem, Null,
          \* Mtrr
          Banks, Fixed, Regions, DefaultType, MaxOrder, AddrBits, Top,
          \* Ports
          PDs, Kern, Priv, PortBits, Rights, Masks, Subs, Receive

VARIABLES which,
          \* Machine
          mpc, apic_id, boot_lock, barrier, lowmem, backup, idle_ec, initial, hip, finalized,
          hazard, rq, prepared, in_progress, park_count, facs, saved_facs, slp, suspends, wakeups,
          \* ReadyQueue
          ready, prio_top, current, queue, blocked, hzds, nmi, trap, rpc, hzd, wpc,
          \* StatePage
          item, at, page, hw, mtd, entered, mtf, told, want, last, runs,
          \* Slab
          slabs, slive, sprev, snext, shead, scurr, sok,
          \* Mtrr
          msr, fixed, var_mtrr, region, tpc, tcur, tto, tnext, ttype, typed,
          \* Ports
          nodes, bmp

M == INSTANCE Machine WITH pc <- mpc
R == INSTANCE ReadyQueue WITH list <- ready, hazard <- hzds, pc <- rpc
S == INSTANCE StatePage
C == INSTANCE Slab WITH page <- slabs, live <- slive, prev <- sprev, next <- snext, head <- shead,
                        curr <- scurr, ok <- sok
T == INSTANCE Mtrr WITH pc <- tpc, cur <- tcur, to <- tto, next <- tnext, t <- ttype
Io == INSTANCE Ports

lock    == vars
machine == <<mpc, apic_id, boot_lock, barrier, lowmem, backup, idle_ec, initial, hip, finalized,
             hazard, rq, prepared, in_progress, park_count, facs, saved_facs, slp, suspends, wakeups>>
queues  == <<ready, prio_top, current, queue, blocked, hzds, nmi, trap, rpc, hzd, wpc>>
state   == <<item, at, page, hw, mtd, entered, mtf, told, want, last, runs>>
slab    == <<slabs, slive, sprev, snext, shead, scurr, sok>>
mtrr    == <<msr, fixed, var_mtrr, region, tpc, tcur, tto, tnext, ttype, typed>>
ports   == <<nodes, bmp>>

-----------------------------------------------------------------------------
(* The properties of the parts; those of Spinlock are its own.             *)

\* Boot, S3 and resume (Bootstrap, Lapic, Suspend, start.S): one CPU at a time
\* is on the boot path, low memory is lent once and given back, and no CPU serves
\* ECs before all have come up.
MachineSafe == M!MachineSafe

\* A CPU that Lapic::init starts or park_all_but_self parks serves ECs again.
ResumeCompletes == M!ResumeCompletes

\* Every SC runs, is blocked, or is linked into one queue once (Sc::ready_enqueue,
\* Sc::remote_enqueue, Sc::rrq_handler), and prio_top is the highest priority with
\* a ready SC whenever Sc::schedule looks (Sc::ready_dequeue).
QueuesExact == R!QueuesExact

\* SCs in the remote queue become ready (Sc::rrq_handler), whether the CPU idles
\* in MWAIT, is in the kernel or in user space.
RemoteDrained == R!RemoteDrained

\* The guest or EC continues with exactly what its VMM or handler wrote and
\* selected by the MTD bits, and with what it had itself otherwise (Utcb::save_vmx,
\* Utcb::load_vmx, Vcpu::mtd).
EntryExact == S!EntryExact

\* No state page gives the guest, and no reply an EC, what the kernel keeps for
\* itself (Exc_regs::set_cr0, vmx_set_cpu_ctrl0, Utcb::save_exc).
StateLegal == S!StateLegal

\* Slab_cache keeps each slab in its list once, the ones with room before curr and
\* the full ones behind it, and at most one empty one (Slab_cache::alloc, free).
SlabListExact == C!SlabListExact

\* Every page of physical memory that is handed to the roottask gets the type
\* that the MTRRs say, once (Mtrr_state::memtype, Space_mem::insert_root).
MemoryTyped == T!MemoryTyped

\* Bitmaps and trees of the port spaces agree and every port leads back to the
\* kernel; delegation, revocation and translation do what the caller's window
\* and rights say (Space_pio::update, Pd::del_crd, Pd::revoke, Pd::xlt_crd).
PortsExact == Io!PortsHeld /\ Io!TransferExact
=============================================================================

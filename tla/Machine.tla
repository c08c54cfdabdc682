------------------------------- MODULE Machine -------------------------------
(***************************************************************************)
(* Boot, suspend and resume: start.S, bootstrap.cpp, the CPU start and     *)
(* parking code of lapic.cpp, suspend.cpp and the parts of acpi.cpp,       *)
(* cpulocal.cpp and hip.cpp that they use.                                 *)
(*                                                                         *)
(* A processor is named by its APIC id. The bootstrap processor (BSP)      *)
(* prepares a trampoline in low memory and starts all others with a        *)
(* broadcast; they initialise themselves one at a time under boot_lock, on *)
(* one stack, and meet at a barrier. A suspend parks every CPU but the     *)
(* caller, points the firmware at a trampoline in the same low memory and  *)
(* loses all processor state; the resume goes through the same bootstrap.  *)
(***************************************************************************)
EXTENDS Integers, FiniteSets, Sequences

CONSTANTS
  Procs,        \* the APIC ids of the processors that the machine has
  Bsp,          \* the one whose IA32_APIC_BASE says BSP
  Madt,         \* the LAPIC entries of the MADT: [apic_id, enabled]
  NUM_CPU,      \* the size of the CPU tables
  SleepCalls,   \* the sleep states that user space asks for: <<caller, state>>
  MaxSuspends,  \* bound on the suspend calls
  MaxWakeups    \* bound on remote_enqueue()

VARIABLES
  pc,           \* what each processor executes
  apic_id,      \* Cpu::apic_id, filled up to Cpu::online
  boot_lock,    \* 1: the next CPU may initialise itself
  barrier,      \* Bootstrap::barrier
  lowmem,       \* the contents of low memory at CPUBOOT_ADDR
  backup,       \* __start_cpu_backup
  idle_ec,      \* the processors with an idle EC
  initial,      \* the local variable is_initial_boot of bootstrap()
  hip,          \* the processors listed in the HIP
  finalized,    \* Hip::finalize() has computed the checksum
  hazard,       \* the HZD_PRK and HZD_RRQ bits of each processor
  rq,           \* the processors with a nonempty remote ready queue
  prepared,     \* the ones that ran prepare_cpu_for_suspend()
  in_progress, park_count,
  facs, saved_facs, \* the waking vector in the FACS and its copy
  slp,          \* the sleep state that is being entered
  suspends, wakeups \* how often the bounded calls were made

start == <<boot_lock, barrier, lowmem, backup>>
boot == <<apic_id, idle_ec, initial, hip, finalized>>
work == <<hazard, rq, wakeups>>
sleep == <<prepared, in_progress, park_count, facs, saved_facs, slp, suspends>>
vars == <<pc, start, boot, work, sleep>>

Online == Len(apic_id)

\* parse_lapic(): an enabled entry takes the next number while there is room.
parse_lapic(ids, e) ==
  IF e.enabled /\ Len(ids) < NUM_CPU THEN Append(ids, e.apic_id) ELSE ids

\* The ids after the first i entries; the CPUs are the ones that the MADT lists.
Parsed[i \in 0..Len(Madt)] ==
  IF i = 0 THEN <<>> ELSE parse_lapic(Parsed[i - 1], Madt[i])
Ids == Parsed[Len(Madt)]
Listed == {Ids[i] : i \in 1..Len(Ids)}

\* The firmware lists a processor once and the BSP among the first NUM_CPU.
\* find_by_apic_id() takes an unused entry for the CPU with APIC id 0: if that
\* one is not listed, no entry may be left.
MachineAssumption ==
  /\ NUM_CPU \in Nat
  /\ Madt \in Seq([apic_id : Procs, enabled : BOOLEAN])
  /\ \A i, j \in 1..Len(Madt) :
       Madt[i].enabled /\ Madt[j].enabled /\ Madt[i].apic_id = Madt[j].apic_id => i = j
  /\ Bsp \in Listed
  /\ 0 \in Procs \ Listed => Len(Ids) = NUM_CPU

\* Sc::schedule() was reached: the CPU is in its idle loop or serves ECs.
Running == {"kernel", "user"}
\* Between taking boot_lock, which the BSP does not have to, and releasing it.
Serialized == {"init", "setup_cpulocal", "Cpu_init", "sipi", "resume", "resume_bsp", "release"}

At(p, l) == pc[p] = l
Goto(p, l) == pc' = [pc EXCEPT ![p] = l]

Init ==
  /\ pc = [p \in Procs |-> IF p = Bsp THEN "init" ELSE "off"]
  /\ apic_id = <<>> /\ boot_lock = 0 /\ barrier = 0
  /\ lowmem = "user" /\ backup = "none"
  /\ idle_ec = {} /\ initial = {} /\ hip = {} /\ finalized = FALSE
  /\ hazard = [p \in Procs |-> {}] /\ rq = {} /\ prepared = {}
  /\ in_progress = FALSE /\ park_count = 0
  /\ facs = "user" /\ saved_facs = "none" /\ slp = "S0"
  /\ suspends = 0 /\ wakeups = 0

-----------------------------------------------------------------------------
(* Start of a processor. *)

\* init() on the BSP: Acpi::setup() reads the tables, Hip::build() the rest.
init(p) ==
  /\ At(p, "init") /\ Goto(p, "setup_cpulocal")
  /\ apic_id' = Ids
  /\ UNCHANGED <<start, idle_ec, initial, hip, finalized, work, sleep>>

\* __start_cpu: the processor executes what low memory holds and jumps to the
\* function patched in. Anything else than our code runs away.
start_cpu(p) ==
  /\ At(p, "start_cpu")
  /\ Goto(p, IF lowmem = "start_all" THEN "lock"
             ELSE IF lowmem = "resume_bsp" THEN "resume" ELSE "runaway")
  /\ UNCHANGED <<start, boot, work, sleep>>

\* __start_all_hi: xchg %rbx, boot_lock with rbx = 0, until it returns 1.
lock(p) ==
  /\ At(p, "lock") /\ boot_lock = 1
  /\ boot_lock' = 0
  /\ Goto(p, "setup_cpulocal")
  /\ UNCHANGED <<barrier, lowmem, backup, boot, work, sleep>>

\* find_by_apic_id() looks at all NUM_CPU entries; the unused ones are 0.
find_by_apic_id(p) ==
  {i \in 0..NUM_CPU - 1 : p = IF i < Online THEN apic_id[i + 1] ELSE 0}

\* The first lines of bootstrap() and Cpu::init() follow on the CPU's stack.
setup_cpulocal(p) ==
  /\ At(p, "setup_cpulocal")
  /\ find_by_apic_id(p) # {}
  /\ initial' = IF p \in idle_ec THEN initial \ {p} ELSE initial \cup {p}
  /\ Goto(p, "Cpu_init")
  /\ UNCHANGED <<start, apic_id, idle_ec, hip, finalized, work, sleep>>

\* A processor that the MADT does not list lets the next one go and halts.
setup_cpulocal_fails(p) ==
  /\ At(p, "setup_cpulocal")
  /\ find_by_apic_id(p) = {}
  /\ boot_lock' = 1
  /\ Goto(p, "halt")
  /\ UNCHANGED <<barrier, lowmem, backup, boot, work, sleep>>

\* prepare_cpu_boot(): keep what low memory holds and put the trampoline there.
prepare_cpu_boot(type) == backup' = lowmem /\ lowmem' = type
restore_low_memory == lowmem' = backup /\ UNCHANGED backup

\* Hip::add_cpu(), on initial boot only.
add_cpu(p) == hip' = IF p \in initial THEN hip \cup {p} ELSE hip

\* Cpu::init() with Lapic::init(): the BSP sends INIT to all but itself.
Cpu_init_bsp(p) ==
  /\ At(p, "Cpu_init") /\ p = Bsp
  /\ prepare_cpu_boot("start_all")
  /\ pc' = [q \in Procs |-> IF q = p THEN "sipi" ELSE "wait_for_sipi"]
  /\ UNCHANGED <<boot_lock, barrier, boot, work, sleep>>

\* ... and then SIPI, which starts them one by one; the rest is local.
sipi(p) ==
  /\ At(p, "sipi")
  /\ pc' = [q \in Procs |-> IF q = p THEN "release"
                            ELSE IF At(q, "wait_for_sipi") THEN "start_cpu" ELSE pc[q]]
  /\ add_cpu(p)
  /\ UNCHANGED <<start, apic_id, idle_ec, initial, finalized, work, sleep>>

Cpu_init_ap(p) ==
  /\ At(p, "Cpu_init") /\ p # Bsp
  /\ Goto(p, "release")
  /\ add_cpu(p)
  /\ UNCHANGED <<start, apic_id, idle_ec, initial, finalized, work, sleep>>

\* release_next_cpu(); from here on the CPU touches its own data only.
release_next_cpu(p) ==
  /\ At(p, "release") /\ boot_lock' = 1
  /\ Goto(p, IF p \in initial THEN "create_idle_ec" ELSE "arrive")
  /\ UNCHANGED <<barrier, lowmem, backup, boot, work, sleep>>

create_idle_ec(p) ==
  /\ At(p, "create_idle_ec") /\ idle_ec' = idle_ec \cup {p}
  /\ Goto(p, "arrive")
  /\ UNCHANGED <<start, apic_id, initial, hip, finalized, work, sleep>>

\* wait_for_all_cpus(): Atomic::add, then spin.
arrive(p) ==
  /\ At(p, "arrive") /\ barrier' = barrier + 1
  /\ Goto(p, "wait")
  /\ UNCHANGED <<boot_lock, lowmem, backup, boot, work, sleep>>

wait_for_all_cpus(p) ==
  /\ At(p, "wait") /\ barrier = Online
  /\ Goto(p, IF p = Bsp THEN "restore" ELSE "kernel")
  /\ UNCHANGED <<start, boot, work, sleep>>

\* An assumption on the hardware, not a check of the code: a processor that is
\* not listed takes no part in the barrier, but it is through the trampoline
\* and halts again by the time all others are initialised.
UnlistedHalted == \A q \in Procs \ Listed : At(q, "halt")

\* The end of bootstrap() on the BSP.
finalize(p) ==
  /\ At(p, "restore") /\ UnlistedHalted
  /\ restore_low_memory
  /\ finalized' = (finalized \/ p \in initial)
  /\ Goto(p, "kernel")
  /\ UNCHANGED <<boot_lock, barrier, apic_id, idle_ec, initial, hip, work, sleep>>

-----------------------------------------------------------------------------
(* Normal operation. *)

\* remote_enqueue() of an SC of CPU q: only the first one in the queue signals.
remote_enqueue(p, q) ==
  /\ At(p, "kernel") /\ q # p /\ q \in Listed /\ finalized /\ wakeups < MaxWakeups
  /\ wakeups' = wakeups + 1
  /\ rq' = rq \cup {q}
  /\ hazard' = IF q \in rq THEN hazard ELSE [hazard EXCEPT ![q] = @ \cup {"RRQ"}]
  /\ UNCHANGED <<pc, start, boot, sleep>>

\* handle_hazards() takes all bits; with HZD_PRK it does not come back.
handle_hazards(p) ==
  /\ At(p, "kernel") /\ hazard[p] # {}
  /\ hazard' = [hazard EXCEPT ![p] = {}]
  /\ IF "PRK" \in hazard[p] THEN Goto(p, "park_handler") /\ UNCHANGED rq
                            ELSE rq' = rq \ {p} /\ UNCHANGED pc
  /\ UNCHANGED <<wakeups, start, boot, sleep>>

\* The CPU leaves the kernel; the NMI that follows a hazard is not lost, but
\* do_deferred_nmi_work() does not park.
ret_user(p) ==
  /\ At(p, "kernel") /\ hazard[p] = {} /\ finalized /\ Goto(p, "user")
  /\ UNCHANGED <<start, boot, work, sleep>>

do_deferred_nmi_work(p) ==
  /\ At(p, "user") /\ "RRQ" \in hazard[p]
  /\ rq' = rq \ {p}
  /\ hazard' = [hazard EXCEPT ![p] = @ \ {"RRQ"}]
  /\ UNCHANGED <<pc, wakeups, start, boot, sleep>>

EnterKernel(p) ==
  /\ At(p, "user") /\ Goto(p, "kernel")
  /\ UNCHANGED <<start, boot, work, sleep>>

-----------------------------------------------------------------------------
(* Suspend and resume. *)

\* sys_machine_ctrl_suspend(): a bad sleep type, or someone else is at it.
suspend_refused(p) ==
  /\ At(p, "user") /\ suspends < MaxSuspends
  /\ \/ \E s \in SleepCalls : s[1] = p /\ s[2] = "bad"
     \/ in_progress
  /\ suspends' = suspends + 1
  /\ Goto(p, "kernel")
  /\ UNCHANGED <<start, boot, work, prepared, in_progress, park_count, facs, saved_facs, slp>>

\* suspend() up to the stores of park_all_but_self().
suspend(p) ==
  /\ At(p, "user") /\ suspends < MaxSuspends /\ ~in_progress
  /\ \E s \in SleepCalls : s[1] = p /\ s[2] # "bad" /\ slp' = s[2]
  /\ in_progress' = TRUE
  /\ park_count' = Online - 1
  /\ suspends' = suspends + 1
  /\ Goto(p, "park_all")
  /\ UNCHANGED <<start, boot, work, prepared, facs, saved_facs>>

\* The loop of park_all_but_self(): CPU by CPU in the order of their numbers.
park_all_but_self(p) ==
  LET ToPark == {i \in 1..Online : apic_id[i] # p /\ "PRK" \notin hazard[apic_id[i]]
                     /\ pc[apic_id[i]] \notin {"park_handler", "parked"}}
  IN  /\ At(p, "park_all")
      /\ IF ToPark = {}
         THEN Goto(p, "park_wait") /\ UNCHANGED hazard
         ELSE LET i == CHOOSE i \in ToPark : \A j \in ToPark : i <= j
              IN  hazard' = [hazard EXCEPT ![apic_id[i]] = @ \cup {"PRK"}] /\ UNCHANGED pc
      /\ UNCHANGED <<start, boot, rq, wakeups, sleep>>

\* prepare_cpu_for_suspend(): the idle EC becomes current, which saves the FPU
\* and loads the boot page table, and VMX goes off. Then the CPU halts.
park_handler(p) ==
  /\ At(p, "park_handler")
  /\ prepared' = prepared \cup {p}
  /\ park_count' = park_count - 1
  /\ Goto(p, "parked")
  /\ UNCHANGED <<start, boot, work, in_progress, facs, saved_facs, slp, suspends>>

\* All others are parked: the caller follows and prepares the wake-up.
set_waking_vector(p) ==
  /\ At(p, "park_wait") /\ park_count = 0
  /\ prepared' = prepared \cup {p}
  /\ saved_facs' = facs
  /\ prepare_cpu_boot("resume_bsp")
  /\ facs' = "start_cpu"
  /\ Goto(p, "sleep")
  /\ UNCHANGED <<boot_lock, barrier, boot, work, in_progress, park_count, slp, suspends>>

\* S3: the power goes off, and the firmware starts the BSP at the vector.
enter_sleep_state_S3(p) ==
  /\ At(p, "sleep") /\ slp = "S3"
  /\ pc' = [q \in Procs |-> IF q # Bsp THEN "off"
                            ELSE IF facs = "start_cpu" THEN "start_cpu" ELSE "runaway"]
  /\ UNCHANGED <<start, boot, work, sleep>>

\* S1: enter_sleep_state() returns and suspend() calls __resume_bsp.
enter_sleep_state_S1(p) ==
  /\ At(p, "sleep") /\ slp = "S1"
  /\ Goto(p, "resume")
  /\ UNCHANGED <<start, boot, work, sleep>>

\* Two ways to get the next step wrong: one of the two is not armed again.
BarrierKept(p) ==
  /\ At(p, "resume")
  /\ boot_lock' = 0 /\ UNCHANGED barrier
  /\ Goto(p, "resume_bsp")
  /\ UNCHANGED <<lowmem, backup, boot, work, sleep>>

LockKept(p) ==
  /\ At(p, "resume")
  /\ barrier' = 0 /\ UNCHANGED boot_lock
  /\ Goto(p, "resume_bsp")
  /\ UNCHANGED <<lowmem, backup, boot, work, sleep>>

\* __resume_bsp_hi arms the lock and the barrier again.
resume_bsp_hi(p) ==
  /\ At(p, "resume")
  /\ boot_lock' = 0 /\ barrier' = 0
  /\ Goto(p, "resume_bsp")
  /\ UNCHANGED <<lowmem, backup, boot, work, sleep>>

\* setup_cpulocal() and Suspend::resume_bsp().
resume_bsp(p) ==
  /\ At(p, "resume_bsp")
  /\ restore_low_memory
  /\ facs' = saved_facs
  /\ in_progress' = FALSE /\ prepared' = {} /\ slp' = "S0"
  /\ initial' = initial \ {p}
  /\ Goto(p, "Cpu_init")
  /\ UNCHANGED <<boot_lock, barrier, apic_id, idle_ec, hip, finalized, work, park_count,
                 saved_facs, suspends>>

-----------------------------------------------------------------------------
\* The steps that a processor takes by itself.
Step(p) ==
  \/ init(p) \/ start_cpu(p) \/ lock(p) \/ setup_cpulocal(p) \/ setup_cpulocal_fails(p)
  \/ Cpu_init_bsp(p) \/ sipi(p) \/ Cpu_init_ap(p) \/ release_next_cpu(p)
  \/ create_idle_ec(p) \/ arrive(p) \/ wait_for_all_cpus(p) \/ finalize(p)
  \/ handle_hazards(p) \/ do_deferred_nmi_work(p) \/ EnterKernel(p)
  \/ park_all_but_self(p) \/ park_handler(p) \/ set_waking_vector(p)
  \/ enter_sleep_state_S3(p) \/ enter_sleep_state_S1(p)
  \/ resume_bsp_hi(p) \/ resume_bsp(p)

Next ==
  \E p \in Procs :
    \/ Step(p)
    \/ ret_user(p) \/ suspend(p) \/ suspend_refused(p)
    \/ \E q \in Procs : remote_enqueue(p, q)

Spec == Init /\ [][Next]_vars

\* Every processor keeps executing; user code enters the kernel now and then,
\* which is what parking relies on.
Fairness == \A p \in Procs : WF_vars(Step(p))

FairSpec == Spec /\ Fairness

-----------------------------------------------------------------------------
\* One CPU at a time is on the boot stack and in the serialised part of the
\* initialisation, after a resume too (boot_lock).
BootExclusive ==
  \A p, q \in Procs : pc[p] \in Serialized /\ pc[q] \in Serialized => p = q

\* A CPU that starts finds the trampoline made for it, and the backup is what
\* user space had there, however often low memory is taken (prepare_cpu_boot).
TrampolineThere ==
  /\ \A p \in Listed : ~At(p, "runaway")
  /\ \A p \in Listed : At(p, "start_cpu") =>
       lowmem = IF p = Bsp THEN "resume_bsp" ELSE "start_all"
  /\ lowmem # "user" => backup = "user"

\* When the BSP serves ECs again and no suspend is under way, user space finds
\* its memory and its FACS unchanged, and the HIP lists all CPUs.
Restored ==
  /\ pc[Bsp] \in Running /\ ~in_progress => lowmem = "user" /\ facs = "user"
  /\ finalized => hip = Listed

\* No CPU runs ECs unless all have arrived, and the machine goes to sleep only
\* when every CPU has saved its state and left the user page tables.
AllTogether ==
  /\ \A p \in Listed : pc[p] \in Running \cup {"restore"} =>
       \A q \in Listed : pc[q] \in Running \cup {"wait", "restore", "park_all", "park_wait",
                                                 "park_handler", "parked", "sleep"}
  /\ (\E p \in Procs : At(p, "sleep")) =>
       /\ prepared = Listed
       /\ \A p \in Listed : pc[p] \in {"parked", "sleep"}

\* The machine boots, sleeps and wakes up without losing a CPU's place, low
\* memory or the FACS (suspend.cpp, bootstrap.cpp, lapic.cpp).
MachineSafe == BootExclusive /\ TrampolineThere /\ Restored /\ AllTogether

\* A CPU that is parked for a suspend serves ECs again, and one that is started
\* gets through the barrier.
ResumeCompletes ==
  \A p \in Listed : pc[p] \in {"park_handler", "start_cpu", "wait"} ~> pc[p] \in Running

\* What a suspend must not lose: SCs that wait in a remote ready queue are
\* signalled while their CPU runs (handle_hazards takes HZD_RRQ with HZD_PRK).
WakeupsKept ==
  \A p \in rq : pc[p] \in Running => "RRQ" \in hazard[p]
=============================================================================

--------------------------- MODULE PlatformProofs ---------------------------
(***************************************************************************)
(* Proofs about the small parts that MCPlatform checks side by side: the   *)
(* ticket spinlock, bring-up and suspend, the ready queues, the vCPU state *)
(* page, the slab allocator, the memory types and the port space.  Every   *)
(* theorem holds for all values of the part's constants that satisfy its   *)
(* assumption.                                                             *)
(*                                                                         *)
(* The lock comes first.  Its inductive invariant says that the tickets in *)
(* use are distinct and lie in the window from served_ticket up to, but    *)
(* not including, next_ticket, and that the window is as wide as there are *)
(* CPUs with a ticket: it can therefore never close by wrapping around.    *)
(***************************************************************************)
EXTENDS Platform, Sequences, FiniteSetTheorems, WellFoundedInduction, TLAPS

\* The tickets in use are distinct, in the window, and as many as it is wide.
Window ==
    /\ \A c \in Active : Place(c) < Ahead(served_ticket, next_ticket)
    /\ \A c, d \in Active : c # d => our_ticket[c] # our_ticket[d]
    /\ Ahead(served_ticket, next_ticket) = Cardinality(Active)

\* Whoever is inside has the ticket that is served, and its plain read holds.
HolderServed ==
    /\ \A c \in Inside : our_ticket[c] = served_ticket
    /\ PlainReadIsStable

IInv == TypeOK /\ Window /\ HolderServed

\* The modular increment of a ticket, without the modulus.
LEMMA IncCases ==
    ASSUME NEW t \in Ticket
    PROVE  /\ Inc(t) \in Ticket
           /\ Inc(t) = IF t = TicketMod - 1 THEN 0 ELSE t + 1
  <1>1. TicketMod \in Nat /\ TicketMod > 0
    <2>1. Cardinality(CPUs) \in Nat
      BY TicketAssumption, FS_CardinalityType
    <2> QED
      BY <2>1, TicketAssumption
  <1>2. t \in Int /\ 0 <= t /\ t <= TicketMod - 1
    BY <1>1 DEF Ticket
  <1>3. CASE t = TicketMod - 1
    <2>1. Inc(t) = TicketMod % TicketMod
      BY <1>1, <1>3 DEF Inc
    <2>2. TicketMod % TicketMod = 0
      BY <1>1
    <2> QED
      BY <1>1, <1>3, <2>1, <2>2 DEF Ticket
  <1>4. CASE t # TicketMod - 1
    <2>1. t + 1 \in 0..(TicketMod - 1)
      BY <1>1, <1>2, <1>4
    <2>2. (t + 1) % TicketMod = t + 1
      BY <1>1, <2>1
    <2> QED
      BY <1>1, <1>4, <2>1, <2>2 DEF Inc, Ticket
  <1> QED
    BY <1>3, <1>4

\* There is at least one ticket more than there are CPUs.
LEMMA TicketModPositive ==
    TicketMod \in Nat /\ TicketMod > 0 /\ Cardinality(CPUs) \in Nat
  BY TicketAssumption, FS_CardinalityType

\* The CPUs with a ticket are finitely many, and fewer than all as long as one
\* CPU has none.
LEMMA ActiveFinite ==
    /\ IsFiniteSet(Active)
    /\ Cardinality(Active) \in Nat
    /\ \A c \in CPUs : c \notin Active => Cardinality(Active) < Cardinality(CPUs)
  <1>1. IsFiniteSet(Active) /\ Cardinality(Active) \in Nat
    BY TicketAssumption, FS_Subset, FS_CardinalityType DEF Active
  <1>2. ASSUME NEW c \in CPUs, c \notin Active
        PROVE  Cardinality(Active) < Cardinality(CPUs)
    <2>1. Active \subseteq CPUs /\ Active # CPUs
      BY <1>2 DEF Active
    <2> QED
      BY <2>1, TicketAssumption, FS_Subset, FS_CardinalityType
  <1> QED
    BY <1>1, <1>2

LEMMA InitIInv == Init => IInv
  <1> SUFFICES ASSUME Init PROVE IInv
    OBVIOUS
  <1>1. TypeOK
    BY TicketModPositive DEF Init, TypeOK, Ticket
  <1>2. Active = {} /\ Inside = {}
    BY DEF Init, Active, Inside
  <1>3. Window
    <2>1. Cardinality(Active) = 0
      BY <1>2, FS_EmptySet
    <2> QED
      BY <1>2, <2>1 DEF Window, Ahead, Init
  <1>4. HolderServed
    BY <1>2 DEF HolderServed, PlainReadIsStable, Init
  <1> QED
    BY <1>1, <1>3, <1>4 DEF IInv

\* A CPU that takes a ticket joins the end of the window.
LEMMA TakeTicketIInv ==
    ASSUME IInv, NEW c \in CPUs, TakeTicket(c)
    PROVE  IInv'
  <1> USE DEF IInv
  <1>1. TypeOK'
    BY IncCases DEF TakeTicket, TypeOK
  <1>2. c \notin Active /\ Active' = Active \cup {c} /\ Inside' = Inside
    BY DEF Active, Inside, TakeTicket, TypeOK
  <1>3. Cardinality(Active') = Cardinality(Active) + 1
    BY <1>2, ActiveFinite, FS_AddElement
  <1>4. Cardinality(Active) + 1 < TicketMod
    BY <1>2, ActiveFinite, TicketModPositive, TicketAssumption
  <1>5. Ahead(served_ticket, next_ticket)' = Ahead(served_ticket, next_ticket) + 1
    <2>1. Ahead(served_ticket, next_ticket) + 1 < TicketMod
      BY <1>4 DEF Window
    <2>2. next_ticket' = IF next_ticket = TicketMod - 1 THEN 0 ELSE next_ticket + 1
      BY IncCases DEF TakeTicket, TypeOK
    <2> QED
      BY <2>1, <2>2, TicketModPositive DEF Ahead, TakeTicket, TypeOK, Ticket
  <1>6. \A d \in Active : our_ticket'[d] = our_ticket[d] /\ Place(d)' = Place(d)
    BY <1>2 DEF TakeTicket, TypeOK, Place, Ahead, Active
  <1>7. our_ticket'[c] = next_ticket /\ Place(c)' = Ahead(served_ticket, next_ticket)
    BY DEF TakeTicket, TypeOK, Place, Ahead
  <1>8. \A d \in Active : our_ticket[d] # next_ticket
    <2>1. \A d \in Active : Ahead(served_ticket, our_ticket[d]) < Ahead(served_ticket, next_ticket)
      BY DEF Window, Place
    <2>2. \A d \in Active : Ahead(served_ticket, our_ticket[d]) \in Int
      BY TicketModPositive DEF Ahead, TypeOK, Active, Ticket
    <2> QED
      BY <2>1, <2>2
  <1>9. Window'
    <2>1. Ahead(served_ticket, next_ticket) \in Int
      BY TicketModPositive DEF Ahead, TypeOK, Ticket
    <2>2. \A d \in Active : Place(d) \in Int
      BY TicketModPositive DEF Ahead, Place, TypeOK, Active, Ticket
    <2>3. (\A d \in Active : Place(d) < Ahead(served_ticket, next_ticket))'
      BY <1>2, <1>5, <1>6, <1>7, <2>1, <2>2 DEF Window
    <2>4. (\A d, e \in Active : d # e => our_ticket[d] # our_ticket[e])'
      BY <1>2, <1>6, <1>7, <1>8 DEF Window
    <2>5. (Ahead(served_ticket, next_ticket) = Cardinality(Active))'
      BY <1>3, <1>5 DEF Window
    <2> QED
      BY <2>3, <2>4, <2>5 DEF Window
  <1>10. HolderServed'
    BY <1>2, <1>6 DEF HolderServed, PlainReadIsStable, Active, Inside, TakeTicket, TypeOK
  <1> QED
    BY <1>1, <1>9, <1>10

\* The loop ends for the CPU whose ticket is served.
LEMMA AcquireIInv ==
    ASSUME IInv, NEW c \in CPUs, Acquire(c)
    PROVE  IInv'
  <1> USE DEF IInv
  <1>1. TypeOK'
    BY DEF Acquire, TypeOK
  <1>2. Active' = Active /\ Inside' = Inside \cup {c}
    BY DEF Active, Inside, Acquire, TypeOK
  <1>3. Window'
    BY <1>2 DEF Window, Place, Ahead, Acquire
  <1>4. HolderServed'
    BY <1>2 DEF HolderServed, PlainReadIsStable, Acquire, TypeOK
  <1> QED
    BY <1>1, <1>3, <1>4

\* The plain read changes no shared state.
LEMMA ReadServedIInv ==
    ASSUME IInv, NEW c \in CPUs, ReadServed(c)
    PROVE  IInv'
  <1> USE DEF IInv
  <1>1. TypeOK'
    BY IncCases DEF ReadServed, TypeOK
  <1>2. Active' = Active /\ Inside' = Inside
    BY DEF Active, Inside, ReadServed, TypeOK
  <1>3. Window'
    BY <1>2 DEF Window, Place, Ahead, ReadServed
  <1>4. HolderServed'
    BY <1>2 DEF HolderServed, PlainReadIsStable, ReadServed, TypeOK
  <1> QED
    BY <1>1, <1>3, <1>4

\* The holder leaves and the window shrinks from its head by one.
LEMMA ReleaseIInv ==
    ASSUME IInv, NEW c \in CPUs, Release(c)
    PROVE  IInv'
  <1> USE DEF IInv
  <1>1. TypeOK'
    BY DEF Release, TypeOK
  <1>2. /\ c \in Active /\ c \in Inside
        /\ Active' = Active \ {c} /\ Inside' = Inside \ {c}
    BY DEF Active, Inside, Release, TypeOK
  <1>3. our_ticket[c] = served_ticket /\ our_ticket' = our_ticket
        /\ next_ticket' = next_ticket
    BY <1>2 DEF HolderServed, Release
  <1>4. served_ticket' = IF served_ticket = TicketMod - 1 THEN 0 ELSE served_ticket + 1
    BY IncCases DEF HolderServed, PlainReadIsStable, Release, TypeOK
  <1>5. Cardinality(Active') = Cardinality(Active) - 1
    BY <1>2, ActiveFinite, FS_RemoveElement
  <1>6. \A d \in Active \ {c} : Place(d)' = Place(d) - 1 /\ our_ticket[d] # served_ticket
    <2>1. \A d \in Active \ {c} : our_ticket[d] # served_ticket /\ our_ticket[d] \in Ticket
      BY <1>2, <1>3 DEF Window, TypeOK, Active
    <2> QED
      BY <1>3, <1>4, <2>1, TicketModPositive DEF Place, Ahead, TypeOK, Ticket
  <1>7. Ahead(served_ticket, next_ticket)' = Ahead(served_ticket, next_ticket) - 1
    <2>1. Place(c) = 0 /\ Place(c) < Ahead(served_ticket, next_ticket)
      BY <1>2, <1>3 DEF Window, Place, Ahead, TypeOK, Ticket
    <2>2. next_ticket # served_ticket
      BY <2>1 DEF Ahead, TypeOK, Ticket
    <2> QED
      BY <1>3, <1>4, <2>2, TicketModPositive DEF Ahead, TypeOK, Ticket
  <1>8. Window'
    <2>1. Ahead(served_ticket, next_ticket) \in Int
      BY TicketModPositive DEF Ahead, TypeOK, Ticket
    <2>2. \A d \in Active : Place(d) \in Int
      BY TicketModPositive DEF Ahead, Place, TypeOK, Active, Ticket
    <2>3. (\A d \in Active : Place(d) < Ahead(served_ticket, next_ticket))'
      BY <1>2, <1>6, <1>7, <2>1, <2>2 DEF Window
    <2>4. (\A d, e \in Active : d # e => our_ticket[d] # our_ticket[e])'
      BY <1>2, <1>3 DEF Window
    <2>5. (Ahead(served_ticket, next_ticket) = Cardinality(Active))'
      BY <1>5, <1>7 DEF Window
    <2> QED
      BY <2>3, <2>4, <2>5 DEF Window
  <1>9. Inside' = {}
    BY <1>2, <1>3 DEF HolderServed, Window, Active, Inside
  <1>10. HolderServed'
    BY <1>1, <1>9 DEF HolderServed, PlainReadIsStable, Inside
  <1> QED
    BY <1>1, <1>8, <1>10

LEMMA NextIInv == IInv /\ [Next]_vars => IInv'
  <1> SUFFICES ASSUME IInv, [Next]_vars PROVE IInv'
    OBVIOUS
  <1>1. ASSUME NEW c \in CPUs, TakeTicket(c) PROVE IInv'
    BY <1>1, TakeTicketIInv
  <1>2. ASSUME NEW c \in CPUs, Acquire(c) PROVE IInv'
    BY <1>2, AcquireIInv
  <1>3. ASSUME NEW c \in CPUs, ReadServed(c) PROVE IInv'
    BY <1>3, ReadServedIInv
  <1>4. ASSUME NEW c \in CPUs, Release(c) PROVE IInv'
    BY <1>4, ReleaseIInv
  <1>5. CASE UNCHANGED vars
    BY <1>5 DEF vars, IInv, TypeOK, Window, HolderServed, PlainReadIsStable,
                Active, Inside, Place, Ahead
  <1> QED
    BY <1>1, <1>2, <1>3, <1>4, <1>5 DEF Next

\* The inductive invariant gives the three safety properties of the lock.
LEMMA IInvSafe == IInv => MutualExclusion /\ UnlockAssertion /\ PlainReadIsStable
  <1> SUFFICES ASSUME IInv PROVE MutualExclusion /\ UnlockAssertion /\ PlainReadIsStable
    OBVIOUS
  <1> USE DEF IInv
  <1>1. MutualExclusion
    BY DEF MutualExclusion, HolderServed, Window, Active, Inside
  <1>2. UnlockAssertion
    <2> SUFFICES ASSUME NEW c \in Inside PROVE next_ticket # served_ticket
      BY DEF UnlockAssertion, is_locked
    <2>1. c \in Active /\ our_ticket[c] = served_ticket
      BY DEF HolderServed, Active, Inside
    <2>2. Place(c) < Ahead(served_ticket, next_ticket) /\ Place(c) = 0
      BY <2>1 DEF Window, Place, Ahead, TypeOK, Ticket
    <2> QED
      BY <2>2 DEF Ahead, TypeOK, Ticket
  <1> QED
    BY <1>1, <1>2 DEF HolderServed

\* The inductive invariant holds in every reachable state.
THEOREM SpinlockInvariant == Spec => []IInv
  BY InitIInv, NextIInv, PTL DEF Spec

\* Tickets stay in the range of their type in every reachable state.
THEOREM SpinlockTypeOK == Spec => []TypeOK
  <1>1. IInv => TypeOK
    BY DEF IInv
  <1> QED
    BY <1>1, SpinlockInvariant, PTL

\* Two CPUs are never between Spinlock::lock() and Spinlock::unlock(), for every
\* number of CPUs below the number of tickets.
THEOREM SpinlockMutualExclusion == Spec => []MutualExclusion
  BY IInvSafe, SpinlockInvariant, PTL

\* The assertion in Spinlock::unlock() never fires under the static_assert on
\* NUM_CPU.
THEOREM SpinlockUnlockAssertion == Spec => []UnlockAssertion
  BY IInvSafe, SpinlockInvariant, PTL

\* The plain read of served_ticket in Spinlock::unlock() is still right when
\* the new value is stored.
THEOREM SpinlockPlainRead == Spec => []PlainReadIsStable
  BY IInvSafe, SpinlockInvariant, PTL

-----------------------------------------------------------------------------
(* Numbers.                                                                *)

\* A set of natural numbers that is not empty has a smallest element.
LEMMA Smallest ==
    ASSUME NEW N, N \subseteq Nat, N # {}
    PROVE  \E n \in N : \A m \in N : n <= m
  <1> DEFINE Less == {ss \in Nat \X Nat : ss[1] < ss[2]}
  <1>1. IsWellFoundedOn(Less, Nat)
    BY NatLessThanWellFounded DEF OpToRel
  <1> HIDE DEF Less
  <1>2. \E n \in N : \A m \in N : ~ (<<m, n>> \in Less)
    BY <1>1, WFMin
  <1>3. ASSUME NEW m \in Nat, NEW n \in Nat, m < n PROVE <<m, n>> \in Less
    BY <1>3 DEF Less
  <1>4. \A m \in Nat, n \in Nat : ~(m < n) => n <= m
    OBVIOUS
  <1> QED
    BY <1>2, <1>3, <1>4

-----------------------------------------------------------------------------
(* Bring-up, suspend and resume (Machine).                                 *)

\* Past the barrier's counter, on the way to it once the BSP has sent the SIPI, and
\* the steps of the BSP with the trampoline in low memory.
MLate == {"wait", "restore", "kernel", "user", "park_all", "park_wait", "park_handler", "parked", "sleep"}
MEarly == {"start_cpu", "lock", "setup_cpulocal", "Cpu_init", "release", "create_idle_ec", "arrive"}
MBoot == {"release", "create_idle_ec", "arrive", "wait", "restore"}
MCaller == {"park_all", "park_wait", "sleep"}
MWork == {"restore", "kernel", "user", "park_all", "park_wait", "park_handler", "sleep"}
MLabels == MLate \cup MEarly \cup {"init", "off", "sipi", "resume", "resume_bsp", "wait_for_sipi", "halt"}
MWaking(p) == mpc[p] \in {"resume", "resume_bsp"} \/ (p = Bsp /\ mpc[p] = "start_cpu")
MSolo(p) == MWaking(p) \/ (p = Bsp /\ mpc[p] \in {"init", "setup_cpulocal", "Cpu_init"})
MQuiet(p) == \A q \in Procs \ {p} : mpc[q] \in {"off", "parked", "halt"}
MAsks(p) == mpc[p] \in MCaller \/ MWaking(p)
\* A processor other than the BSP that came back from S1 by itself.
MStuck(p) == p # Bsp /\ MQuiet(p) /\ p \notin initial

MTypes ==
    /\ mpc \in [Procs -> MLabels]
    /\ apic_id = IF mpc[Bsp] = "init" THEN <<>> ELSE M!Ids
    /\ boot_lock \in {0, 1} /\ barrier \in Nat /\ park_count \in Nat
    /\ hazard \in [Procs -> SUBSET {"PRK", "RRQ"}]
    /\ initial \subseteq M!Listed /\ hip \subseteq M!Listed /\ idle_ec \subseteq M!Listed
    /\ finalized \in BOOLEAN /\ in_progress \in BOOLEAN

MWhere ==
    /\ \A p \in Procs \ M!Listed :
         /\ mpc[p] \in {"off", "wait_for_sipi", "start_cpu", "lock", "setup_cpulocal", "halt"}
         /\ mpc[p] \in {"start_cpu", "lock", "setup_cpulocal"} => mpc[Bsp] \in MBoot
    /\ \A p \in M!Listed : mpc[p] # "halt"
    /\ mpc[Bsp] \notin {"lock", "wait_for_sipi", "off"}
    /\ \A p \in Procs \ {Bsp} : mpc[p] \notin {"init", "sipi", "restore"}
    /\ \A p \in Procs \ {Bsp} : mpc[p] = "wait_for_sipi" <=> mpc[Bsp] = "sipi"
    /\ \A p \in Procs : mpc[p] = "off" => MSolo(Bsp)
    /\ \A p \in Procs : MSolo(p) => MQuiet(p)
    /\ \A p \in M!Listed \ {Bsp} : mpc[p] \in MEarly =>
         mpc[Bsp] \in MBoot \/ (MStuck(p) /\ mpc[p] \in {"Cpu_init", "release", "arrive"})

MTogether ==
    /\ \A p \in M!Listed : mpc[p] \in MWork => \A q \in M!Listed : mpc[q] \in MLate
    /\ \A q \in M!Listed : mpc[q] = "wait" =>
         \/ \E p \in M!Listed : mpc[p] \in MWork
         \/ mpc[Bsp] \in MBoot
         \/ MStuck(q) /\ mpc[Bsp] = "parked"
    /\ \A q \in M!Listed : mpc[q] = "parked" =>
         \/ \E c \in M!Listed : mpc[c] \in MCaller
         \/ \E c \in M!Listed : /\ MQuiet(c)
                                /\ \/ mpc[c] \in {"resume", "resume_bsp", "Cpu_init"}
                                   \/ MStuck(c) /\ mpc[c] \in {"release", "arrive", "wait"}

MLock ==
    /\ M!BootExclusive
    /\ boot_lock = 1 => \A p \in Procs : mpc[p] \notin M!Serialized \ {"resume"}

MSleep ==
    /\ \A p, q \in Procs : MAsks(p) /\ MAsks(q) => p = q
    /\ in_progress <=> \E p \in Procs : MAsks(p)
    /\ \A c \in Procs : mpc[c] \in {"park_all", "park_wait"} => prepared = {q \in M!Listed : mpc[q] = "parked"}
    /\ \A c \in Procs : mpc[c] = "sleep" => prepared = M!Listed /\ \A q \in M!Listed \ {c} : mpc[q] = "parked"
    /\ ~in_progress => prepared = {}
    /\ \A q \in Procs : "PRK" \in hazard[q] \/ mpc[q] = "park_handler" =>
         q \in M!Listed /\ \E c \in M!Listed \ {q} : mpc[c] \in {"park_all", "park_wait"}
    /\ \A q \in Procs : "PRK" \in hazard[q] => mpc[q] \notin {"park_handler", "parked"}

MAsleep == \E p \in Procs : mpc[p] = "sleep" \/ MWaking(p)
MMemory ==
    /\ lowmem = IF mpc[Bsp] \in MBoot \cup {"sipi"} THEN "start_all"
                ELSE IF MAsleep THEN "resume_bsp" ELSE "user"
    /\ lowmem # "user" => backup = "user"
    /\ facs = IF MAsleep THEN "start_cpu" ELSE "user"
    /\ facs # "user" => saved_facs = "user"

MHip ==
    /\ finalized => hip = M!Listed
    /\ ~finalized =>
         /\ ~in_progress /\ \A p \in M!Listed : mpc[p] \notin {"user", "parked"}
         /\ \A p \in M!Listed : mpc[p] \in MLate \cup {"release", "create_idle_ec", "arrive"} => p \in hip
         /\ \A p \in M!Listed : mpc[p] \in {"Cpu_init", "sipi"} => p \in initial
         /\ \A p \in M!Listed : mpc[p] \in {"init", "off", "wait_for_sipi", "start_cpu", "lock", "setup_cpulocal"}
              => p \notin idle_ec

MArrived ==
    {p \in M!Listed : mpc[p] \in MLate /\ (mpc[p] = "parked" => \E c \in M!Listed : mpc[c] \in MCaller)}
MBarrier ==
    \/ \E p \in Procs : mpc[p] = "resume" \/ (p = Bsp /\ mpc[p] = "start_cpu")
    \/ barrier = Cardinality(MArrived)
MParking(c) == {q \in M!Listed \ {c} : mpc[q] # "parked"}
MCount == \A c \in Procs : mpc[c] \in {"park_all", "park_wait"} => park_count = Cardinality(MParking(c))

MInv == MTypes /\ MWhere /\ MTogether /\ MLock /\ MSleep /\ MMemory /\ MHip /\ MBarrier /\ MCount

MUpto(n, f) == f = [i \in 0..n |-> IF i = 0 THEN <<>> ELSE M!parse_lapic(f[i - 1], Madt[i])]

\* The recursive function Parsed exists and does what its definition says.
LEMMA MParsedUnfolds ==
    ASSUME M!MachineAssumption PROVE MUpto(Len(Madt), M!Parsed)
  <1>1. Len(Madt) \in Nat
    BY DEF M!MachineAssumption
  <1> DEFINE Bad == {n \in 0..Len(Madt) : ~ \E f : MUpto(n, f)}
  <1>2. Bad = {}
    <2> SUFFICES ASSUME Bad # {} PROVE FALSE
      OBVIOUS
    <2>1. PICK n \in Bad : \A j \in Bad : n <= j
      BY <1>1, Smallest, Bad \subseteq Nat
    <2>2. n # 0
      <3>1. MUpto(0, [i \in 0..0 |-> <<>>])
        BY DEF MUpto
      <3> QED
        BY <3>1
    <2>3. n \in Nat /\ n - 1 \in 0..Len(Madt) /\ ~ (n <= n - 1)
      BY <1>1, <2>2
    <2>4. n - 1 \notin Bad
      <3> HIDE DEF Bad
      <3> QED
        BY <2>1, <2>3
    <2>5. PICK f : MUpto(n - 1, f)
      BY <2>3, <2>4
    <2> DEFINE g == [i \in 0..n |-> IF i = n THEN M!parse_lapic(f[i - 1], Madt[i]) ELSE f[i]]
    <2>6. ASSUME NEW i \in 0..n
          PROVE  g[i] = IF i = 0 THEN <<>> ELSE M!parse_lapic(g[i - 1], Madt[i])
      <3>1. CASE i = n
        <4>1. i - 1 \in 0..n /\ i - 1 # n /\ i # 0
          BY <2>2, <2>3, <3>1
        <4>2. g[i - 1] = f[i - 1]
          BY <4>1
        <4> QED
          BY <3>1, <4>1, <4>2
      <3>2. CASE i # n /\ i = 0
        <4>1. f[0] = <<>>
          BY <2>3, <2>5 DEF MUpto
        <4> QED
          BY <3>2, <4>1
      <3>3. CASE i # n /\ i # 0
        <4>1. i \in 0..(n - 1) /\ i - 1 \in 0..n /\ i - 1 # n
          BY <2>3, <3>3
        <4>2. f[i] = M!parse_lapic(f[i - 1], Madt[i])
          BY <2>5, <4>1, <3>3 DEF MUpto
        <4>3. g[i - 1] = f[i - 1] /\ g[i] = f[i]
          BY <4>1, <3>3
        <4> QED
          BY <3>3, <4>2, <4>3
      <3> QED
        BY <3>1, <3>2, <3>3
    <2>7. MUpto(n, g)
      BY <2>6 DEF MUpto
    <2> QED
      BY <2>7
  <1>3. \E f : MUpto(Len(Madt), f)
    BY <1>1, <1>2
  <1>4. MUpto(Len(Madt), CHOOSE f : MUpto(Len(Madt), f))
    BY <1>3
  <1>5. M!Parsed = CHOOSE f : MUpto(Len(Madt), f)
    BY DEF M!Parsed, MUpto
  <1> QED
    BY <1>4, <1>5

\* s holds enabled entries of the MADT before number n, none of them twice.
MEntries(n, s) ==
    /\ s \in Seq(Procs) /\ Len(s) <= NUM_CPU
    /\ \A k \in 1..Len(s) : \E j \in 1..n : Madt[j].enabled /\ s[k] = Madt[j].apic_id
    /\ \A k, m \in 1..Len(s) : s[k] = s[m] => k = m

LEMMA MEntry ==
    ASSUME M!MachineAssumption, NEW n \in 1..Len(Madt), NEW s, MEntries(n - 1, s)
    PROVE  MEntries(n, M!parse_lapic(s, Madt[n]))
  <1>1. n \in Nat /\ n - 1 \in Nat /\ NUM_CPU \in Nat /\ \A j \in 1..(n - 1) : j \in 1..n /\ j # n
    BY DEF M!MachineAssumption
  <1>2. Madt[n] \in [apic_id : Procs, enabled : BOOLEAN] /\ Len(Madt) \in Nat
    <2> DEFINE E == [apic_id : Procs, enabled : BOOLEAN]
    <2>1. Madt \in Seq(E)
      BY DEF M!MachineAssumption
    <2> HIDE DEF E
    <2>2. Madt[n] \in E /\ Len(Madt) \in Nat
      BY <2>1
    <2> QED
      BY <2>2 DEF E
  <1>3. CASE Madt[n].enabled /\ Len(s) < NUM_CPU
    <2> DEFINE u == Append(s, Madt[n].apic_id)
    <2>1. u \in Seq(Procs) /\ Len(u) = Len(s) + 1 /\ Len(s) \in Nat /\ u[Len(s) + 1] = Madt[n].apic_id
      BY <1>2 DEF MEntries
    <2>2. \A k \in 1..Len(s) : u[k] = s[k]
      BY <1>2 DEF MEntries
    <2>3. \A k \in 1..Len(s) : s[k] # Madt[n].apic_id
      <3> SUFFICES ASSUME NEW k \in 1..Len(s), s[k] = Madt[n].apic_id PROVE FALSE
        OBVIOUS
      <3>1. PICK j \in 1..(n - 1) : Madt[j].enabled /\ s[k] = Madt[j].apic_id
        BY DEF MEntries
      <3>2. j \in 1..Len(Madt) /\ j # n
        BY <1>1, <1>2
      <3> QED
        BY <1>3, <3>1, <3>2 DEF M!MachineAssumption
    <2>4. M!parse_lapic(s, Madt[n]) = u
      BY <1>3 DEF M!parse_lapic
    <2> HIDE DEF u
    <2>5. Len(u) <= NUM_CPU
      BY <1>1, <1>3, <2>1
    <2>6. ASSUME NEW k \in 1..Len(u) PROVE k \in 1..Len(s) \/ k = Len(s) + 1
      BY <2>1
    <2>7. \A k \in 1..Len(u) : \E j \in 1..n : Madt[j].enabled /\ u[k] = Madt[j].apic_id
      <3> SUFFICES ASSUME NEW k \in 1..Len(u) PROVE \E j \in 1..n : Madt[j].enabled /\ u[k] = Madt[j].apic_id
        OBVIOUS
      <3>1. CASE k \in 1..Len(s)
        BY <1>1, <2>2, <3>1 DEF MEntries
      <3>2. CASE k = Len(s) + 1
        BY <1>3, <2>1, <3>2
      <3> QED
        BY <2>6, <3>1, <3>2
    <2>8. ASSUME NEW k \in 1..Len(u), NEW m \in 1..Len(u), u[k] = u[m] PROVE k = m
      BY <2>1, <2>2, <2>3, <2>6, <2>8, SMTT(30) DEF MEntries
    <2> QED
      BY <2>1, <2>4, <2>5, <2>7, <2>8 DEF MEntries
  <1>4. CASE ~ (Madt[n].enabled /\ Len(s) < NUM_CPU)
    <2>1. M!parse_lapic(s, Madt[n]) = s
      BY <1>4 DEF M!parse_lapic
    <2> QED
      BY <1>1, <2>1 DEF MEntries
  <1> QED
    BY <1>3, <1>4

LEMMA MParsed ==
    ASSUME M!MachineAssumption PROVE MEntries(Len(Madt), M!Ids)
  <1>1. Len(Madt) \in Nat /\ NUM_CPU \in Nat
    BY DEF M!MachineAssumption
  <1> DEFINE Bad == {n \in 0..Len(Madt) : ~ MEntries(n, M!Parsed[n])}
  <1>2. Bad = {}
    <2> SUFFICES ASSUME Bad # {} PROVE FALSE
      OBVIOUS
    <2>1. PICK n \in Bad : \A j \in Bad : n <= j
      BY <1>1, Smallest, Bad \subseteq Nat
    <2>2. n # 0
      <3>1. M!Parsed[0] = <<>>
        BY <1>1, MParsedUnfolds DEF MUpto
      <3>2. MEntries(0, <<>>)
        BY <1>1 DEF MEntries
      <3> QED
        BY <3>1, <3>2
    <2>3. n \in 1..Len(Madt) /\ n - 1 \in 0..Len(Madt) /\ ~ (n <= n - 1)
      BY <1>1, <2>2
    <2>4. n - 1 \notin Bad
      <3> HIDE DEF Bad
      <3> QED
        BY <2>1, <2>3
    <2>5. M!Parsed[n] = M!parse_lapic(M!Parsed[n - 1], Madt[n])
      BY <2>2, <2>3, MParsedUnfolds DEF MUpto
    <2>6. MEntries(n, M!Parsed[n])
      BY <2>3, <2>4, <2>5, MEntry
    <2> QED
      BY <2>6
  <1> QED
    BY <1>1, <1>2 DEF M!Ids

LEMMA MList ==
    ASSUME M!MachineAssumption PROVE Bsp \in Procs /\ Bsp \in M!Listed /\ M!Listed \subseteq Procs
  <1>1. Len(M!Ids) \in Nat /\ \A i \in 1..Len(M!Ids) : M!Ids[i] \in Procs
    BY MParsed DEF MEntries
  <1>2. M!Listed \subseteq Procs
    BY <1>1 DEF M!Listed
  <1> QED
    BY <1>2 DEF M!MachineAssumption

\* As many CPUs are online as the MADT lists.
LEMMA MOnline ==
    ASSUME M!MachineAssumption
    PROVE  IsFiniteSet(M!Listed) /\ Cardinality(M!Listed) = Len(M!Ids) /\ Len(M!Ids) \in Nat \ {0}
  <1>1. M!Ids \in Seq(Procs) /\ Len(M!Ids) \in Nat /\ \A k, m \in 1..Len(M!Ids) : M!Ids[k] = M!Ids[m] => k = m
    BY MParsed DEF MEntries
  <1> DEFINE f == [i \in 1..Len(M!Ids) |-> M!Ids[i]]
  <1>3. ExistsBijection(1..Len(M!Ids), M!Listed)
    <2>1. f \in [1..Len(M!Ids) -> M!Listed] /\ \A t \in M!Listed : \E i \in 1..Len(M!Ids) : f[i] = t
      BY DEF M!Listed
    <2>2. \A k, m \in 1..Len(M!Ids) : f[k] = f[m] => k = m
      BY <1>1
    <2> HIDE DEF f
    <2>3. f \in Bijection(1..Len(M!Ids), M!Listed)
      BY <2>1, <2>2 DEF Bijection, Injection, Surjection, IsInjective
    <2> QED
      BY <2>3 DEF ExistsBijection
  <1>2. IsFiniteSet(M!Listed)
    BY <1>1, <1>3, FS_NatBijection
  <1>4. Cardinality(M!Listed) = Len(M!Ids)
    BY <1>1, <1>3, FS_CountingElements
  <1>5. Len(M!Ids) # 0
    BY <1>1, MList DEF M!Listed
  <1> QED
    BY <1>1, <1>2, <1>4, <1>5

\* setup_cpulocal finds the listed processors and no others.
LEMMA MFinds ==
    ASSUME M!MachineAssumption, apic_id = M!Ids, NEW p \in Procs
    PROVE  M!find_by_apic_id(p) = {} <=> p \notin M!Listed
  <1>1. M!Ids \in Seq(Procs) /\ Len(M!Ids) \in Nat /\ Len(M!Ids) <= NUM_CPU /\ NUM_CPU \in Nat
    BY MParsed DEF MEntries, M!MachineAssumption
  <1>2. ASSUME p \in M!Listed PROVE M!find_by_apic_id(p) # {}
    <2>1. PICK i \in 1..Len(M!Ids) : M!Ids[i] = p
      BY <1>2 DEF M!Listed
    <2>2. i - 1 \in 0..NUM_CPU - 1 /\ i - 1 < Len(M!Ids) /\ (i - 1) + 1 = i
      BY <1>1
    <2> QED
      BY <2>1, <2>2 DEF M!find_by_apic_id, M!Online
  <1>3. ASSUME p \notin M!Listed, NEW i \in 0..NUM_CPU - 1, p = IF i < Len(M!Ids) THEN M!Ids[i + 1] ELSE 0
        PROVE  FALSE
    <2>1. CASE i < Len(M!Ids)
      <3>1. i + 1 \in 1..Len(M!Ids)
        BY <1>1, <2>1
      <3> QED
        BY <1>3, <2>1, <3>1 DEF M!Listed
    <2>2. CASE ~ (i < Len(M!Ids))
      <3>1. p = 0 /\ Len(M!Ids) # NUM_CPU
        BY <1>1, <1>3, <2>2
      <3> QED
        BY <1>3, <3>1 DEF M!MachineAssumption
    <2> QED
      BY <2>1, <2>2
  <1> QED
    BY <1>2, <1>3 DEF M!find_by_apic_id, M!Online

LEMMA MP_init ==
    ASSUME M!MachineAssumption, MInv, NEW p \in Procs, M!init(p) PROVE MInv'
  <1> USE MList DEF M!At, M!Goto, M!start, M!boot, M!work, M!sleep, MLate, MEarly, MBoot, MCaller, MWork, MLabels, MWaking, MSolo, MQuiet, MAsks, MStuck
  <1>1. MTypes'
    BY DEF M!init, MInv, MTypes, MWhere
  <1>2. MWhere'
    BY DEF M!init, MInv, MTypes, MWhere, MTogether
  <1>3. MTogether'
    BY DEF M!init, MInv, MTypes, MWhere, MTogether, MSleep
  <1>4. MLock'
    BY DEF M!init, MInv, MTypes, MWhere, MTogether, MLock, M!BootExclusive, M!Serialized
  <1>5. MSleep'
    BY DEF M!init, MInv, MTypes, MWhere, MTogether, MSleep
  <1>6. MMemory'
    BY DEF M!init, MInv, MTypes, MWhere, MTogether, MSleep, MMemory, MAsleep
  <1>7. MHip'
    BY DEF M!init, MInv, MTypes, MWhere, MTogether, MSleep, MHip
  <1>8. MBarrier'
    <2>1. MArrived' = MArrived
      BY DEF M!init, MInv, MTypes, MWhere, MTogether, MSleep, MArrived
    <2> QED
      BY <2>1 DEF M!init, MInv, MTypes, MWhere, MBarrier
  <1>9. MCount'
    <2>1. \A d \in Procs : mpc'[d] \in {"park_all", "park_wait"} =>
            mpc[d] \in {"park_all", "park_wait"} /\ MParking(d)' = MParking(d)
      BY DEF M!init, MInv, MTypes, MWhere, MTogether, MSleep, MParking
    <2> QED
      BY <2>1 DEF M!init, MInv, MCount
  <1> QED
    BY <1>1, <1>2, <1>3, <1>4, <1>5, <1>6, <1>7, <1>8, <1>9 DEF MInv

LEMMA MP_start_cpu ==
    ASSUME M!MachineAssumption, MInv, NEW p \in Procs, M!start_cpu(p) PROVE MInv'
  <1> USE MList DEF M!At, M!Goto, M!start, M!boot, M!work, M!sleep, MLate, MEarly, MBoot, MCaller, MWork, MLabels, MWaking, MSolo, MQuiet, MAsks, MStuck
  <1>a. lowmem = IF p = Bsp THEN "resume_bsp" ELSE "start_all"
    BY DEF M!start_cpu, MInv, MTypes, MWhere, MTogether, MMemory, MAsleep
  <1>b. mpc' = [mpc EXCEPT ![p] = IF p = Bsp THEN "resume" ELSE "lock"]
    BY <1>a DEF M!start_cpu
  <1>1. MTypes'
    BY <1>b DEF M!start_cpu, MInv, MTypes, MWhere
  <1>2. MWhere'
    BY <1>b DEF M!start_cpu, MInv, MTypes, MWhere, MTogether
  <1>3. MTogether'
    BY <1>b DEF M!start_cpu, MInv, MTypes, MWhere, MTogether, MSleep
  <1>4. MLock'
    BY <1>b DEF M!start_cpu, MInv, MTypes, MWhere, MTogether, MLock, M!BootExclusive, M!Serialized
  <1>5. MSleep'
    BY <1>b DEF M!start_cpu, MInv, MTypes, MWhere, MTogether, MSleep
  <1>6. MMemory'
    BY <1>b DEF M!start_cpu, MInv, MTypes, MWhere, MTogether, MSleep, MMemory, MAsleep
  <1>7. MHip'
    BY <1>b DEF M!start_cpu, MInv, MTypes, MWhere, MTogether, MSleep, MHip
  <1>8. MBarrier'
    <2>1. CASE p = Bsp
      BY <1>b, <2>1 DEF MInv, MTypes, MBarrier
    <2>2. CASE p # Bsp
      <3>1. MArrived' = MArrived
        BY <1>b, <2>2 DEF M!start_cpu, MInv, MTypes, MWhere, MTogether, MSleep, MArrived
      <3> QED
        BY <1>b, <2>2, <3>1 DEF M!start_cpu, MInv, MTypes, MWhere, MBarrier
    <2> QED
      BY <2>1, <2>2
  <1>9. MCount'
    <2>1. \A d \in Procs : mpc'[d] \in {"park_all", "park_wait"} =>
            mpc[d] \in {"park_all", "park_wait"} /\ MParking(d)' = MParking(d)
      BY <1>b DEF M!start_cpu, MInv, MTypes, MWhere, MTogether, MSleep, MParking
    <2> QED
      BY <2>1 DEF M!start_cpu, MInv, MCount
  <1> QED
    BY <1>1, <1>2, <1>3, <1>4, <1>5, <1>6, <1>7, <1>8, <1>9 DEF MInv

LEMMA MP_lock ==
    ASSUME M!MachineAssumption, MInv, NEW p \in Procs, M!lock(p) PROVE MInv'
  <1> USE MList DEF M!At, M!Goto, M!start, M!boot, M!work, M!sleep, MLate, MEarly, MBoot, MCaller, MWork, MLabels, MWaking, MSolo, MQuiet, MAsks, MStuck
  <1>1. MTypes'
    BY DEF M!lock, MInv, MTypes, MWhere
  <1>2. MWhere'
    BY DEF M!lock, MInv, MTypes, MWhere, MTogether
  <1>3. MTogether'
    BY DEF M!lock, MInv, MTypes, MWhere, MTogether, MSleep
  <1>4. MLock'
    BY DEF M!lock, MInv, MTypes, MWhere, MTogether, MLock, M!BootExclusive, M!Serialized
  <1>5. MSleep'
    BY DEF M!lock, MInv, MTypes, MWhere, MTogether, MSleep
  <1>6. MMemory'
    BY DEF M!lock, MInv, MTypes, MWhere, MTogether, MSleep, MMemory, MAsleep
  <1>7. MHip'
    BY DEF M!lock, MInv, MTypes, MWhere, MTogether, MSleep, MHip
  <1>8. MBarrier'
    <2>1. MArrived' = MArrived
      BY DEF M!lock, MInv, MTypes, MWhere, MTogether, MSleep, MArrived
    <2> QED
      BY <2>1 DEF M!lock, MInv, MTypes, MWhere, MBarrier
  <1>9. MCount'
    <2>1. \A d \in Procs : mpc'[d] \in {"park_all", "park_wait"} =>
            mpc[d] \in {"park_all", "park_wait"} /\ MParking(d)' = MParking(d)
      BY DEF M!lock, MInv, MTypes, MWhere, MTogether, MSleep, MParking
    <2> QED
      BY <2>1 DEF M!lock, MInv, MCount
  <1> QED
    BY <1>1, <1>2, <1>3, <1>4, <1>5, <1>6, <1>7, <1>8, <1>9 DEF MInv

LEMMA MP_setup_cpulocal ==
    ASSUME M!MachineAssumption, MInv, NEW p \in Procs, M!setup_cpulocal(p) PROVE MInv'
  <1> USE MList DEF M!At, M!Goto, M!start, M!boot, M!work, M!sleep, MLate, MEarly, MBoot, MCaller, MWork, MLabels, MWaking, MSolo, MQuiet, MAsks, MStuck
  <1>a. apic_id = M!Ids
    BY DEF M!setup_cpulocal, MInv, MTypes, MWhere
  <1>b. p \in M!Listed
    BY <1>a, MFinds DEF M!setup_cpulocal
  <1>1. MTypes'
    BY <1>b DEF M!setup_cpulocal, MInv, MTypes, MWhere
  <1>2. MWhere'
    BY <1>b DEF M!setup_cpulocal, MInv, MTypes, MWhere, MTogether
  <1>3. MTogether'
    BY <1>b DEF M!setup_cpulocal, MInv, MTypes, MWhere, MTogether, MSleep
  <1>4. MLock'
    BY <1>b DEF M!setup_cpulocal, MInv, MTypes, MWhere, MTogether, MLock, M!BootExclusive, M!Serialized
  <1>5. MSleep'
    BY <1>b DEF M!setup_cpulocal, MInv, MTypes, MWhere, MTogether, MSleep
  <1>6. MMemory'
    BY <1>b DEF M!setup_cpulocal, MInv, MTypes, MWhere, MTogether, MSleep, MMemory, MAsleep
  <1>7. MHip'
    BY <1>b DEF M!setup_cpulocal, MInv, MTypes, MWhere, MTogether, MSleep, MHip
  <1>8. MBarrier'
    <2>1. MArrived' = MArrived
      BY <1>b DEF M!setup_cpulocal, MInv, MTypes, MWhere, MTogether, MSleep, MArrived
    <2> QED
      BY <1>b, <2>1 DEF M!setup_cpulocal, MInv, MTypes, MWhere, MBarrier
  <1>9. MCount'
    <2>1. \A d \in Procs : mpc'[d] \in {"park_all", "park_wait"} =>
            mpc[d] \in {"park_all", "park_wait"} /\ MParking(d)' = MParking(d)
      BY <1>b DEF M!setup_cpulocal, MInv, MTypes, MWhere, MTogether, MSleep, MParking
    <2> QED
      BY <2>1 DEF M!setup_cpulocal, MInv, MCount
  <1> QED
    BY <1>1, <1>2, <1>3, <1>4, <1>5, <1>6, <1>7, <1>8, <1>9 DEF MInv

LEMMA MP_setup_cpulocal_fails ==
    ASSUME M!MachineAssumption, MInv, NEW p \in Procs, M!setup_cpulocal_fails(p) PROVE MInv'
  <1> USE MList DEF M!At, M!Goto, M!start, M!boot, M!work, M!sleep, MLate, MEarly, MBoot, MCaller, MWork, MLabels, MWaking, MSolo, MQuiet, MAsks, MStuck
  <1>a. apic_id = M!Ids
    BY DEF M!setup_cpulocal_fails, MInv, MTypes, MWhere
  <1>b. p \notin M!Listed
    BY <1>a, MFinds DEF M!setup_cpulocal_fails
  <1>1. MTypes'
    BY <1>b DEF M!setup_cpulocal_fails, MInv, MTypes, MWhere
  <1>2. MWhere'
    BY <1>b DEF M!setup_cpulocal_fails, MInv, MTypes, MWhere, MTogether
  <1>3. MTogether'
    BY <1>b DEF M!setup_cpulocal_fails, MInv, MTypes, MWhere, MTogether, MSleep
  <1>4. MLock'
    BY <1>b DEF M!setup_cpulocal_fails, MInv, MTypes, MWhere, MTogether, MLock, M!BootExclusive, M!Serialized
  <1>5. MSleep'
    BY <1>b DEF M!setup_cpulocal_fails, MInv, MTypes, MWhere, MTogether, MSleep
  <1>6. MMemory'
    BY <1>b DEF M!setup_cpulocal_fails, MInv, MTypes, MWhere, MTogether, MSleep, MMemory, MAsleep
  <1>7. MHip'
    BY <1>b DEF M!setup_cpulocal_fails, MInv, MTypes, MWhere, MTogether, MSleep, MHip
  <1>8. MBarrier'
    <2>1. MArrived' = MArrived
      BY <1>b DEF M!setup_cpulocal_fails, MInv, MTypes, MWhere, MTogether, MSleep, MArrived
    <2> QED
      BY <1>b, <2>1 DEF M!setup_cpulocal_fails, MInv, MTypes, MWhere, MBarrier
  <1>9. MCount'
    <2>1. \A d \in Procs : mpc'[d] \in {"park_all", "park_wait"} =>
            mpc[d] \in {"park_all", "park_wait"} /\ MParking(d)' = MParking(d)
      BY <1>b DEF M!setup_cpulocal_fails, MInv, MTypes, MWhere, MTogether, MSleep, MParking
    <2> QED
      BY <2>1 DEF M!setup_cpulocal_fails, MInv, MCount
  <1> QED
    BY <1>1, <1>2, <1>3, <1>4, <1>5, <1>6, <1>7, <1>8, <1>9 DEF MInv

LEMMA MP_Cpu_init_bsp ==
    ASSUME M!MachineAssumption, MInv, NEW p \in Procs, M!Cpu_init_bsp(p) PROVE MInv'
  <1> USE MList DEF M!At, M!Goto, M!start, M!boot, M!work, M!sleep, MLate, MEarly, MBoot, MCaller, MWork, MLabels, MWaking, MSolo, MQuiet, MAsks, MStuck
  <1>1. MTypes'
    BY DEF M!Cpu_init_bsp, M!prepare_cpu_boot, MInv, MTypes, MWhere
  <1>2. MWhere'
    BY DEF M!Cpu_init_bsp, M!prepare_cpu_boot, MInv, MTypes, MWhere, MTogether
  <1>3. MTogether'
    BY DEF M!Cpu_init_bsp, M!prepare_cpu_boot, MInv, MTypes, MWhere, MTogether, MSleep
  <1>4. MLock'
    BY DEF M!Cpu_init_bsp, M!prepare_cpu_boot, MInv, MTypes, MWhere, MTogether, MLock, M!BootExclusive, M!Serialized
  <1>5. MSleep'
    BY DEF M!Cpu_init_bsp, M!prepare_cpu_boot, MInv, MTypes, MWhere, MTogether, MSleep
  <1>6. MMemory'
    BY DEF M!Cpu_init_bsp, M!prepare_cpu_boot, MInv, MTypes, MWhere, MTogether, MSleep, MMemory, MAsleep
  <1>7. MHip'
    BY DEF M!Cpu_init_bsp, M!prepare_cpu_boot, MInv, MTypes, MWhere, MTogether, MSleep, MHip
  <1>8. MBarrier'
    <2>1. MArrived' = MArrived
      BY DEF M!Cpu_init_bsp, M!prepare_cpu_boot, MInv, MTypes, MWhere, MTogether, MSleep, MArrived
    <2> QED
      BY <2>1 DEF M!Cpu_init_bsp, M!prepare_cpu_boot, MInv, MTypes, MWhere, MBarrier
  <1>9. MCount'
    <2>1. \A d \in Procs : mpc'[d] \in {"park_all", "park_wait"} =>
            mpc[d] \in {"park_all", "park_wait"} /\ MParking(d)' = MParking(d)
      BY DEF M!Cpu_init_bsp, M!prepare_cpu_boot, MInv, MTypes, MWhere, MTogether, MSleep, MParking
    <2> QED
      BY <2>1 DEF M!Cpu_init_bsp, M!prepare_cpu_boot, MInv, MCount
  <1> QED
    BY <1>1, <1>2, <1>3, <1>4, <1>5, <1>6, <1>7, <1>8, <1>9 DEF MInv

LEMMA MP_sipi ==
    ASSUME M!MachineAssumption, MInv, NEW p \in Procs, M!sipi(p) PROVE MInv'
  <1> USE MList DEF M!At, M!Goto, M!start, M!boot, M!work, M!sleep, MLate, MEarly, MBoot, MCaller, MWork, MLabels, MWaking, MSolo, MQuiet, MAsks, MStuck
  <1>1. MTypes'
    BY DEF M!sipi, M!add_cpu, MInv, MTypes, MWhere
  <1>2. MWhere'
    BY DEF M!sipi, M!add_cpu, MInv, MTypes, MWhere, MTogether
  <1>3. MTogether'
    BY DEF M!sipi, M!add_cpu, MInv, MTypes, MWhere, MTogether, MSleep
  <1>4. MLock'
    BY DEF M!sipi, M!add_cpu, MInv, MTypes, MWhere, MTogether, MLock, M!BootExclusive, M!Serialized
  <1>5. MSleep'
    BY DEF M!sipi, M!add_cpu, MInv, MTypes, MWhere, MTogether, MSleep
  <1>6. MMemory'
    BY DEF M!sipi, M!add_cpu, MInv, MTypes, MWhere, MTogether, MSleep, MMemory, MAsleep
  <1>7. MHip'
    BY DEF M!sipi, M!add_cpu, MInv, MTypes, MWhere, MTogether, MSleep, MHip
  <1>8. MBarrier'
    <2>1. MArrived' = MArrived
      BY DEF M!sipi, M!add_cpu, MInv, MTypes, MWhere, MTogether, MSleep, MArrived
    <2> QED
      BY <2>1 DEF M!sipi, M!add_cpu, MInv, MTypes, MWhere, MBarrier
  <1>9. MCount'
    <2>1. \A d \in Procs : mpc'[d] \in {"park_all", "park_wait"} =>
            mpc[d] \in {"park_all", "park_wait"} /\ MParking(d)' = MParking(d)
      BY DEF M!sipi, M!add_cpu, MInv, MTypes, MWhere, MTogether, MSleep, MParking
    <2> QED
      BY <2>1 DEF M!sipi, M!add_cpu, MInv, MCount
  <1> QED
    BY <1>1, <1>2, <1>3, <1>4, <1>5, <1>6, <1>7, <1>8, <1>9 DEF MInv

LEMMA MP_Cpu_init_ap ==
    ASSUME M!MachineAssumption, MInv, NEW p \in Procs, M!Cpu_init_ap(p) PROVE MInv'
  <1> USE MList DEF M!At, M!Goto, M!start, M!boot, M!work, M!sleep, MLate, MEarly, MBoot, MCaller, MWork, MLabels, MWaking, MSolo, MQuiet, MAsks, MStuck
  <1>1. MTypes'
    BY DEF M!Cpu_init_ap, M!add_cpu, MInv, MTypes, MWhere
  <1>2. MWhere'
    BY DEF M!Cpu_init_ap, M!add_cpu, MInv, MTypes, MWhere, MTogether
  <1>3. MTogether'
    BY DEF M!Cpu_init_ap, M!add_cpu, MInv, MTypes, MWhere, MTogether, MSleep
  <1>4. MLock'
    BY DEF M!Cpu_init_ap, M!add_cpu, MInv, MTypes, MWhere, MTogether, MLock, M!BootExclusive, M!Serialized
  <1>5. MSleep'
    BY DEF M!Cpu_init_ap, M!add_cpu, MInv, MTypes, MWhere, MTogether, MSleep
  <1>6. MMemory'
    BY DEF M!Cpu_init_ap, M!add_cpu, MInv, MTypes, MWhere, MTogether, MSleep, MMemory, MAsleep
  <1>7. MHip'
    BY DEF M!Cpu_init_ap, M!add_cpu, MInv, MTypes, MWhere, MTogether, MSleep, MHip
  <1>8. MBarrier'
    <2>1. MArrived' = MArrived
      BY DEF M!Cpu_init_ap, M!add_cpu, MInv, MTypes, MWhere, MTogether, MSleep, MArrived
    <2> QED
      BY <2>1 DEF M!Cpu_init_ap, M!add_cpu, MInv, MTypes, MWhere, MBarrier
  <1>9. MCount'
    <2>1. \A d \in Procs : mpc'[d] \in {"park_all", "park_wait"} =>
            mpc[d] \in {"park_all", "park_wait"} /\ MParking(d)' = MParking(d)
      BY DEF M!Cpu_init_ap, M!add_cpu, MInv, MTypes, MWhere, MTogether, MSleep, MParking
    <2> QED
      BY <2>1 DEF M!Cpu_init_ap, M!add_cpu, MInv, MCount
  <1> QED
    BY <1>1, <1>2, <1>3, <1>4, <1>5, <1>6, <1>7, <1>8, <1>9 DEF MInv

LEMMA MP_release_next_cpu ==
    ASSUME M!MachineAssumption, MInv, NEW p \in Procs, M!release_next_cpu(p) PROVE MInv'
  <1> USE MList DEF M!At, M!Goto, M!start, M!boot, M!work, M!sleep, MLate, MEarly, MBoot, MCaller, MWork, MLabels, MWaking, MSolo, MQuiet, MAsks, MStuck
  <1>1. MTypes'
    BY DEF M!release_next_cpu, MInv, MTypes, MWhere
  <1>2. MWhere'
    BY DEF M!release_next_cpu, MInv, MTypes, MWhere, MTogether
  <1>3. MTogether'
    BY DEF M!release_next_cpu, MInv, MTypes, MWhere, MTogether, MSleep
  <1>4. MLock'
    BY DEF M!release_next_cpu, MInv, MTypes, MWhere, MTogether, MLock, M!BootExclusive, M!Serialized
  <1>5. MSleep'
    BY DEF M!release_next_cpu, MInv, MTypes, MWhere, MTogether, MSleep
  <1>6. MMemory'
    BY DEF M!release_next_cpu, MInv, MTypes, MWhere, MTogether, MSleep, MMemory, MAsleep
  <1>7. MHip'
    BY DEF M!release_next_cpu, MInv, MTypes, MWhere, MTogether, MSleep, MHip
  <1>8. MBarrier'
    <2>1. MArrived' = MArrived
      BY DEF M!release_next_cpu, MInv, MTypes, MWhere, MTogether, MSleep, MArrived
    <2> QED
      BY <2>1 DEF M!release_next_cpu, MInv, MTypes, MWhere, MBarrier
  <1>9. MCount'
    <2>1. \A d \in Procs : mpc'[d] \in {"park_all", "park_wait"} =>
            mpc[d] \in {"park_all", "park_wait"} /\ MParking(d)' = MParking(d)
      BY DEF M!release_next_cpu, MInv, MTypes, MWhere, MTogether, MSleep, MParking
    <2> QED
      BY <2>1 DEF M!release_next_cpu, MInv, MCount
  <1> QED
    BY <1>1, <1>2, <1>3, <1>4, <1>5, <1>6, <1>7, <1>8, <1>9 DEF MInv

LEMMA MP_create_idle_ec ==
    ASSUME M!MachineAssumption, MInv, NEW p \in Procs, M!create_idle_ec(p) PROVE MInv'
  <1> USE MList DEF M!At, M!Goto, M!start, M!boot, M!work, M!sleep, MLate, MEarly, MBoot, MCaller, MWork, MLabels, MWaking, MSolo, MQuiet, MAsks, MStuck
  <1>1. MTypes'
    BY DEF M!create_idle_ec, MInv, MTypes, MWhere
  <1>2. MWhere'
    BY DEF M!create_idle_ec, MInv, MTypes, MWhere, MTogether
  <1>3. MTogether'
    BY DEF M!create_idle_ec, MInv, MTypes, MWhere, MTogether, MSleep
  <1>4. MLock'
    BY DEF M!create_idle_ec, MInv, MTypes, MWhere, MTogether, MLock, M!BootExclusive, M!Serialized
  <1>5. MSleep'
    BY DEF M!create_idle_ec, MInv, MTypes, MWhere, MTogether, MSleep
  <1>6. MMemory'
    BY DEF M!create_idle_ec, MInv, MTypes, MWhere, MTogether, MSleep, MMemory, MAsleep
  <1>7. MHip'
    BY DEF M!create_idle_ec, MInv, MTypes, MWhere, MTogether, MSleep, MHip
  <1>8. MBarrier'
    <2>1. MArrived' = MArrived
      BY DEF M!create_idle_ec, MInv, MTypes, MWhere, MTogether, MSleep, MArrived
    <2> QED
      BY <2>1 DEF M!create_idle_ec, MInv, MTypes, MWhere, MBarrier
  <1>9. MCount'
    <2>1. \A d \in Procs : mpc'[d] \in {"park_all", "park_wait"} =>
            mpc[d] \in {"park_all", "park_wait"} /\ MParking(d)' = MParking(d)
      BY DEF M!create_idle_ec, MInv, MTypes, MWhere, MTogether, MSleep, MParking
    <2> QED
      BY <2>1 DEF M!create_idle_ec, MInv, MCount
  <1> QED
    BY <1>1, <1>2, <1>3, <1>4, <1>5, <1>6, <1>7, <1>8, <1>9 DEF MInv

LEMMA MP_arrive ==
    ASSUME M!MachineAssumption, MInv, NEW p \in Procs, M!arrive(p) PROVE MInv'
  <1> USE MList DEF M!At, M!Goto, M!start, M!boot, M!work, M!sleep, MLate, MEarly, MBoot, MCaller, MWork, MLabels, MWaking, MSolo, MQuiet, MAsks, MStuck
  <1>1. MTypes'
    BY DEF M!arrive, MInv, MTypes, MWhere
  <1>2. MWhere'
    BY DEF M!arrive, MInv, MTypes, MWhere, MTogether
  <1>3. MTogether'
    BY DEF M!arrive, MInv, MTypes, MWhere, MTogether, MSleep
  <1>4. MLock'
    BY DEF M!arrive, MInv, MTypes, MWhere, MTogether, MLock, M!BootExclusive, M!Serialized
  <1>5. MSleep'
    BY DEF M!arrive, MInv, MTypes, MWhere, MTogether, MSleep
  <1>6. MMemory'
    BY DEF M!arrive, MInv, MTypes, MWhere, MTogether, MSleep, MMemory, MAsleep
  <1>7. MHip'
    BY DEF M!arrive, MInv, MTypes, MWhere, MTogether, MSleep, MHip
  <1>8. MBarrier'
    <2>1. MArrived' = MArrived \cup {p} /\ p \notin MArrived /\ MArrived \subseteq M!Listed
      BY DEF M!arrive, MInv, MTypes, MWhere, MTogether, MArrived
    <2>2. IsFiniteSet(MArrived) /\ barrier = Cardinality(MArrived)
      BY <2>1, MOnline, FS_Subset DEF M!arrive, MInv, MTypes, MWhere, MBarrier
    <2> QED
      BY <2>1, <2>2, FS_AddElement DEF M!arrive, MBarrier
  <1>9. MCount'
    <2>1. \A d \in Procs : mpc'[d] \in {"park_all", "park_wait"} =>
            mpc[d] \in {"park_all", "park_wait"} /\ MParking(d)' = MParking(d)
      BY DEF M!arrive, MInv, MTypes, MWhere, MTogether, MSleep, MParking
    <2> QED
      BY <2>1 DEF M!arrive, MInv, MCount
  <1> QED
    BY <1>1, <1>2, <1>3, <1>4, <1>5, <1>6, <1>7, <1>8, <1>9 DEF MInv

LEMMA MP_wait_for_all_cpus ==
    ASSUME M!MachineAssumption, MInv, NEW p \in Procs, M!wait_for_all_cpus(p) PROVE MInv'
  <1> USE MList DEF M!At, M!Goto, M!start, M!boot, M!work, M!sleep, MLate, MEarly, MBoot, MCaller, MWork, MLabels, MWaking, MSolo, MQuiet, MAsks, MStuck
  <1>a. barrier = Cardinality(MArrived)
    BY DEF M!wait_for_all_cpus, MInv, MTypes, MWhere, MBarrier
  <1>b. apic_id = M!Ids
    BY DEF M!wait_for_all_cpus, MInv, MTypes, MWhere
  <1>c. MArrived = M!Listed
    <2>1. MArrived \subseteq M!Listed /\ Cardinality(MArrived) = Cardinality(M!Listed) /\ IsFiniteSet(M!Listed)
      BY <1>a, <1>b, MOnline DEF M!wait_for_all_cpus, M!Online, MArrived
    <2> QED
      BY <2>1, FS_Subset
  <1>d. \A q \in M!Listed : mpc[q] \in MLate /\ (mpc[q] = "parked" => \E c \in M!Listed : mpc[c] \in MCaller)
    BY <1>c DEF MArrived
  <1>1. MTypes'
    BY <1>d DEF M!wait_for_all_cpus, MInv, MTypes, MWhere
  <1>2. MWhere'
    BY <1>d DEF M!wait_for_all_cpus, MInv, MTypes, MWhere, MTogether
  <1>3. MTogether'
    BY <1>d DEF M!wait_for_all_cpus, MInv, MTypes, MWhere, MTogether, MSleep
  <1>4. MLock'
    BY <1>d DEF M!wait_for_all_cpus, MInv, MTypes, MWhere, MTogether, MLock, M!BootExclusive, M!Serialized
  <1>5. MSleep'
    BY <1>d DEF M!wait_for_all_cpus, MInv, MTypes, MWhere, MTogether, MSleep
  <1>6. MMemory'
    BY <1>d DEF M!wait_for_all_cpus, MInv, MTypes, MWhere, MTogether, MSleep, MMemory, MAsleep
  <1>7. MHip'
    BY <1>d DEF M!wait_for_all_cpus, MInv, MTypes, MWhere, MTogether, MSleep, MHip
  <1>8. MBarrier'
    <2>1. MArrived' = MArrived
      BY <1>d DEF M!wait_for_all_cpus, MInv, MTypes, MWhere, MTogether, MSleep, MArrived
    <2> QED
      BY <1>d, <2>1 DEF M!wait_for_all_cpus, MInv, MTypes, MWhere, MBarrier
  <1>9. MCount'
    <2>1. \A d \in Procs : mpc'[d] \in {"park_all", "park_wait"} =>
            mpc[d] \in {"park_all", "park_wait"} /\ MParking(d)' = MParking(d)
      BY <1>d DEF M!wait_for_all_cpus, MInv, MTypes, MWhere, MTogether, MSleep, MParking
    <2> QED
      BY <2>1 DEF M!wait_for_all_cpus, MInv, MCount
  <1> QED
    BY <1>1, <1>2, <1>3, <1>4, <1>5, <1>6, <1>7, <1>8, <1>9 DEF MInv

LEMMA MP_finalize ==
    ASSUME M!MachineAssumption, MInv, NEW p \in Procs, M!finalize(p) PROVE MInv'
  <1> USE MList DEF M!At, M!Goto, M!start, M!boot, M!work, M!sleep, MLate, MEarly, MBoot, MCaller, MWork, MLabels, MWaking, MSolo, MQuiet, MAsks, MStuck
  <1>a. p = Bsp /\ \A q \in M!Listed : mpc[q] \in MLate
    BY DEF M!finalize, MInv, MTypes, MWhere, MTogether
  <1>b. hip = M!Listed
    BY <1>a DEF MInv, MTypes, MHip
  <1>1. MTypes'
    BY <1>a, <1>b DEF M!finalize, M!restore_low_memory, M!UnlistedHalted, MInv, MTypes, MWhere
  <1>2. MWhere'
    BY <1>a, <1>b DEF M!finalize, M!restore_low_memory, M!UnlistedHalted, MInv, MTypes, MWhere, MTogether
  <1>3. MTogether'
    BY <1>a, <1>b DEF M!finalize, M!restore_low_memory, M!UnlistedHalted, MInv, MTypes, MWhere, MTogether, MSleep
  <1>4. MLock'
    BY <1>a, <1>b DEF M!finalize, M!restore_low_memory, M!UnlistedHalted, MInv, MTypes, MWhere, MTogether, MLock, M!BootExclusive, M!Serialized
  <1>5. MSleep'
    BY <1>a, <1>b DEF M!finalize, M!restore_low_memory, M!UnlistedHalted, MInv, MTypes, MWhere, MTogether, MSleep
  <1>6. MMemory'
    BY <1>a, <1>b DEF M!finalize, M!restore_low_memory, M!UnlistedHalted, MInv, MTypes, MWhere, MTogether, MSleep, MMemory, MAsleep
  <1>7. MHip'
    BY <1>a, <1>b DEF M!finalize, M!restore_low_memory, M!UnlistedHalted, MInv, MTypes, MWhere, MTogether, MSleep, MHip
  <1>8. MBarrier'
    <2>1. MArrived' = MArrived
      BY <1>a, <1>b DEF M!finalize, M!restore_low_memory, M!UnlistedHalted, MInv, MTypes, MWhere, MTogether, MSleep, MArrived
    <2> QED
      BY <1>a, <1>b, <2>1 DEF M!finalize, M!restore_low_memory, M!UnlistedHalted, MInv, MTypes, MWhere, MBarrier
  <1>9. MCount'
    <2>1. \A d \in Procs : mpc'[d] \in {"park_all", "park_wait"} =>
            mpc[d] \in {"park_all", "park_wait"} /\ MParking(d)' = MParking(d)
      BY <1>a, <1>b DEF M!finalize, M!restore_low_memory, M!UnlistedHalted, MInv, MTypes, MWhere, MTogether, MSleep, MParking
    <2> QED
      BY <2>1 DEF M!finalize, M!restore_low_memory, M!UnlistedHalted, MInv, MCount
  <1> QED
    BY <1>1, <1>2, <1>3, <1>4, <1>5, <1>6, <1>7, <1>8, <1>9 DEF MInv

LEMMA MP_handle_hazards ==
    ASSUME M!MachineAssumption, MInv, NEW p \in Procs, M!handle_hazards(p) PROVE MInv'
  <1> USE MList DEF M!At, M!Goto, M!start, M!boot, M!work, M!sleep, MLate, MEarly, MBoot, MCaller, MWork, MLabels, MWaking, MSolo, MQuiet, MAsks, MStuck
  <1>1. MTypes'
    BY DEF M!handle_hazards, MInv, MTypes, MWhere
  <1>2. MWhere'
    BY DEF M!handle_hazards, MInv, MTypes, MWhere, MTogether
  <1>3. MTogether'
    BY DEF M!handle_hazards, MInv, MTypes, MWhere, MTogether, MSleep
  <1>4. MLock'
    BY DEF M!handle_hazards, MInv, MTypes, MWhere, MTogether, MLock, M!BootExclusive, M!Serialized
  <1>5. MSleep'
    BY DEF M!handle_hazards, MInv, MTypes, MWhere, MTogether, MSleep
  <1>6. MMemory'
    BY DEF M!handle_hazards, MInv, MTypes, MWhere, MTogether, MSleep, MMemory, MAsleep
  <1>7. MHip'
    BY DEF M!handle_hazards, MInv, MTypes, MWhere, MTogether, MSleep, MHip
  <1>8. MBarrier'
    <2>1. MArrived' = MArrived
      BY DEF M!handle_hazards, MInv, MTypes, MWhere, MTogether, MSleep, MArrived
    <2> QED
      BY <2>1 DEF M!handle_hazards, MInv, MTypes, MWhere, MBarrier
  <1>9. MCount'
    <2>1. \A d \in Procs : mpc'[d] \in {"park_all", "park_wait"} =>
            mpc[d] \in {"park_all", "park_wait"} /\ MParking(d)' = MParking(d)
      BY DEF M!handle_hazards, MInv, MTypes, MWhere, MTogether, MSleep, MParking
    <2> QED
      BY <2>1 DEF M!handle_hazards, MInv, MCount
  <1> QED
    BY <1>1, <1>2, <1>3, <1>4, <1>5, <1>6, <1>7, <1>8, <1>9 DEF MInv

LEMMA MP_do_deferred_nmi_work ==
    ASSUME M!MachineAssumption, MInv, NEW p \in Procs, M!do_deferred_nmi_work(p) PROVE MInv'
  <1> USE MList DEF M!At, M!Goto, M!start, M!boot, M!work, M!sleep, MLate, MEarly, MBoot, MCaller, MWork, MLabels, MWaking, MSolo, MQuiet, MAsks, MStuck
  <1>1. MTypes'
    BY DEF M!do_deferred_nmi_work, MInv, MTypes, MWhere
  <1>2. MWhere'
    BY DEF M!do_deferred_nmi_work, MInv, MTypes, MWhere, MTogether
  <1>3. MTogether'
    BY DEF M!do_deferred_nmi_work, MInv, MTypes, MWhere, MTogether, MSleep
  <1>4. MLock'
    BY DEF M!do_deferred_nmi_work, MInv, MTypes, MWhere, MTogether, MLock, M!BootExclusive, M!Serialized
  <1>5. MSleep'
    BY DEF M!do_deferred_nmi_work, MInv, MTypes, MWhere, MTogether, MSleep
  <1>6. MMemory'
    BY DEF M!do_deferred_nmi_work, MInv, MTypes, MWhere, MTogether, MSleep, MMemory, MAsleep
  <1>7. MHip'
    BY DEF M!do_deferred_nmi_work, MInv, MTypes, MWhere, MTogether, MSleep, MHip
  <1>8. MBarrier'
    <2>1. MArrived' = MArrived
      BY DEF M!do_deferred_nmi_work, MInv, MTypes, MWhere, MTogether, MSleep, MArrived
    <2> QED
      BY <2>1 DEF M!do_deferred_nmi_work, MInv, MTypes, MWhere, MBarrier
  <1>9. MCount'
    <2>1. \A d \in Procs : mpc'[d] \in {"park_all", "park_wait"} =>
            mpc[d] \in {"park_all", "park_wait"} /\ MParking(d)' = MParking(d)
      BY DEF M!do_deferred_nmi_work, MInv, MTypes, MWhere, MTogether, MSleep, MParking
    <2> QED
      BY <2>1 DEF M!do_deferred_nmi_work, MInv, MCount
  <1> QED
    BY <1>1, <1>2, <1>3, <1>4, <1>5, <1>6, <1>7, <1>8, <1>9 DEF MInv

LEMMA MP_EnterKernel ==
    ASSUME M!MachineAssumption, MInv, NEW p \in Procs, M!EnterKernel(p) PROVE MInv'
  <1> USE MList DEF M!At, M!Goto, M!start, M!boot, M!work, M!sleep, MLate, MEarly, MBoot, MCaller, MWork, MLabels, MWaking, MSolo, MQuiet, MAsks, MStuck
  <1>1. MTypes'
    BY DEF M!EnterKernel, MInv, MTypes, MWhere
  <1>2. MWhere'
    BY DEF M!EnterKernel, MInv, MTypes, MWhere, MTogether
  <1>3. MTogether'
    BY DEF M!EnterKernel, MInv, MTypes, MWhere, MTogether, MSleep
  <1>4. MLock'
    BY DEF M!EnterKernel, MInv, MTypes, MWhere, MTogether, MLock, M!BootExclusive, M!Serialized
  <1>5. MSleep'
    BY DEF M!EnterKernel, MInv, MTypes, MWhere, MTogether, MSleep
  <1>6. MMemory'
    BY DEF M!EnterKernel, MInv, MTypes, MWhere, MTogether, MSleep, MMemory, MAsleep
  <1>7. MHip'
    BY DEF M!EnterKernel, MInv, MTypes, MWhere, MTogether, MSleep, MHip
  <1>8. MBarrier'
    <2>1. MArrived' = MArrived
      BY DEF M!EnterKernel, MInv, MTypes, MWhere, MTogether, MSleep, MArrived
    <2> QED
      BY <2>1 DEF M!EnterKernel, MInv, MTypes, MWhere, MBarrier
  <1>9. MCount'
    <2>1. \A d \in Procs : mpc'[d] \in {"park_all", "park_wait"} =>
            mpc[d] \in {"park_all", "park_wait"} /\ MParking(d)' = MParking(d)
      BY DEF M!EnterKernel, MInv, MTypes, MWhere, MTogether, MSleep, MParking
    <2> QED
      BY <2>1 DEF M!EnterKernel, MInv, MCount
  <1> QED
    BY <1>1, <1>2, <1>3, <1>4, <1>5, <1>6, <1>7, <1>8, <1>9 DEF MInv

LEMMA MP_park_all_but_self ==
    ASSUME M!MachineAssumption, MInv, NEW p \in Procs, M!park_all_but_self(p) PROVE MInv'
  <1> USE MList DEF M!At, M!Goto, M!start, M!boot, M!work, M!sleep, MLate, MEarly, MBoot, MCaller, MWork, MLabels, MWaking, MSolo, MQuiet, MAsks, MStuck
  <1>a. apic_id = M!Ids
    BY DEF M!park_all_but_self, MInv, MTypes, MWhere
  <1>b. \A i \in 1..Len(M!Ids) : M!Ids[i] \in M!Listed
    BY DEF M!Listed
  <1>c. \/ M!Goto(p, "park_wait") /\ UNCHANGED hazard
        \/ /\ UNCHANGED mpc
           /\ \E q \in M!Listed \ {p} :
                /\ hazard' = [hazard EXCEPT ![q] = @ \cup {"PRK"}]
                /\ mpc[q] \notin {"park_handler", "parked"}
    <2> DEFINE ToPark == {i \in 1..Len(M!Ids) : M!Ids[i] # p /\ "PRK" \notin hazard[M!Ids[i]]
                            /\ mpc[M!Ids[i]] \notin {"park_handler", "parked"}}
               k == CHOOSE i \in ToPark : \A j \in ToPark : i <= j
    <2>1. \/ M!Goto(p, "park_wait") /\ UNCHANGED hazard
          \/ ToPark # {} /\ UNCHANGED mpc /\ hazard' = [hazard EXCEPT ![M!Ids[k]] = @ \cup {"PRK"}]
      BY <1>a DEF M!park_all_but_self, M!Online
    <2>2. ASSUME ToPark # {} PROVE k \in ToPark
      <3>1. Len(M!Ids) \in Nat
        BY MOnline
      <3>2. ToPark \subseteq Nat
        BY <3>1
      <3>3. \E i \in ToPark : \A j \in ToPark : i <= j
        BY <2>2, <3>2, Smallest
      <3> HIDE DEF ToPark
      <3> QED
        BY <3>3
    <2> HIDE DEF k
    <2> QED
      BY <1>b, <2>1, <2>2
  <1>1. MTypes'
    BY <1>c DEF M!park_all_but_self, MInv, MTypes, MWhere
  <1>2. MWhere'
    BY <1>c, SMTT(30) DEF M!park_all_but_self, MInv, MTypes, MWhere, MTogether
  <1>3. MTogether'
    BY <1>c DEF M!park_all_but_self, MInv, MTypes, MWhere, MTogether, MSleep
  <1>4. MLock'
    BY <1>c DEF M!park_all_but_self, MInv, MTypes, MWhere, MTogether, MLock, M!BootExclusive, M!Serialized
  <1>5. MSleep'
    BY <1>c DEF M!park_all_but_self, MInv, MTypes, MWhere, MTogether, MSleep
  <1>6. MMemory'
    BY <1>c, SMTT(30) DEF M!park_all_but_self, MInv, MTypes, MWhere, MTogether, MSleep, MMemory, MAsleep
  <1>7. MHip'
    BY <1>c DEF M!park_all_but_self, MInv, MTypes, MWhere, MTogether, MSleep, MHip
  <1>8. MBarrier'
    <2>1. MArrived' = MArrived
      BY <1>c DEF M!park_all_but_self, MInv, MTypes, MWhere, MTogether, MSleep, MArrived
    <2> QED
      BY <1>c, <2>1 DEF M!park_all_but_self, MInv, MTypes, MWhere, MBarrier
  <1>9. MCount'
    <2>1. \A d \in Procs : mpc'[d] \in {"park_all", "park_wait"} =>
            mpc[d] \in {"park_all", "park_wait"} /\ MParking(d)' = MParking(d)
      BY <1>c DEF M!park_all_but_self, MInv, MTypes, MWhere, MTogether, MSleep, MParking
    <2> QED
      BY <2>1 DEF M!park_all_but_self, MInv, MCount
  <1> QED
    BY <1>1, <1>2, <1>3, <1>4, <1>5, <1>6, <1>7, <1>8, <1>9 DEF MInv

LEMMA MP_park_handler ==
    ASSUME M!MachineAssumption, MInv, NEW p \in Procs, M!park_handler(p) PROVE MInv'
  <1> USE MList DEF M!At, M!Goto, M!start, M!boot, M!work, M!sleep, MLate, MEarly, MBoot, MCaller, MWork, MLabels, MWaking, MSolo, MQuiet, MAsks, MStuck
  <1>a. PICK c \in M!Listed \ {p} : mpc[c] \in {"park_all", "park_wait"}
    BY DEF M!park_handler, MInv, MSleep
  <1>b. park_count = Cardinality(MParking(c)) /\ p \in MParking(c) /\ IsFiniteSet(MParking(c))
    <2>1. p \in M!Listed
      BY DEF M!park_handler, MInv, MSleep
    <2>2. MParking(c) \subseteq M!Listed /\ IsFiniteSet(M!Listed) /\ p \in MParking(c)
      BY <2>1, <1>a, MOnline DEF M!park_handler, MParking
    <2>3. IsFiniteSet(MParking(c))
      BY <2>2, FS_Subset
    <2> QED
      BY <1>a, <2>2, <2>3 DEF MInv, MCount
  <1>c. park_count - 1 = Cardinality(MParking(c) \ {p}) /\ park_count - 1 \in Nat
    <2>1. IsFiniteSet(MParking(c) \ {p}) /\ Cardinality(MParking(c) \ {p}) = Cardinality(MParking(c)) - 1
      BY <1>b, FS_RemoveElement
    <2> QED
      BY <1>b, <2>1, FS_CardinalityType
  <1>1. MTypes'
    BY <1>a, <1>c DEF M!park_handler, MInv, MTypes, MWhere
  <1>2. MWhere'
    BY <1>a, <1>c DEF M!park_handler, MInv, MTypes, MWhere, MTogether
  <1>3. MTogether'
    BY <1>a, <1>c DEF M!park_handler, MInv, MTypes, MWhere, MTogether, MSleep
  <1>4. MLock'
    BY <1>a, <1>c DEF M!park_handler, MInv, MTypes, MWhere, MTogether, MLock, M!BootExclusive, M!Serialized
  <1>5. MSleep'
    BY <1>a, <1>c DEF M!park_handler, MInv, MTypes, MWhere, MTogether, MSleep
  <1>6. MMemory'
    BY <1>a, <1>c DEF M!park_handler, MInv, MTypes, MWhere, MTogether, MSleep, MMemory, MAsleep
  <1>7. MHip'
    BY <1>a, <1>c DEF M!park_handler, MInv, MTypes, MWhere, MTogether, MSleep, MHip
  <1>8. MBarrier'
    <2>1. MArrived' = MArrived
      BY <1>a, <1>c DEF M!park_handler, MInv, MTypes, MWhere, MTogether, MSleep, MArrived
    <2> QED
      BY <1>a, <1>c, <2>1 DEF M!park_handler, MInv, MTypes, MWhere, MBarrier
  <1>9. MCount'
    <2>1. \A d \in Procs : mpc'[d] \in {"park_all", "park_wait"} => d = c
      BY <1>a DEF M!park_handler, MInv, MTypes, MSleep
    <2>2. MParking(c)' = MParking(c) \ {p}
      BY <1>a DEF M!park_handler, MInv, MTypes, MParking
    <2> QED
      BY <1>c, <2>1, <2>2 DEF M!park_handler, MCount
  <1> QED
    BY <1>1, <1>2, <1>3, <1>4, <1>5, <1>6, <1>7, <1>8, <1>9 DEF MInv

LEMMA MP_set_waking_vector ==
    ASSUME M!MachineAssumption, MInv, NEW p \in Procs, M!set_waking_vector(p) PROVE MInv'
  <1> USE MList DEF M!At, M!Goto, M!start, M!boot, M!work, M!sleep, MLate, MEarly, MBoot, MCaller, MWork, MLabels, MWaking, MSolo, MQuiet, MAsks, MStuck
  <1>a. MParking(p) = {}
    <2>1. MParking(p) \subseteq M!Listed /\ IsFiniteSet(M!Listed) /\ Cardinality(MParking(p)) = 0
      BY MOnline DEF M!set_waking_vector, MInv, MCount, MParking
    <2>2. IsFiniteSet(MParking(p))
      BY <2>1, FS_Subset
    <2> QED
      BY <2>1, <2>2, FS_EmptySet
  <1>b. \A q \in M!Listed \ {p} : mpc[q] = "parked"
    BY <1>a DEF MParking
  <1>c. p \in M!Listed /\ prepared \cup {p} = M!Listed
    BY <1>b DEF M!set_waking_vector, MInv, MWhere, MSleep
  <1>1. MTypes'
    BY <1>b, <1>c DEF M!set_waking_vector, M!prepare_cpu_boot, MInv, MTypes, MWhere
  <1>2. MWhere'
    BY <1>b, <1>c DEF M!set_waking_vector, M!prepare_cpu_boot, MInv, MTypes, MWhere, MTogether
  <1>3. MTogether'
    BY <1>b, <1>c DEF M!set_waking_vector, M!prepare_cpu_boot, MInv, MTypes, MWhere, MTogether, MSleep
  <1>4. MLock'
    BY <1>b, <1>c DEF M!set_waking_vector, M!prepare_cpu_boot, MInv, MTypes, MWhere, MTogether, MLock, M!BootExclusive, M!Serialized
  <1>5. MSleep'
    BY <1>b, <1>c DEF M!set_waking_vector, M!prepare_cpu_boot, MInv, MTypes, MWhere, MTogether, MSleep
  <1>6. MMemory'
    BY <1>b, <1>c DEF M!set_waking_vector, M!prepare_cpu_boot, MInv, MTypes, MWhere, MTogether, MSleep, MMemory, MAsleep
  <1>7. MHip'
    BY <1>b, <1>c DEF M!set_waking_vector, M!prepare_cpu_boot, MInv, MTypes, MWhere, MTogether, MSleep, MHip
  <1>8. MBarrier'
    <2>1. MArrived' = MArrived
      BY <1>b, <1>c DEF M!set_waking_vector, M!prepare_cpu_boot, MInv, MTypes, MWhere, MTogether, MSleep, MArrived
    <2> QED
      BY <1>b, <1>c, <2>1 DEF M!set_waking_vector, M!prepare_cpu_boot, MInv, MTypes, MWhere, MBarrier
  <1>9. MCount'
    <2>1. \A d \in Procs : mpc'[d] \in {"park_all", "park_wait"} =>
            mpc[d] \in {"park_all", "park_wait"} /\ MParking(d)' = MParking(d)
      BY <1>b, <1>c DEF M!set_waking_vector, M!prepare_cpu_boot, MInv, MTypes, MWhere, MTogether, MSleep, MParking
    <2> QED
      BY <2>1 DEF M!set_waking_vector, M!prepare_cpu_boot, MInv, MCount
  <1> QED
    BY <1>1, <1>2, <1>3, <1>4, <1>5, <1>6, <1>7, <1>8, <1>9 DEF MInv

LEMMA MP_enter_sleep_state_S3 ==
    ASSUME M!MachineAssumption, MInv, NEW p \in Procs, M!enter_sleep_state_S3(p) PROVE MInv'
  <1> USE MList DEF M!At, M!Goto, M!start, M!boot, M!work, M!sleep, MLate, MEarly, MBoot, MCaller, MWork, MLabels, MWaking, MSolo, MQuiet, MAsks, MStuck
  <1>a. facs = "start_cpu"
    BY DEF M!enter_sleep_state_S3, MInv, MMemory, MAsleep
  <1>b. mpc' = [q \in Procs |-> IF q = Bsp THEN "start_cpu" ELSE "off"]
    BY <1>a DEF M!enter_sleep_state_S3
  <1>1. MTypes'
    BY <1>b DEF M!enter_sleep_state_S3, MInv, MTypes, MWhere
  <1>2. MWhere'
    BY <1>b DEF M!enter_sleep_state_S3, MInv, MTypes, MWhere, MTogether
  <1>3. MTogether'
    BY <1>b DEF M!enter_sleep_state_S3, MInv, MTypes, MWhere, MTogether, MSleep
  <1>4. MLock'
    BY <1>b DEF M!enter_sleep_state_S3, MInv, MTypes, MWhere, MTogether, MLock, M!BootExclusive, M!Serialized
  <1>5. MSleep'
    BY <1>b DEF M!enter_sleep_state_S3, MInv, MTypes, MWhere, MTogether, MSleep
  <1>6. MMemory'
    BY <1>b DEF M!enter_sleep_state_S3, MInv, MTypes, MWhere, MTogether, MSleep, MMemory, MAsleep
  <1>7. MHip'
    BY <1>b DEF M!enter_sleep_state_S3, MInv, MTypes, MWhere, MTogether, MSleep, MHip
  <1>8. MBarrier'
    BY <1>b DEF M!enter_sleep_state_S3, MInv, MTypes, MWhere, MBarrier
  <1>9. MCount'
    <2>1. \A d \in Procs : mpc'[d] \in {"park_all", "park_wait"} =>
            mpc[d] \in {"park_all", "park_wait"} /\ MParking(d)' = MParking(d)
      BY <1>b DEF M!enter_sleep_state_S3, MInv, MTypes, MWhere, MTogether, MSleep, MParking
    <2> QED
      BY <2>1 DEF M!enter_sleep_state_S3, MInv, MCount
  <1> QED
    BY <1>1, <1>2, <1>3, <1>4, <1>5, <1>6, <1>7, <1>8, <1>9 DEF MInv

LEMMA MP_enter_sleep_state_S1 ==
    ASSUME M!MachineAssumption, MInv, NEW p \in Procs, M!enter_sleep_state_S1(p) PROVE MInv'
  <1> USE MList DEF M!At, M!Goto, M!start, M!boot, M!work, M!sleep, MLate, MEarly, MBoot, MCaller, MWork, MLabels, MWaking, MSolo, MQuiet, MAsks, MStuck
  <1>a. p \in M!Listed /\ \A q \in M!Listed \ {p} : mpc[q] = "parked"
    BY DEF M!enter_sleep_state_S1, MInv, MWhere, MSleep
  <1>b. \A q \in Procs \ M!Listed : mpc[q] \in {"off", "halt"}
    BY <1>a DEF M!enter_sleep_state_S1, MInv, MTypes, MWhere
  <1>1. MTypes'
    BY <1>a, <1>b DEF M!enter_sleep_state_S1, MInv, MTypes, MWhere
  <1>2. MWhere'
    BY <1>a, <1>b DEF M!enter_sleep_state_S1, MInv, MTypes, MWhere, MTogether
  <1>3. MTogether'
    BY <1>a, <1>b DEF M!enter_sleep_state_S1, MInv, MTypes, MWhere, MTogether, MSleep
  <1>4. MLock'
    BY <1>a, <1>b DEF M!enter_sleep_state_S1, MInv, MTypes, MWhere, MTogether, MLock, M!BootExclusive, M!Serialized
  <1>5. MSleep'
    BY <1>a, <1>b DEF M!enter_sleep_state_S1, MInv, MTypes, MWhere, MTogether, MSleep
  <1>6. MMemory'
    BY <1>a, <1>b DEF M!enter_sleep_state_S1, MInv, MTypes, MWhere, MTogether, MSleep, MMemory, MAsleep
  <1>7. MHip'
    BY <1>a, <1>b DEF M!enter_sleep_state_S1, MInv, MTypes, MWhere, MTogether, MSleep, MHip
  <1>8. MBarrier'
    BY <1>a, <1>b DEF M!enter_sleep_state_S1, MInv, MTypes, MWhere, MBarrier
  <1>9. MCount'
    <2>1. \A d \in Procs : mpc'[d] \in {"park_all", "park_wait"} =>
            mpc[d] \in {"park_all", "park_wait"} /\ MParking(d)' = MParking(d)
      BY <1>a, <1>b DEF M!enter_sleep_state_S1, MInv, MTypes, MWhere, MTogether, MSleep, MParking
    <2> QED
      BY <2>1 DEF M!enter_sleep_state_S1, MInv, MCount
  <1> QED
    BY <1>1, <1>2, <1>3, <1>4, <1>5, <1>6, <1>7, <1>8, <1>9 DEF MInv

LEMMA MP_resume_bsp_hi ==
    ASSUME M!MachineAssumption, MInv, NEW p \in Procs, M!resume_bsp_hi(p) PROVE MInv'
  <1> USE MList DEF M!At, M!Goto, M!start, M!boot, M!work, M!sleep, MLate, MEarly, MBoot, MCaller, MWork, MLabels, MWaking, MSolo, MQuiet, MAsks, MStuck
  <1>1. MTypes'
    BY DEF M!resume_bsp_hi, MInv, MTypes, MWhere
  <1>2. MWhere'
    BY DEF M!resume_bsp_hi, MInv, MTypes, MWhere, MTogether
  <1>3. MTogether'
    BY DEF M!resume_bsp_hi, MInv, MTypes, MWhere, MTogether, MSleep
  <1>4. MLock'
    BY DEF M!resume_bsp_hi, MInv, MTypes, MWhere, MTogether, MLock, M!BootExclusive, M!Serialized
  <1>5. MSleep'
    BY DEF M!resume_bsp_hi, MInv, MTypes, MWhere, MTogether, MSleep
  <1>6. MMemory'
    BY DEF M!resume_bsp_hi, MInv, MTypes, MWhere, MTogether, MSleep, MMemory, MAsleep
  <1>7. MHip'
    BY DEF M!resume_bsp_hi, MInv, MTypes, MWhere, MTogether, MSleep, MHip
  <1>8. MBarrier'
    <2>1. MArrived' = {}
      BY DEF M!resume_bsp_hi, MInv, MTypes, MWhere, MTogether, MArrived
    <2> QED
      BY <2>1, FS_EmptySet DEF M!resume_bsp_hi, MBarrier
  <1>9. MCount'
    <2>1. \A d \in Procs : mpc'[d] \in {"park_all", "park_wait"} =>
            mpc[d] \in {"park_all", "park_wait"} /\ MParking(d)' = MParking(d)
      BY DEF M!resume_bsp_hi, MInv, MTypes, MWhere, MTogether, MSleep, MParking
    <2> QED
      BY <2>1 DEF M!resume_bsp_hi, MInv, MCount
  <1> QED
    BY <1>1, <1>2, <1>3, <1>4, <1>5, <1>6, <1>7, <1>8, <1>9 DEF MInv

LEMMA MP_resume_bsp ==
    ASSUME M!MachineAssumption, MInv, NEW p \in Procs, M!resume_bsp(p) PROVE MInv'
  <1> USE MList DEF M!At, M!Goto, M!start, M!boot, M!work, M!sleep, MLate, MEarly, MBoot, MCaller, MWork, MLabels, MWaking, MSolo, MQuiet, MAsks, MStuck
  <1>1. MTypes'
    BY DEF M!resume_bsp, M!restore_low_memory, MInv, MTypes, MWhere
  <1>2. MWhere'
    BY DEF M!resume_bsp, M!restore_low_memory, MInv, MTypes, MWhere, MTogether
  <1>3. MTogether'
    BY DEF M!resume_bsp, M!restore_low_memory, MInv, MTypes, MWhere, MTogether, MSleep
  <1>4. MLock'
    BY DEF M!resume_bsp, M!restore_low_memory, MInv, MTypes, MWhere, MTogether, MLock, M!BootExclusive, M!Serialized
  <1>5. MSleep'
    BY DEF M!resume_bsp, M!restore_low_memory, MInv, MTypes, MWhere, MTogether, MSleep
  <1>6. MMemory'
    BY DEF M!resume_bsp, M!restore_low_memory, MInv, MTypes, MWhere, MTogether, MSleep, MMemory, MAsleep
  <1>7. MHip'
    BY DEF M!resume_bsp, M!restore_low_memory, MInv, MTypes, MWhere, MTogether, MSleep, MHip
  <1>8. MBarrier'
    <2>1. MArrived' = MArrived
      BY DEF M!resume_bsp, M!restore_low_memory, MInv, MTypes, MWhere, MTogether, MSleep, MArrived
    <2> QED
      BY <2>1 DEF M!resume_bsp, M!restore_low_memory, MInv, MTypes, MWhere, MBarrier
  <1>9. MCount'
    <2>1. \A d \in Procs : mpc'[d] \in {"park_all", "park_wait"} =>
            mpc[d] \in {"park_all", "park_wait"} /\ MParking(d)' = MParking(d)
      BY DEF M!resume_bsp, M!restore_low_memory, MInv, MTypes, MWhere, MTogether, MSleep, MParking
    <2> QED
      BY <2>1 DEF M!resume_bsp, M!restore_low_memory, MInv, MCount
  <1> QED
    BY <1>1, <1>2, <1>3, <1>4, <1>5, <1>6, <1>7, <1>8, <1>9 DEF MInv

LEMMA MP_ret_user ==
    ASSUME M!MachineAssumption, MInv, NEW p \in Procs, M!ret_user(p) PROVE MInv'
  <1> USE MList DEF M!At, M!Goto, M!start, M!boot, M!work, M!sleep, MLate, MEarly, MBoot, MCaller, MWork, MLabels, MWaking, MSolo, MQuiet, MAsks, MStuck
  <1>1. MTypes'
    BY DEF M!ret_user, MInv, MTypes, MWhere
  <1>2. MWhere'
    BY DEF M!ret_user, MInv, MTypes, MWhere, MTogether
  <1>3. MTogether'
    BY DEF M!ret_user, MInv, MTypes, MWhere, MTogether, MSleep
  <1>4. MLock'
    BY DEF M!ret_user, MInv, MTypes, MWhere, MTogether, MLock, M!BootExclusive, M!Serialized
  <1>5. MSleep'
    BY DEF M!ret_user, MInv, MTypes, MWhere, MTogether, MSleep
  <1>6. MMemory'
    BY DEF M!ret_user, MInv, MTypes, MWhere, MTogether, MSleep, MMemory, MAsleep
  <1>7. MHip'
    BY DEF M!ret_user, MInv, MTypes, MWhere, MTogether, MSleep, MHip
  <1>8. MBarrier'
    <2>1. MArrived' = MArrived
      BY DEF M!ret_user, MInv, MTypes, MWhere, MTogether, MSleep, MArrived
    <2> QED
      BY <2>1 DEF M!ret_user, MInv, MTypes, MWhere, MBarrier
  <1>9. MCount'
    <2>1. \A d \in Procs : mpc'[d] \in {"park_all", "park_wait"} =>
            mpc[d] \in {"park_all", "park_wait"} /\ MParking(d)' = MParking(d)
      BY DEF M!ret_user, MInv, MTypes, MWhere, MTogether, MSleep, MParking
    <2> QED
      BY <2>1 DEF M!ret_user, MInv, MCount
  <1> QED
    BY <1>1, <1>2, <1>3, <1>4, <1>5, <1>6, <1>7, <1>8, <1>9 DEF MInv

LEMMA MP_suspend ==
    ASSUME M!MachineAssumption, MInv, NEW p \in Procs, M!suspend(p) PROVE MInv'
  <1> USE MList DEF M!At, M!Goto, M!start, M!boot, M!work, M!sleep, MLate, MEarly, MBoot, MCaller, MWork, MLabels, MWaking, MSolo, MQuiet, MAsks, MStuck
  <1>a. apic_id = M!Ids
    BY DEF M!suspend, MInv, MTypes, MWhere
  <1>b. M!Online - 1 = Cardinality(M!Listed \ {p}) /\ M!Online - 1 \in Nat
    <2>1. p \in M!Listed
      BY DEF M!suspend, MInv, MWhere
    <2>2. M!Online = Cardinality(M!Listed) /\ M!Online \in Nat \ {0} /\ IsFiniteSet(M!Listed)
      BY <1>a, MOnline DEF M!Online
    <2>3. Cardinality(M!Listed \ {p}) = Cardinality(M!Listed) - 1
      BY <2>1, <2>2, FS_RemoveElement
    <2>4. M!Online - 1 \in Nat
      BY <2>2
    <2> QED
      BY <2>2, <2>3, <2>4
  <1>c. \A q \in M!Listed : mpc[q] # "parked"
    BY DEF M!suspend, MInv, MTypes, MWhere, MTogether, MSleep
  <1>1. MTypes'
    BY <1>b DEF M!suspend, M!Online, MInv, MTypes, MWhere
  <1>2. MWhere'
    BY <1>b DEF M!suspend, M!Online, MInv, MTypes, MWhere, MTogether
  <1>3. MTogether'
    BY <1>b DEF M!suspend, M!Online, MInv, MTypes, MWhere, MTogether, MSleep
  <1>4. MLock'
    BY <1>b DEF M!suspend, M!Online, MInv, MTypes, MWhere, MTogether, MLock, M!BootExclusive, M!Serialized
  <1>5. MSleep'
    BY <1>b DEF M!suspend, M!Online, MInv, MTypes, MWhere, MTogether, MSleep
  <1>6. MMemory'
    BY <1>b DEF M!suspend, M!Online, MInv, MTypes, MWhere, MTogether, MSleep, MMemory, MAsleep
  <1>7. MHip'
    BY <1>b DEF M!suspend, M!Online, MInv, MTypes, MWhere, MTogether, MSleep, MHip
  <1>8. MBarrier'
    <2>1. MArrived' = MArrived
      BY <1>b DEF M!suspend, M!Online, MInv, MTypes, MWhere, MTogether, MSleep, MArrived
    <2> QED
      BY <1>b, <2>1 DEF M!suspend, M!Online, MInv, MTypes, MWhere, MBarrier
  <1>9. MCount'
    <2>1. \A d \in Procs : mpc'[d] \in {"park_all", "park_wait"} => d = p
      BY DEF M!suspend, MInv, MTypes, MSleep
    <2>2. MParking(p)' = M!Listed \ {p}
      BY <1>c DEF M!suspend, MInv, MTypes, MParking
    <2> QED
      BY <1>b, <2>1, <2>2 DEF M!suspend, MCount
  <1> QED
    BY <1>1, <1>2, <1>3, <1>4, <1>5, <1>6, <1>7, <1>8, <1>9 DEF MInv

LEMMA MP_suspend_refused ==
    ASSUME M!MachineAssumption, MInv, NEW p \in Procs, M!suspend_refused(p) PROVE MInv'
  <1> USE MList DEF M!At, M!Goto, M!start, M!boot, M!work, M!sleep, MLate, MEarly, MBoot, MCaller, MWork, MLabels, MWaking, MSolo, MQuiet, MAsks, MStuck
  <1>1. MTypes'
    BY DEF M!suspend_refused, MInv, MTypes, MWhere
  <1>2. MWhere'
    BY DEF M!suspend_refused, MInv, MTypes, MWhere, MTogether
  <1>3. MTogether'
    BY DEF M!suspend_refused, MInv, MTypes, MWhere, MTogether, MSleep
  <1>4. MLock'
    BY DEF M!suspend_refused, MInv, MTypes, MWhere, MTogether, MLock, M!BootExclusive, M!Serialized
  <1>5. MSleep'
    BY DEF M!suspend_refused, MInv, MTypes, MWhere, MTogether, MSleep
  <1>6. MMemory'
    BY DEF M!suspend_refused, MInv, MTypes, MWhere, MTogether, MSleep, MMemory, MAsleep
  <1>7. MHip'
    BY DEF M!suspend_refused, MInv, MTypes, MWhere, MTogether, MSleep, MHip
  <1>8. MBarrier'
    <2>1. MArrived' = MArrived
      BY DEF M!suspend_refused, MInv, MTypes, MWhere, MTogether, MSleep, MArrived
    <2> QED
      BY <2>1 DEF M!suspend_refused, MInv, MTypes, MWhere, MBarrier
  <1>9. MCount'
    <2>1. \A d \in Procs : mpc'[d] \in {"park_all", "park_wait"} =>
            mpc[d] \in {"park_all", "park_wait"} /\ MParking(d)' = MParking(d)
      BY DEF M!suspend_refused, MInv, MTypes, MWhere, MTogether, MSleep, MParking
    <2> QED
      BY <2>1 DEF M!suspend_refused, MInv, MCount
  <1> QED
    BY <1>1, <1>2, <1>3, <1>4, <1>5, <1>6, <1>7, <1>8, <1>9 DEF MInv

LEMMA MP_remote_enqueue ==
    ASSUME M!MachineAssumption, MInv, NEW p \in Procs, NEW q \in Procs, M!remote_enqueue(p, q) PROVE MInv'
  <1> USE MList DEF M!At, M!start, M!boot, M!work, M!sleep, M!remote_enqueue, MInv
  <1>1. hazard' \in [Procs -> SUBSET {"PRK", "RRQ"}] /\ \A d \in Procs : "PRK" \in hazard'[d] => "PRK" \in hazard[d]
    BY DEF MTypes
  <1>2. MTypes' /\ MSleep'
    BY <1>1 DEF MTypes, MSleep, MAsks, MWaking
  <1>3. MWhere' /\ MTogether' /\ MLock' /\ MMemory' /\ MHip'
    BY DEF MWhere, MTogether, MLock, MMemory, MHip, MAsleep, MSolo, MWaking, MQuiet, MStuck, M!BootExclusive
  <1>4. MBarrier' /\ MCount'
    BY DEF MBarrier, MCount, MArrived, MParking
  <1> QED
    BY <1>2, <1>3, <1>4

LEMMA MP_Init == ASSUME M!MachineAssumption, M!Init PROVE MInv
  <1> USE MList DEF M!Init, MLate, MEarly, MBoot, MCaller, MWork, MLabels, MWaking, MSolo, MQuiet, MAsks, MStuck
  <1>1. MTypes
    BY DEF MTypes
  <1>2. MWhere /\ MTogether /\ MLock
    BY DEF MWhere, MTogether, MLock, M!BootExclusive, M!Serialized
  <1>3. MSleep /\ MMemory /\ MHip
    BY DEF MSleep, MMemory, MHip, MAsleep
  <1>4. MBarrier /\ MCount
    <2>1. MArrived = {}
      BY DEF MArrived
    <2> QED
      BY <2>1, FS_EmptySet DEF MBarrier, MCount
  <1> QED
    BY <1>1, <1>2, <1>3, <1>4 DEF MInv

LEMMA MP_Stutter == ASSUME MInv, UNCHANGED M!vars PROVE MInv'
  BY DEF MInv, M!vars, M!start, M!boot, M!work, M!sleep, MTypes, MWhere, MTogether, MLock, MSleep, MMemory, MHip,
         MBarrier, MCount, MArrived, MParking, MAsleep, MSolo, MWaking, MQuiet, MStuck, MAsks, M!BootExclusive

LEMMA MP_Next == ASSUME M!MachineAssumption, MInv, [M!Next]_(M!vars) PROVE MInv'
  <1>1. CASE UNCHANGED M!vars
    BY <1>1, MP_Stutter
  <1>2. ASSUME NEW p \in Procs, M!Step(p) PROVE MInv'
    BY <1>2, MP_init, MP_start_cpu, MP_lock, MP_setup_cpulocal, MP_setup_cpulocal_fails, MP_Cpu_init_bsp, MP_sipi, MP_Cpu_init_ap, MP_release_next_cpu, MP_create_idle_ec, MP_arrive, MP_wait_for_all_cpus, MP_finalize, MP_handle_hazards, MP_do_deferred_nmi_work, MP_EnterKernel, MP_park_all_but_self, MP_park_handler, MP_set_waking_vector, MP_enter_sleep_state_S3, MP_enter_sleep_state_S1, MP_resume_bsp_hi, MP_resume_bsp DEF M!Step
  <1>3. ASSUME NEW p \in Procs, M!ret_user(p) \/ M!suspend(p) \/ M!suspend_refused(p) PROVE MInv'
    BY <1>3, MP_ret_user, MP_suspend, MP_suspend_refused
  <1>4. ASSUME NEW p \in Procs, NEW q \in Procs, M!remote_enqueue(p, q) PROVE MInv'
    BY <1>4, MP_remote_enqueue
  <1> QED
    BY <1>1, <1>2, <1>3, <1>4 DEF M!Next

LEMMA MP_Safe == ASSUME M!MachineAssumption, MInv PROVE M!MachineSafe
  <1> USE MList DEF MInv, MLate, MEarly, MBoot, MCaller, MWork, MLabels, MWaking, MSolo, MQuiet, MAsks, MStuck, M!At
  <1>1. M!BootExclusive
    BY DEF MLock
  <1>2. M!TrampolineThere
    BY DEF M!TrampolineThere, MTypes, MWhere, MMemory, MAsleep
  <1>3. M!Restored
    <2>1. ASSUME mpc[Bsp] \in M!Running, ~in_progress PROVE lowmem = "user" /\ facs = "user"
      <3>1. ~ MAsleep /\ mpc[Bsp] \notin MBoot \cup {"sipi"}
        BY <2>1 DEF MSleep, MAsleep, M!Running
      <3> QED
        BY <3>1 DEF MMemory
    <2> QED
      BY <2>1 DEF M!Restored, MHip
  <1>4. M!AllTogether
    <2>1. ASSUME NEW p \in M!Listed, mpc[p] \in M!Running \cup {"restore"}, NEW q \in M!Listed PROVE mpc[q] \in MLate
      BY <2>1 DEF MTogether, M!Running
    <2>2. ASSUME NEW p \in Procs, mpc[p] = "sleep"
          PROVE  prepared = M!Listed /\ \A q \in M!Listed : mpc[q] \in {"parked", "sleep"}
      BY <2>2 DEF MSleep
    <2> QED
      BY <2>1, <2>2 DEF M!AllTogether, M!Running
  <1> QED
    BY <1>1, <1>2, <1>3, <1>4 DEF M!MachineSafe

\* Boot, S3 and resume (Bootstrap::bootstrap, Lapic::init, Suspend::suspend, start.S):
\* one CPU at a time is on the boot path, low memory is lent once and given back, no
\* CPU serves ECs before all have come up, and S3 finds every other CPU parked.
THEOREM MachineIsSafe == ASSUME M!MachineAssumption PROVE M!Spec => []MachineSafe
  <1>1. M!Init => MInv
    BY MP_Init
  <1>2. MInv /\ [M!Next]_(M!vars) => MInv'
    BY MP_Next
  <1>3. MInv => M!MachineSafe
    BY MP_Safe
  <1>4. M!MachineSafe => MachineSafe
    BY DEF MachineSafe
  <1> QED
    BY <1>1, <1>2, <1>3, <1>4, PTL DEF M!Spec

-----------------------------------------------------------------------------
(* The ready queues (ReadyQueue).                                          *)

\* Lists of SCs by priority, none of them twice.
RList(l) ==
    /\ l \in [0..MaxPrio -> Seq(R!AllScs)]
    /\ \A p \in 0..MaxPrio :
         /\ \A i \in 1..Len(l[p]) : Prio[l[p][i]] = p
         /\ \A i, j \in 1..Len(l[p]) : l[p][i] = l[p][j] => i = j
RIn(l, s) == \E i \in 1..Len(l[Prio[s]]) : l[Prio[s]][i] = s
RWaits(q, s) == \E i \in 1..Len(q) : q[i] = s
RQueue(q) == q \in Seq(Scs) /\ \A i, j \in 1..Len(q) : q[i] = q[j] => i = j

ROut(s) == (s = current /\ rpc # "suspend") \/ s \in blocked
RTypes ==
    /\ RList(ready) /\ RQueue(queue)
    /\ prio_top \in 0..MaxPrio /\ current \in R!AllScs /\ blocked \subseteq Scs
    /\ rpc = "suspend" => current # Idle
RPlaces ==
    /\ \A s \in R!AllScs : ROut(s) <=> ~ RIn(ready, s) /\ ~ RWaits(queue, s)
    /\ \A s \in R!AllScs : ~ (RIn(ready, s) /\ RWaits(queue, s))
    /\ rpc # "suspend" => current \notin blocked
RTop ==
    /\ \A s \in R!AllScs : RIn(ready, s) => Prio[s] <= prio_top
    /\ prio_top > 0 => \E s \in R!AllScs : Prio[s] = prio_top /\ RIn(ready, s)
RInv == RTypes /\ RPlaces /\ RTop

-----------------------------------------------------------------------------
RWith(l, s) == [l EXCEPT ![Prio[s]] = Append(@, s)]
RLess(l, t) == [l EXCEPT ![t] = Tail(@)]

\* One SC goes to the end of the list of its priority.
LEMMA RPut ==
    ASSUME R!QueueAssumption, NEW l, RList(l), NEW s \in R!AllScs, ~ RIn(l, s)
    PROVE  /\ RList(RWith(l, s))
           /\ \A x \in R!AllScs : RIn(RWith(l, s), x) <=> RIn(l, x) \/ x = s
  <1> DEFINE m == [l EXCEPT ![Prio[s]] = Append(@, s)]
             P == Prio[s]
             n == Len(l[P])
  <1>1. P \in 0..MaxPrio /\ \A x \in R!AllScs : Prio[x] \in 0..MaxPrio
    BY DEF R!QueueAssumption
  <1>2. n \in Nat /\ l[P] \in Seq(R!AllScs) /\ m \in [0..MaxPrio -> Seq(R!AllScs)]
    BY <1>1 DEF RList
  <1>3. /\ Len(m[P]) = n + 1 /\ m[P][n + 1] = s /\ (\A i \in 1..n : m[P][i] = l[P][i])
        /\ \A p \in 0..MaxPrio : p # P => m[p] = l[p]
    BY <1>1, <1>2 DEF RList
  <1>4. \A i \in 1..n : l[P][i] # s
    BY DEF RIn
  <1>5. \A i \in 1..(n + 1) : i \in 1..n \/ i = n + 1
    BY <1>2
  <1>6. \A i \in 1..n : i \in 1..(n + 1)
    BY <1>2
  <1>7. n + 1 \in 1..(n + 1)
    BY <1>2
  <1> HIDE DEF m, n, P
  <1>8. RList(m)
    <2> SUFFICES ASSUME NEW p \in 0..MaxPrio
                 PROVE  /\ \A i \in 1..Len(m[p]) : Prio[m[p][i]] = p
                        /\ \A i, j \in 1..Len(m[p]) : m[p][i] = m[p][j] => i = j
      BY <1>2 DEF RList
    <2>1. CASE p # P
      BY <1>3, <2>1 DEF RList
    <2>2. CASE p = P
      <3>1. \A i \in 1..(n + 1) : Prio[m[P][i]] = P
        <4>1. \A i \in 1..n : Prio[l[P][i]] = P
          BY <1>1 DEF RList, n
        <4>2. Prio[s] = P
          BY DEF P
        <4> QED
          BY <1>3, <1>5, <4>1, <4>2
      <3>2. \A i, j \in 1..(n + 1) : m[P][i] = m[P][j] => i = j
        BY <1>1, <1>3, <1>4, <1>5 DEF RList, n
      <3> QED
        BY <1>3, <2>2, <3>1, <3>2
    <2> QED
      BY <2>1, <2>2
  <1>9. ASSUME NEW x \in R!AllScs PROVE RIn(m, x) <=> RIn(l, x) \/ x = s
    <2>1. CASE Prio[x] # P
      BY <1>1, <1>3, <2>1 DEF RIn, P
    <2>2. CASE Prio[x] = P
      BY <1>3, <1>5, <1>6, <1>7, <2>2 DEF RIn, n
    <2> QED
      BY <2>1, <2>2
  <1> QED
    BY <1>8, <1>9 DEF m, RWith

\* The first SC of a list leaves it.
LEMMA RTake ==
    ASSUME R!QueueAssumption, NEW l, RList(l), NEW t \in 0..MaxPrio, l[t] # <<>>
    PROVE  /\ RList(RLess(l, t)) /\ Head(l[t]) \in R!AllScs /\ RIn(l, Head(l[t]))
           /\ \A x \in R!AllScs : RIn(RLess(l, t), x) <=> RIn(l, x) /\ x # Head(l[t])
  <1> DEFINE m == [l EXCEPT ![t] = Tail(@)]
             h == Head(l[t])
             n == Len(l[t])
  <1>1. l[t] \in Seq(R!AllScs) /\ n \in Nat \ {0} /\ h \in R!AllScs /\ h = l[t][1]
    BY DEF RList
  <1>2. m \in [0..MaxPrio -> Seq(R!AllScs)] /\ Len(m[t]) = n - 1 /\ n - 1 \in Nat
    BY <1>1 DEF RList
  <1>3. \A i \in 1..(n - 1) : m[t][i] = l[t][i + 1]
    BY <1>1 DEF RList
  <1>4. \A p \in 0..MaxPrio : p # t => m[p] = l[p]
    BY DEF RList
  <1>5. /\ \A i \in 1..(n - 1) : i \in Nat /\ i + 1 \in 1..n /\ i + 1 # 1
        /\ \A i \in 1..n : i = 1 \/ (i - 1 \in 1..(n - 1) /\ (i - 1) + 1 = i)
        /\ 1 \in 1..n
    BY <1>1
  <1>6. Prio[h] = t
    BY <1>1, <1>5 DEF RList
  <1>7. RIn(l, h)
    BY <1>1, <1>5, <1>6 DEF RIn
  <1>8. \A i, j \in 1..(n - 1) : i + 1 = j + 1 => i = j
    BY <1>1
  <1> HIDE DEF m, n, h
  <1>9. RList(m)
    <2> SUFFICES ASSUME NEW p \in 0..MaxPrio
                 PROVE  /\ \A i \in 1..Len(m[p]) : Prio[m[p][i]] = p
                        /\ \A i, j \in 1..Len(m[p]) : m[p][i] = m[p][j] => i = j
      BY <1>2 DEF RList
    <2>1. CASE p # t
      BY <1>4, <2>1 DEF RList
    <2>2. CASE p = t
      <3>1. \A i \in 1..(n - 1) : Prio[m[t][i]] = t
        BY <1>3, <1>5 DEF RList, n
      <3>2. \A i, j \in 1..(n - 1) : m[t][i] = m[t][j] => i = j
        BY <1>3, <1>5, <1>8 DEF RList, n
      <3> QED
        BY <1>2, <2>2, <3>1, <3>2
    <2> QED
      BY <2>1, <2>2
  <1>10. ASSUME NEW x \in R!AllScs PROVE RIn(m, x) <=> RIn(l, x) /\ x # h
    <2>1. CASE Prio[x] # t
      BY <1>4, <1>6, <2>1 DEF RIn, R!QueueAssumption
    <2>2. CASE Prio[x] = t
      <3>1. ASSUME RIn(m, x) PROVE RIn(l, x) /\ x # h
        <4>1. PICK i \in 1..(n - 1) : m[t][i] = x
          BY <1>2, <2>2, <3>1 DEF RIn
        <4>2. l[t][i + 1] = x /\ i + 1 \in 1..n /\ i + 1 # 1
          BY <1>3, <1>5, <4>1
        <4> QED
          BY <1>1, <1>5, <2>2, <4>2 DEF RIn, RList, n
      <3>2. ASSUME RIn(l, x), x # h PROVE RIn(m, x)
        <4>1. PICK i \in 1..n : l[t][i] = x
          BY <2>2, <3>2 DEF RIn, n
        <4>2. i - 1 \in 1..(n - 1) /\ (i - 1) + 1 = i
          BY <1>1, <1>5, <3>2, <4>1
        <4>3. m[t][i - 1] = x
          BY <1>3, <4>1, <4>2
        <4> QED
          BY <1>2, <2>2, <4>2, <4>3 DEF RIn
      <3> QED
        BY <3>1, <3>2
    <2> QED
      BY <2>1, <2>2
  <1> QED
    BY <1>1, <1>7, <1>9, <1>10 DEF m, h, RLess

LEMMA RNonempty ==
    ASSUME R!QueueAssumption, NEW l, RList(l), NEW p \in 0..MaxPrio
    PROVE  l[p] # <<>> <=> \E x \in R!AllScs : Prio[x] = p /\ RIn(l, x)
  <1>1. l[p] \in Seq(R!AllScs)
    BY DEF RList
  <1>2. ASSUME l[p] # <<>> PROVE \E x \in R!AllScs : Prio[x] = p /\ RIn(l, x)
    <2>1. l[p][1] \in R!AllScs /\ 1 \in 1..Len(l[p])
      BY <1>1, <1>2
    <2>2. Prio[l[p][1]] = p
      BY <2>1 DEF RList
    <2> QED
      BY <2>1, <2>2 DEF RIn
  <1>3. ASSUME NEW x \in R!AllScs, Prio[x] = p, RIn(l, x) PROVE l[p] # <<>>
    BY <1>1, <1>3 DEF RIn
  <1> QED
    BY <1>2, <1>3

LEMMA RMax ==
    ASSUME NEW n \in Nat, NEW N, N \subseteq 0..n, N # {}
    PROVE  R!MaxOf(N) \in N /\ \A x \in N : x <= R!MaxOf(N)
  <1> DEFINE Rest == {k \in 0..n : n - k \in N}
  <1>1. \A x \in N : n - x \in Rest
    OBVIOUS
  <1>2. Rest \subseteq Nat /\ Rest # {}
    <2>1. PICK x \in N : TRUE
      OBVIOUS
    <2>2. n - x \in Rest
      BY <1>1, <2>1
    <2>3. Rest \subseteq Nat
      OBVIOUS
    <2> HIDE DEF Rest
    <2> QED
      BY <2>2, <2>3
  <1>3. PICK k \in Rest : \A j \in Rest : k <= j
    BY <1>2, Smallest
  <1>4. n - k \in N /\ k \in 0..n
    OBVIOUS
  <1>5. \A x \in N : x <= n - k
    BY <1>1, <1>3, <1>4
  <1>6. \E m \in N : \A x \in N : x <= m
    BY <1>4, <1>5
  <1> QED
    BY <1>6 DEF R!MaxOf

\* e[i] holds the lists with the first i SCs of q enqueued.
RSteps(l, q, n, e) ==
    e = [i \in 0..n |-> IF i = 0 THEN l ELSE [e[i - 1] EXCEPT ![Prio[q[i]]] = Append(@, q[i])]]

\* The recursive function in Enqueued exists and does what its definition says.
LEMMA REnqueuedUnfolds ==
    ASSUME NEW l, NEW q, Len(q) \in Nat
    PROVE  \E e : RSteps(l, q, Len(q), e) /\ R!Enqueued(l, q) = e[Len(q)]
  <1> DEFINE Put(m, i) == [m EXCEPT ![Prio[q[i]]] = Append(@, q[i])]
             Rec(n, e) == e = [i \in 0..n |-> IF i = 0 THEN l ELSE Put(e[i - 1], i)]
             Bad == {n \in 0..Len(q) : ~ \E e : Rec(n, e)}
  <1> HIDE DEF Put
  <1>1. Bad = {}
    <2> SUFFICES ASSUME Bad # {} PROVE FALSE
      OBVIOUS
    <2>1. PICK n \in Bad : \A j \in Bad : n <= j
      BY Smallest, Bad \subseteq Nat
    <2>2. n # 0
      <3>1. Rec(0, [i \in 0..0 |-> l])
        OBVIOUS
      <3> QED
        BY <3>1
    <2>3. n \in Nat /\ n - 1 \in 0..Len(q) /\ ~ (n <= n - 1)
      BY <2>2
    <2>4. n - 1 \notin Bad
      <3> HIDE DEF Bad
      <3> QED
        BY <2>1, <2>3
    <2>5. PICK f : Rec(n - 1, f)
      BY <2>3, <2>4
    <2> DEFINE g == [i \in 0..n |-> IF i = n THEN Put(f[i - 1], i) ELSE f[i]]
    <2>6. ASSUME NEW i \in 0..n PROVE g[i] = IF i = 0 THEN l ELSE Put(g[i - 1], i)
      <3>1. CASE i = n
        <4>1. i - 1 \in 0..n /\ i - 1 # n /\ i # 0
          BY <2>2, <2>3, <3>1
        <4>2. g[i - 1] = f[i - 1]
          BY <4>1
        <4> QED
          BY <3>1, <4>1, <4>2
      <3>2. CASE i # n /\ i = 0
        <4>1. f[0] = l
          BY <2>3, <2>5
        <4> QED
          BY <3>2, <4>1
      <3>3. CASE i # n /\ i # 0
        <4>1. i \in 0..(n - 1) /\ i - 1 \in 0..n /\ i - 1 # n
          BY <2>3, <3>3
        <4>2. f[i] = Put(f[i - 1], i)
          BY <2>5, <4>1, <3>3
        <4>3. g[i - 1] = f[i - 1] /\ g[i] = f[i]
          BY <4>1, <3>3
        <4> QED
          BY <3>3, <4>2, <4>3
      <3> QED
        BY <3>1, <3>2, <3>3
    <2>7. Rec(n, g)
      BY <2>6
    <2> QED
      BY <2>7
  <1>2. \E e : Rec(Len(q), e)
    BY <1>1
  <1>3. Rec(Len(q), CHOOSE e : Rec(Len(q), e))
    <2> HIDE DEF Rec
    <2> QED
      BY <1>2
  <1>4. R!Enqueued(l, q) = (CHOOSE e : Rec(Len(q), e))[Len(q)]
    BY DEF R!Enqueued, Put
  <1>5. \A e : Rec(Len(q), e) => RSteps(l, q, Len(q), e)
    BY DEF RSteps, Put
  <1> HIDE DEF Rec
  <1> QED
    BY <1>3, <1>4, <1>5

\* It starts with the lists as they are.
LEMMA RFirst ==
    ASSUME NEW l, NEW q, NEW n \in Nat, NEW e, RSteps(l, q, n, e)
    PROVE  e[0] = l
  <1>1. 0 \in 0..n
    OBVIOUS
  <1> QED
    BY <1>1, Zenon DEF RSteps

\* SCs that are on no list are all on one afterwards, and nothing else changes.
LEMMA REnqueue ==
    ASSUME R!QueueAssumption, NEW l, RList(l), NEW q \in Seq(R!AllScs),
           \A i, j \in 1..Len(q) : q[i] = q[j] => i = j,
           \A i \in 1..Len(q) : ~ RIn(l, q[i])
    PROVE  /\ RList(R!Enqueued(l, q))
           /\ \A x \in R!AllScs : RIn(R!Enqueued(l, q), x) <=> RIn(l, x) \/ RWaits(q, x)
  <1>1. Len(q) \in Nat /\ \A i \in 1..Len(q) : q[i] \in R!AllScs
    OBVIOUS
  <1>2. PICK e : RSteps(l, q, Len(q), e) /\ R!Enqueued(l, q) = e[Len(q)]
    BY <1>1, REnqueuedUnfolds
  <1> DEFINE Good(n) == /\ RList(e[n])
                        /\ \A x \in R!AllScs : RIn(e[n], x) <=> RIn(l, x) \/ \E i \in 1..n : q[i] = x
             Bad == {n \in 0..Len(q) : ~ Good(n)}
  <1>3. Bad = {}
    <2> SUFFICES ASSUME Bad # {} PROVE FALSE
      OBVIOUS
    <2>1. PICK n \in Bad : \A j \in Bad : n <= j
      BY <1>1, Smallest, Bad \subseteq Nat
    <2>2. n # 0
      <3>1. e[0] = l
        BY <1>1, <1>2, RFirst
      <3>2. Good(0)
        BY <3>1
      <3> QED
        BY <3>2
    <2>3. n \in 1..Len(q) /\ n - 1 \in 0..Len(q) /\ ~ (n <= n - 1)
      BY <1>1, <2>2
    <2>4. n - 1 \notin Bad
      <3> HIDE DEF Bad
      <3> QED
        BY <2>1, <2>3
    <2>5. RList(e[n - 1]) /\ \A x \in R!AllScs : RIn(e[n - 1], x) <=> RIn(l, x) \/ \E i \in 1..(n - 1) : q[i] = x
      BY <2>3, <2>4
    <2>6. e[n] = RWith(e[n - 1], q[n])
      BY <1>1, <1>2, <2>2, <2>3 DEF RSteps, RWith
    <2>7. \A i \in 1..(n - 1) : i \in 1..n /\ i # n /\ i \in 1..Len(q)
      BY <1>1, <2>3
    <2>8. \A i \in 1..n : i \in 1..(n - 1) \/ i = n
      BY <1>1, <2>3
    <2>9. ~ RIn(e[n - 1], q[n]) /\ q[n] \in R!AllScs
      BY <1>1, <2>3, <2>5, <2>7
    <2>10. RList(e[n]) /\ \A x \in R!AllScs : RIn(e[n], x) <=> RIn(e[n - 1], x) \/ x = q[n]
      BY <2>5, <2>6, <2>9, RPut
    <2>11. n \in 1..n
      BY <2>3
    <2>12. \A x \in R!AllScs : RIn(e[n], x) <=> RIn(l, x) \/ \E i \in 1..n : q[i] = x
      BY <2>5, <2>7, <2>8, <2>10, <2>11
    <2> QED
      BY <2>10, <2>12
  <1>4. Good(Len(q))
    BY <1>1, <1>3
  <1> QED
    BY <1>2, <1>4 DEF RWaits

-----------------------------------------------------------------------------
(* The steps.                                                              *)

\* What TypeOK, OnePlace and PrioTopExact say follows.
LEMMA RSafe == ASSUME R!QueueAssumption, RInv PROVE R!QueuesExact
  <1>1. \A s \in R!AllScs : Prio[s] \in 0..MaxPrio
    BY DEF R!QueueAssumption
  <1>2. R!OnePlace
    <2> SUFFICES ASSUME NEW s \in R!AllScs
                 PROVE  IF ROut(s) THEN R!Linked(s) = {} ELSE \E x \in R!Linked(s) : R!Linked(s) = {x}
      BY DEF R!OnePlace, ROut
    <2> DEFINE l == ready[Prio[s]]
    <2>1. /\ \A i, j \in 1..Len(l) : l[i] = l[j] => i = j
          /\ \A i, j \in 1..Len(queue) : queue[i] = queue[j] => i = j
      BY <1>1 DEF RInv, RTypes, RList, RQueue
    <2>2. CASE ROut(s)
      <3>1. ~ RIn(ready, s) /\ ~ RWaits(queue, s)
        BY <2>2 DEF RInv, RPlaces
      <3> QED
        BY <2>2, <3>1 DEF R!Linked, RIn, RWaits
    <2>3. CASE ~ ROut(s) /\ RIn(ready, s)
      <3>1. ~ RWaits(queue, s)
        BY <2>3 DEF RInv, RPlaces
      <3>2. PICK i \in 1..Len(l) : l[i] = s
        BY <2>3 DEF RIn
      <3>3. R!Linked(s) = {<<"list", i>>}
        BY <2>1, <3>1, <3>2 DEF R!Linked, RWaits
      <3> QED
        BY <2>3, <3>3
    <2>4. CASE ~ ROut(s) /\ RWaits(queue, s)
      <3>1. ~ RIn(ready, s)
        BY <2>4 DEF RInv, RPlaces
      <3>2. PICK i \in 1..Len(queue) : queue[i] = s
        BY <2>4 DEF RWaits
      <3>3. R!Linked(s) = {<<"queue", i>>}
        BY <2>1, <3>1, <3>2 DEF R!Linked, RIn
      <3> QED
        BY <2>4, <3>3
    <2> QED
      BY <2>2, <2>3, <2>4 DEF RInv, RPlaces
  <1>3. R!PrioTopExact
    <2>1. ASSUME NEW p \in 0..MaxPrio, p > prio_top PROVE ready[p] = <<>>
      <3>1. ~ \E x \in R!AllScs : Prio[x] = p /\ RIn(ready, x)
        BY <1>1, <2>1 DEF RInv, RTypes, RTop
      <3> QED
        BY <3>1, RNonempty DEF RInv, RTypes
    <2>2. ASSUME prio_top > 0 \/ current # Idle PROVE ready[prio_top] # <<>>
      <3>1. \E x \in R!AllScs : Prio[x] = prio_top /\ RIn(ready, x)
        <4>1. CASE prio_top > 0
          BY <4>1 DEF RInv, RTop
        <4>2. CASE ~ (prio_top > 0) /\ current # Idle
          <5>1. prio_top = 0 /\ Idle \in R!AllScs
            BY <4>2 DEF RInv, RTypes, R!QueueAssumption, R!AllScs
          <5>2. ~ ROut(Idle) /\ ~ RWaits(queue, Idle)
            BY <4>2 DEF RInv, RTypes, ROut, RWaits, RQueue, R!QueueAssumption
          <5> QED
            BY <5>1, <5>2 DEF RInv, RPlaces, R!QueueAssumption
        <4> QED
          BY <2>2, <4>1, <4>2
      <3>2. prio_top \in 0..MaxPrio /\ RList(ready)
        BY DEF RInv, RTypes
      <3> QED
        BY <3>1, <3>2, RNonempty
    <2> QED
      BY <2>1, <2>2 DEF R!PrioTopExact
  <1> QED
    BY <1>2, <1>3 DEF R!QueuesExact

\* A list that gets the SCs of q, with prio_top raised for them.
LEMMA RRaise ==
    ASSUME R!QueueAssumption, RInv, NEW q \in Seq(R!AllScs), NEW l, RList(l),
           \A x \in R!AllScs : RIn(l, x) <=> RIn(ready, x) \/ RWaits(q, x)
    PROVE  /\ R!TopAfter(prio_top, q) \in 0..MaxPrio
           /\ \A s \in R!AllScs : RIn(l, s) => Prio[s] <= R!TopAfter(prio_top, q)
           /\ R!TopAfter(prio_top, q) > 0 =>
                \E s \in R!AllScs : Prio[s] = R!TopAfter(prio_top, q) /\ RIn(l, s)
  <1> DEFINE N == {prio_top} \cup {Prio[q[i]] : i \in 1..Len(q)}
             t == R!TopAfter(prio_top, q)
  <1>1. Len(q) \in Nat /\ \A i \in 1..Len(q) : q[i] \in R!AllScs
    OBVIOUS
  <1>2. MaxPrio \in Nat /\ prio_top \in 0..MaxPrio /\ \A s \in R!AllScs : Prio[s] \in 0..MaxPrio
    BY DEF R!QueueAssumption, RInv, RTypes
  <1>3. N \subseteq 0..MaxPrio /\ N # {}
    BY <1>1, <1>2
  <1>4. t = R!MaxOf(N)
    BY DEF R!TopAfter
  <1>5. t \in N /\ \A x \in N : x <= t
    <2> HIDE DEF N, t
    <2> QED
      BY <1>2, <1>3, <1>4, RMax
  <1> HIDE DEF t
  <1>6. t \in 0..MaxPrio
    BY <1>3, <1>5
  <1>7. ASSUME NEW s \in R!AllScs, RIn(l, s) PROVE Prio[s] <= t
    <2>1. CASE RIn(ready, s)
      <3>1. Prio[s] <= prio_top /\ prio_top <= t
        BY <1>5, <2>1 DEF RInv, RTop
      <3> QED
        BY <1>2, <1>6, <3>1
    <2>2. CASE RWaits(q, s)
      BY <1>5, <2>2 DEF RWaits
    <2> QED
      BY <1>7, <2>1, <2>2
  <1>8. ASSUME t > 0 PROVE \E s \in R!AllScs : Prio[s] = t /\ RIn(l, s)
    <2>1. CASE t = prio_top
      BY <1>8, <2>1 DEF RInv, RTop
    <2>2. CASE \E i \in 1..Len(q) : t = Prio[q[i]]
      BY <1>1, <2>2 DEF RWaits
    <2> QED
      BY <1>5, <2>1, <2>2
  <1> QED
    BY <1>6, <1>7, <1>8 DEF t

\* Sc::schedule takes the first SC of highest priority.
LEMMA RPick ==
    ASSUME R!QueueAssumption, NEW l, RList(l), NEW t \in 0..MaxPrio, R!Pick(l, t),
           \A s \in R!AllScs : RIn(l, s) => Prio[s] <= t, l[t] # <<>>
    PROVE  /\ RList(ready') /\ current' \in R!AllScs /\ RIn(l, current') /\ rpc' = "exit"
           /\ \A x \in R!AllScs : RIn(ready', x) <=> RIn(l, x) /\ x # current'
           /\ prio_top' \in 0..MaxPrio /\ RTop'
  <1>1. ready' = RLess(l, t) /\ current' = Head(l[t]) /\ prio_top' = R!TopOf(RLess(l, t), t) /\ rpc' = "exit"
    BY DEF R!Pick, RLess
  <1>2. /\ RList(ready') /\ current' \in R!AllScs /\ RIn(l, current')
        /\ \A x \in R!AllScs : RIn(ready', x) <=> RIn(l, x) /\ x # current'
    BY <1>1, RTake
  <1> DEFINE N == {0} \cup {p \in 0..t : ready'[p] # <<>>}
  <1>3. MaxPrio \in Nat /\ N \subseteq 0..MaxPrio /\ N # {} /\ \A s \in R!AllScs : Prio[s] \in 0..MaxPrio
    BY DEF R!QueueAssumption
  <1>4. prio_top' = R!MaxOf(N)
    BY <1>1 DEF R!TopOf
  <1>5. prio_top' \in N /\ \A x \in N : x <= prio_top'
    <2> HIDE DEF N
    <2> QED
      BY <1>3, <1>4, RMax
  <1>6. prio_top' \in 0..MaxPrio
    BY <1>3, <1>5
  <1>7. ASSUME NEW s \in R!AllScs, RIn(ready', s) PROVE Prio[s] <= prio_top'
    <2>1. ready'[Prio[s]] # <<>> /\ Prio[s] \in 0..t
      BY <1>2, <1>3, <1>7, RNonempty
    <2> QED
      BY <1>5, <2>1
  <1>8. ASSUME prio_top' > 0 PROVE \E s \in R!AllScs : Prio[s] = prio_top' /\ RIn(ready', s)
    <2>1. ready'[prio_top'] # <<>>
      BY <1>5, <1>8
    <2> QED
      BY <1>2, <1>6, <2>1, RNonempty
  <1> QED
    BY <1>1, <1>2, <1>6, <1>7, <1>8 DEF RTop


LEMMA RInit == ASSUME R!QueueAssumption, R!Init PROVE RInv
  <1> DEFINE e == [p \in 0..MaxPrio |-> <<>>]
  <1>1. ready = e /\ queue = <<>> /\ prio_top = 0 /\ current = Idle /\ blocked = Scs /\ rpc = "exit"
    BY DEF R!Init
  <1>2. RList(ready) /\ RQueue(queue)
    BY <1>1 DEF RList, RQueue
  <1>3. \A s \in R!AllScs : ~ RIn(ready, s) /\ ~ RWaits(queue, s)
    BY <1>1 DEF RIn, RWaits, R!QueueAssumption
  <1> QED
    BY <1>1, <1>2, <1>3 DEF RInv, RTypes, RPlaces, RTop, ROut, R!AllScs, R!QueueAssumption

\* Steps that move no SC.
LEMMA RStays ==
    ASSUME RInv, UNCHANGED <<ready, prio_top, current, queue, blocked>>,
           (rpc # "suspend" /\ rpc' # "suspend") \/ rpc' = rpc
    PROVE  RInv'
  BY DEF RInv, RTypes, RPlaces, RTop, RList, RQueue, RIn, RWaits, ROut

\* An SC of this CPU is woken here.
LEMMA RReady ==
    ASSUME R!QueueAssumption, RInv, NEW s \in Scs, R!ready_enqueue(s) PROVE RInv'
  <1> DEFINE q == <<s>>
  <1>1. /\ q \in Seq(R!AllScs) /\ (\A i, j \in 1..Len(q) : q[i] = q[j] => i = j)
        /\ s \in R!AllScs /\ \A x \in R!AllScs : RWaits(q, x) <=> x = s
    BY DEF R!AllScs, RWaits
  <1>2. s \in blocked /\ ROut(s) /\ rpc = "kernel"
    BY DEF R!ready_enqueue, ROut
  <1>3. \A i \in 1..Len(q) : ~ RIn(ready, q[i])
    BY <1>1, <1>2 DEF RInv, RPlaces
  <1>4. /\ ready' = R!Enqueued(ready, q) /\ prio_top' = R!TopAfter(prio_top, q)
        /\ blocked' = blocked \ {s} /\ UNCHANGED <<current, queue, rpc>>
    BY DEF R!ready_enqueue
  <1> HIDE DEF q
  <1>5. RList(ready') /\ \A x \in R!AllScs : RIn(ready', x) <=> RIn(ready, x) \/ RWaits(q, x)
    BY <1>1, <1>3, <1>4, REnqueue DEF RInv, RTypes
  <1>6. prio_top' \in 0..MaxPrio /\ RTop'
    BY <1>1, <1>4, <1>5, RRaise DEF RTop
  <1>7. RTypes'
    BY <1>4, <1>5, <1>6 DEF RInv, RTypes
  <1>8. RPlaces'
    BY <1>1, <1>2, <1>4, <1>5 DEF RInv, RPlaces, ROut
  <1> QED
    BY <1>6, <1>7, <1>8 DEF RInv

\* The current SC can be woken, but still holds the CPU.
LEMMA RBlock == ASSUME R!QueueAssumption, RInv, R!block_sc PROVE RInv'
  <1>1. /\ rpc = "kernel" /\ rpc' = "suspend" /\ current # Idle /\ blocked' = blocked \cup {current}
        /\ UNCHANGED <<ready, prio_top, current, queue>>
    BY DEF R!block_sc, R!ready
  <1> QED
    BY <1>1 DEF RInv, RTypes, RPlaces, RTop, RList, RQueue, RIn, RWaits, ROut, R!AllScs

\* ... which it gives up, blocked or woken already.
LEMMA RSuspend == ASSUME R!QueueAssumption, RInv, R!schedule_suspend PROVE RInv'
  <1>1. rpc = "suspend" /\ R!Pick(ready, prio_top) /\ UNCHANGED <<queue, blocked>>
    BY DEF R!schedule_suspend
  <1>2. current # Idle /\ RList(ready) /\ prio_top \in 0..MaxPrio
    BY <1>1 DEF RInv, RTypes
  <1>3. ready[prio_top] # <<>>
    BY <1>2, RSafe DEF R!QueuesExact, R!PrioTopExact
  <1>4. \A s \in R!AllScs : RIn(ready, s) => Prio[s] <= prio_top
    BY DEF RInv, RTop
  <1>5. /\ RList(ready') /\ current' \in R!AllScs /\ RIn(ready, current') /\ rpc' = "exit"
        /\ \A x \in R!AllScs : RIn(ready', x) <=> RIn(ready, x) /\ x # current'
        /\ prio_top' \in 0..MaxPrio /\ RTop'
    BY <1>1, <1>2, <1>3, <1>4, RPick
  <1>6. RTypes'
    BY <1>1, <1>5 DEF RInv, RTypes
  <1>7. RPlaces'
    BY <1>1, <1>5 DEF RInv, RPlaces, ROut
  <1> QED
    BY <1>5, <1>6, <1>7 DEF RInv

\* The current SC goes to the end of its list and the first one runs.
LEMMA RSchedule == ASSUME R!QueueAssumption, RInv, R!schedule PROVE RInv'
  <1> DEFINE q == <<current>>
             l == R!Enqueued(ready, q)
             t == R!TopAfter(prio_top, q)
  <1>1. rpc \in {"kernel", "reschedule"} /\ R!Pick(l, t) /\ UNCHANGED <<queue, blocked>>
    BY DEF R!schedule
  <1>2. /\ q \in Seq(R!AllScs) /\ (\A i, j \in 1..Len(q) : q[i] = q[j] => i = j) /\ current \in R!AllScs
        /\ \A x \in R!AllScs : RWaits(q, x) <=> x = current
    BY DEF RInv, RTypes, RWaits
  <1>3. \A i \in 1..Len(q) : ~ RIn(ready, q[i])
    BY <1>1, <1>2 DEF RInv, RPlaces, ROut
  <1> HIDE DEF q
  <1>4. RList(l) /\ \A x \in R!AllScs : RIn(l, x) <=> RIn(ready, x) \/ RWaits(q, x)
    BY <1>2, <1>3, REnqueue DEF RInv, RTypes
  <1> HIDE DEF l
  <1>5. /\ t \in 0..MaxPrio /\ \A s \in R!AllScs : RIn(l, s) => Prio[s] <= t
        /\ t > 0 => \E s \in R!AllScs : Prio[s] = t /\ RIn(l, s)
    BY <1>2, <1>4, RRaise
  <1> HIDE DEF t
  <1>6. l[t] # <<>>
    <2>1. \E s \in R!AllScs : Prio[s] = t /\ RIn(l, s)
      <3>1. RIn(l, current)
        BY <1>2, <1>4
      <3>2. CASE t = 0
        <4>1. Prio[current] \in 0..MaxPrio /\ Prio[current] <= 0
          BY <1>2, <1>5, <3>1, <3>2 DEF R!QueueAssumption
        <4> QED
          BY <1>2, <3>1, <3>2, <4>1
      <3>3. CASE t # 0
        BY <1>5, <3>3
      <3> QED
        BY <3>2, <3>3
    <2> QED
      BY <1>4, <1>5, <2>1, RNonempty
  <1>7. /\ RList(ready') /\ current' \in R!AllScs /\ RIn(l, current') /\ rpc' = "exit"
        /\ \A x \in R!AllScs : RIn(ready', x) <=> RIn(l, x) /\ x # current'
        /\ prio_top' \in 0..MaxPrio /\ RTop'
    BY <1>1, <1>4, <1>5, <1>6, RPick
  <1>8. RTypes'
    BY <1>1, <1>7 DEF RInv, RTypes
  <1>9. RPlaces'
    BY <1>1, <1>2, <1>4, <1>7 DEF RInv, RPlaces, ROut
  <1> QED
    BY <1>7, <1>8, <1>9 DEF RInv

\* All SCs of the remote queue become ready.
LEMMA RDrain ==
    ASSUME R!QueueAssumption, RInv, R!rrq_handler, rpc # "suspend", rpc' # "suspend" PROVE RInv'
  <1>1. /\ ready' = R!Enqueued(ready, queue) /\ prio_top' = R!TopAfter(prio_top, queue)
        /\ queue' = <<>> /\ UNCHANGED <<current, blocked>>
    BY DEF R!rrq_handler
  <1>2. queue \in Seq(R!AllScs) /\ (\A i, j \in 1..Len(queue) : queue[i] = queue[j] => i = j)
    <2>1. queue \in Seq(Scs) /\ Scs \subseteq R!AllScs
      BY DEF RInv, RTypes, RQueue, R!AllScs
    <2> QED
      BY <2>1 DEF RInv, RTypes, RQueue
  <1>3. \A i \in 1..Len(queue) : queue[i] \in R!AllScs /\ RWaits(queue, queue[i])
    BY <1>2 DEF RWaits
  <1>4. \A i \in 1..Len(queue) : ~ RIn(ready, queue[i])
    BY <1>3 DEF RInv, RPlaces
  <1>5. RList(ready') /\ \A x \in R!AllScs : RIn(ready', x) <=> RIn(ready, x) \/ RWaits(queue, x)
    BY <1>1, <1>2, <1>4, REnqueue DEF RInv, RTypes
  <1>6. prio_top' \in 0..MaxPrio /\ RTop'
    BY <1>1, <1>2, <1>5, RRaise DEF RTop
  <1>7. RQueue(queue') /\ \A x \in R!AllScs : ~ RWaits(queue', x)
    BY <1>1 DEF RQueue, RWaits
  <1>8. RTypes'
    BY <1>1, <1>5, <1>6, <1>7 DEF RInv, RTypes
  <1>9. RPlaces'
    BY <1>1, <1>5, <1>7 DEF RInv, RPlaces, ROut
  <1> QED
    BY <1>6, <1>8, <1>9 DEF RInv

\* Another CPU wakes an SC.
LEMMA RRemote ==
    ASSUME R!QueueAssumption, RInv, NEW w \in Wakers, NEW s \in Scs, R!remote_enqueue(w, s) PROVE RInv'
  <1> DEFINE n == Len(queue)
  <1>1. /\ s \in blocked /\ blocked' = blocked \ {s} /\ queue' = Append(queue, s)
        /\ UNCHANGED <<ready, prio_top, current, rpc>> /\ s \in R!AllScs
    BY DEF R!remote_enqueue, R!ready, R!AllScs
  <1>2. queue \in Seq(Scs) /\ n \in Nat /\ (\A i, j \in 1..n : queue[i] = queue[j] => i = j)
    BY DEF RInv, RTypes, RQueue
  <1>3. ROut(s) /\ ~ RIn(ready, s) /\ ~ RWaits(queue, s)
    BY <1>1 DEF RInv, RPlaces, ROut
  <1>4. /\ Len(queue') = n + 1 /\ queue' \in Seq(Scs) /\ queue'[n + 1] = s
        /\ \A i \in 1..n : queue'[i] = queue[i]
    BY <1>1, <1>2
  <1>5. (\A i \in 1..(n + 1) : i \in 1..n \/ i = n + 1) /\ (\A i \in 1..n : i \in 1..(n + 1)) /\ n + 1 \in 1..(n + 1)
    BY <1>2
  <1>6. \A i \in 1..n : queue[i] # s
    BY <1>3 DEF RWaits
  <1> HIDE DEF n
  <1>7. RQueue(queue')
    BY <1>2, <1>4, <1>5, <1>6 DEF RQueue
  <1>8. \A x \in R!AllScs : RWaits(queue', x) <=> RWaits(queue, x) \/ x = s
    BY <1>4, <1>5 DEF RWaits, n
  <1>9. RTypes' /\ RTop'
    BY <1>1, <1>7 DEF RInv, RTypes, RTop, RList, RIn
  <1>10. \A x \in R!AllScs : RIn(ready', x) <=> RIn(ready, x)
    BY <1>1 DEF RIn
  <1>11. RPlaces'
    BY <1>1, <1>3, <1>8, <1>10 DEF RInv, RPlaces, ROut
  <1> QED
    BY <1>9, <1>11 DEF RInv

LEMMA RNext == ASSUME R!QueueAssumption, RInv, [R!Next]_(R!vars) PROVE RInv'
  <1>1. CASE UNCHANGED R!vars
    BY <1>1, RStays DEF R!vars
  <1>2. CASE R!Enter \/ R!handle_hazards \/ R!ret_user_iret \/ R!monitor \/ R!mwait \/ R!nmi_clear
    BY <1>2, RStays DEF R!Enter, R!handle_hazards, R!ret_user_iret, R!monitor, R!mwait, R!nmi_clear, R!ready
  <1>3. CASE R!Nmi
    BY <1>3, RStays DEF R!Nmi, R!nmi_in_kernel, R!nmi_in_user, R!ready
  <1>4. CASE R!handle_rrq
    <2>1. rpc = "hazards" /\ rpc' # "suspend"
      BY <1>4 DEF R!handle_rrq, R!AfterHazards
    <2>2. CASE R!rrq_handler
      BY <2>1, <2>2, RDrain
    <2>3. CASE UNCHANGED <<R!ready, queue, blocked>>
      BY <2>1, <2>3, RStays DEF R!ready
    <2> QED
      BY <1>4, <2>2, <2>3 DEF R!handle_rrq
  <1>5. CASE R!nmi_rrq
    BY <1>5, RDrain DEF R!nmi_rrq
  <1>6. ASSUME NEW w \in Wakers, R!Waker(w) PROVE RInv'
    BY <1>6, RStays DEF R!Waker, R!set_rrq, R!send_nmi, R!ready
  <1>7. CASE R!Kernel
    BY <1>2, <1>4, <1>5, <1>7, RSuspend, RSchedule DEF R!Kernel
  <1> QED
    BY <1>1, <1>2, <1>3, <1>6, <1>7, RBlock, RSchedule, RReady, RRemote DEF R!Next

\* No wakeup, preemption or NMI puts an SC on two lists or on none, and Sc::schedule
\* always finds a ready SC of highest priority (Sc::ready_enqueue, Sc::ready_dequeue,
\* Sc::remote_enqueue, Sc::rrq_handler).
THEOREM QueuesAreExact == ASSUME R!QueueAssumption PROVE R!Spec => []QueuesExact
  <1>1. R!Init => RInv
    BY RInit
  <1>2. RInv /\ [R!Next]_(R!vars) => RInv'
    BY RNext
  <1>3. RInv => R!QueuesExact
    BY RSafe
  <1>4. R!QueuesExact => QueuesExact
    BY DEF QueuesExact
  <1> QED
    BY <1>1, <1>2, <1>3, <1>4, PTL DEF R!Spec

-----------------------------------------------------------------------------
(* The state page and exception messages (StatePage).                      *)

\* The items whose value is copied as it is.
SPlain == item \notin S!SegItems \cup {"CR", "INJ", "RIP_LEN", "TSC_TIMEOUT"}
SWin == SUBSET {"INTR_WINDOW", "NMI_WINDOW"}

\* Values in the page and in the VMCS or the register frame.
SPage(v) ==
    /\ item \in S!SegItems => v \subseteq 0..12
    /\ item = "CR" => v \subseteq CrBits
    /\ item = "INJ" => v \in [ev : 0..1, win : SWin]
    /\ item = "RIP_LEN" => v \in [ip : 0..1, len : 0..1]
    /\ item = "TSC_TIMEOUT" => v \in Nat
SHw(h) ==
    /\ item \in S!SegItems => h \subseteq Nat
    /\ item = "CR" => h \in [g : SUBSET CrBits, s : SUBSET CrBits] /\ FixSet \subseteq h.g /\ h.g \cap FixClr = {}
    /\ item = "INJ" => h \in [ent : 0..1, exi : [ev : 0..1, win : SWin]]
    /\ item = "RIP_LEN" => h \in [ip : 0..1, ent : 0..1, exi : 0..1]
    /\ item = "TSC_TIMEOUT" => h \in Nat

-----------------------------------------------------------------------------
(* What the conversions do, item by item.                                  *)

LEMMA SKinds ==
    /\ item \in S!SegItems => item \notin {"CR", "INJ", "RIP_LEN", "TSC_TIMEOUT", "RFLAGS", "EOI", "TPR", "CTRL", "TLB", "QUAL", "FPU", "VINTR"}
    /\ item \in S!ExcItems => item \notin S!SegItems \cup {"CR", "INJ", "TSC_TIMEOUT"}
  BY DEF S!SegItems, S!ExcItems

LEMMA SSave ==
    ASSUME NEW v, NEW h
    PROVE  /\ item \in S!SegItems => S!save(v, h) = S!ar_to_vmcs(v)
           /\ item = "CR" => S!save(v, h) = S!set_cr(v)
           /\ item = "INJ" => S!save(v, h) = [h EXCEPT !.ent = v.ev]
           /\ item = "RIP_LEN" => S!save(v, h) = [h EXCEPT !.ip = v.ip, !.ent = v.len]
           /\ item = "TSC_TIMEOUT" => S!save(v, h) = S!calc_timeout(v)
           /\ SPlain => S!save(v, h) = v
  BY SKinds, Zenon DEF S!save, SPlain

LEMMA SLoad ==
    ASSUME NEW h, NEW fail
    PROVE  /\ item \in S!SegItems => S!load(h, fail) = S!set_vmx(h)
           /\ item = "CR" => S!load(h, fail) = S!get_cr(h)
           /\ item = "INJ" => S!load(h, fail) = IF fail THEN [ev |-> h.ent, win |-> {}] ELSE h.exi
           /\ item = "RIP_LEN" => S!load(h, fail) = [ip |-> h.ip, len |-> h.exi]
           /\ item = "TSC_TIMEOUT" => S!load(h, fail) = h * 2^Shift
           /\ SPlain => S!load(h, fail) = h
  BY SKinds, Zenon DEF S!load, SPlain

LEMMA SSeen ==
    ASSUME NEW h
    PROVE  /\ item = "INJ" => S!Seen(h) = h.ent
           /\ item = "RIP_LEN" => S!Seen(h) = <<h.ip, h.ent>>
           /\ item \notin {"INJ", "RIP_LEN"} => S!Seen(h) = S!load(h, FALSE)
  BY Zenon DEF S!Seen

LEMMA SAsked ==
    ASSUME NEW v
    PROVE  /\ item = "INJ" => S!Asked(v) = v.ev
           /\ item = "RIP_LEN" => S!Asked(v) = <<v.ip, v.len>>
           /\ item \notin {"INJ", "RIP_LEN"} => S!Asked(v) = v
  BY Zenon DEF S!Asked

LEMMA SMakes ==
    ASSUME NEW h
    PROVE  /\ item \in S!SegItems => S!GuestMakes(h) = SUBSET {7, 12, 16}
           /\ item = "CR" => S!GuestMakes(h) =
                {[h EXCEPT !.g = (h.g \cap S!cr_msk(Mon)) \cup b] : b \in SUBSET (CrBits \ S!cr_msk(Mon))}
           /\ item = "INJ" => S!GuestMakes(h) =
                [ent : {0}, exi : [ev : 0..1, win : {{}, {"INTR_WINDOW"}}]]
           /\ item = "RIP_LEN" => S!GuestMakes(h) = [ip : 0..1, ent : {h.ent}, exi : 0..1]
           /\ item = "TSC_TIMEOUT" => S!GuestMakes(h) = 0..h
  <1>1. item \in S!SegItems => S!GuestMakes(h) = SUBSET {7, 12, 16}
    BY SKinds, Zenon DEF S!GuestMakes
  <1>2. item = "CR" => S!GuestMakes(h) =
          {[h EXCEPT !.g = (h.g \cap S!cr_msk(Mon)) \cup b] : b \in SUBSET (CrBits \ S!cr_msk(Mon))}
    BY SKinds, Zenon DEF S!GuestMakes
  <1>3. item = "INJ" => S!GuestMakes(h) =
          [ent : {0}, exi : [ev : 0..1, win : {{}, {"INTR_WINDOW"}}]]
    BY SKinds, Zenon DEF S!GuestMakes
  <1>4. item = "RIP_LEN" => S!GuestMakes(h) = [ip : 0..1, ent : {h.ent}, exi : 0..1]
    BY SKinds, Zenon DEF S!GuestMakes
  <1>5. item = "TSC_TIMEOUT" => S!GuestMakes(h) = 0..h
    BY SKinds, Zenon DEF S!GuestMakes
  <1> QED
    BY <1>1, <1>2, <1>3, <1>4, <1>5

LEMMA SValues ==
    /\ item \in S!SegItems => S!PageValues = SUBSET {7, 8, 12}
    /\ item = "CR" => S!PageValues = SUBSET CrBits
    /\ item = "INJ" => S!PageValues = [ev : 0..1, win : SWin]
    /\ item = "RIP_LEN" => S!PageValues = [ip : 0..1, len : 0..1]
    /\ item = "TSC_TIMEOUT" => S!PageValues = 0..MaxTicks
  BY SKinds, Zenon DEF S!PageValues, SWin

-----------------------------------------------------------------------------
(* Values keep their types.                                                *)

LEMMA STimer ==
    ASSUME S!PageAssumption, NEW v \in Nat
    PROVE  /\ S!calc_timeout(v) \in Nat
           /\ \/ S!calc_timeout(v) = TimerMax
              \/ S!calc_timeout(v) * 2^Shift \in v..(v + 2^Shift - 1)
  <1> DEFINE P == 2^Shift
             t == (v + P - 1) \div P
  <1>1. P \in Nat \ {0} /\ TimerMax \in Nat
    BY DEF S!PageAssumption
  <1>2. S!calc_timeout(v) = IF t > TimerMax THEN TimerMax ELSE t
    BY DEF S!calc_timeout
  <1> HIDE DEF P
  <1>3. v + P - 1 \in Nat /\ t \in Nat
    BY <1>1
  <1>4. \E r \in 0..(P - 1) : v + P - 1 = P * t + r
    <2> DEFINE a == v + P - 1
    <2>1. a = P * (a \div P) + (a % P) /\ a % P \in 0..(P - 1)
      BY <1>1, <1>3
    <2> QED
      BY <2>1
  <1> HIDE DEF t
  <1>5. t * P \in v..(v + P - 1)
    BY <1>1, <1>3, <1>4
  <1> QED
    BY <1>1, <1>2, <1>3, <1>5 DEF P

LEMMA SRipLen ==
    ASSUME NEW A, NEW h, NEW v, h \in [ip : A, ent : A, exi : A], v \in [ip : A, len : A]
    PROVE  /\ [h EXCEPT !.ip = v.ip, !.ent = v.len] \in [ip : A, ent : A, exi : A]
           /\ [h EXCEPT !.ip = v.ip, !.ent = v.len].ip = v.ip
           /\ [h EXCEPT !.ip = v.ip, !.ent = v.len].ent = v.len
  OBVIOUS

LEMMA SSaved ==
    ASSUME S!PageAssumption, NEW v, SPage(v), NEW h, SHw(h) PROVE SHw(S!save(v, h))
  <1>1. item \in S!SegItems => S!save(v, h) \subseteq Nat
    <2> SUFFICES ASSUME item \in S!SegItems, NEW b \in S!ar_to_vmcs(v) PROVE b \in Nat
      BY SSave, Zenon
    <2>1. v \subseteq 0..12
      BY DEF SPage
    <2>2. b \in v \/ \E c \in v : b = c + 4
      BY DEF S!ar_to_vmcs
    <2>3. \A c \in 0..12 : c \in Nat /\ c + 4 \in Nat
      OBVIOUS
    <2> QED
      BY <2>1, <2>2, <2>3
  <1>2. item = "CR" => /\ S!save(v, h) \in [g : SUBSET CrBits, s : SUBSET CrBits]
                       /\ FixSet \subseteq S!save(v, h).g /\ S!save(v, h).g \cap FixClr = {}
    BY SSave DEF S!set_cr, S!cr_msk, SPage, S!PageAssumption
  <1>3. item = "INJ" => S!save(v, h) \in [ent : 0..1, exi : [ev : 0..1, win : SWin]]
    BY SSave DEF SPage, SHw
  <1>4. item = "RIP_LEN" => S!save(v, h) \in [ip : 0..1, ent : 0..1, exi : 0..1]
    <2> SUFFICES ASSUME item = "RIP_LEN" PROVE [h EXCEPT !.ip = v.ip, !.ent = v.len] \in [ip : 0..1, ent : 0..1, exi : 0..1]
      BY SSave, Zenon
    <2>1. h \in [ip : 0..1, ent : 0..1, exi : 0..1] /\ v \in [ip : 0..1, len : 0..1]
      BY DEF SPage, SHw
    <2> QED
      BY <2>1, SRipLen, Zenon
  <1>5. item = "TSC_TIMEOUT" => S!save(v, h) \in Nat
    BY SSave, STimer DEF SPage
  <1> QED
    BY <1>1, <1>2, <1>3, <1>4, <1>5 DEF SHw

LEMMA SLoaded ==
    ASSUME S!PageAssumption, NEW h, SHw(h), NEW fail \in BOOLEAN PROVE SPage(S!load(h, fail))
  <1>1. item \in S!SegItems => S!load(h, fail) \subseteq 0..12
    BY SLoad DEF S!set_vmx, SHw
  <1>2. item = "CR" => S!load(h, fail) \subseteq CrBits
    BY SLoad DEF S!get_cr, S!cr_msk, SHw
  <1>3. item = "INJ" => S!load(h, fail) \in [ev : 0..1, win : SWin]
    BY SLoad DEF SHw, SWin
  <1>4. item = "RIP_LEN" => S!load(h, fail) \in [ip : 0..1, len : 0..1]
    BY SLoad DEF SHw
  <1>5. item = "TSC_TIMEOUT" => S!load(h, fail) \in Nat
    BY SLoad DEF SHw, S!PageAssumption
  <1> QED
    BY <1>1, <1>2, <1>3, <1>4, <1>5 DEF SPage

LEMMA SMade ==
    ASSUME S!PageAssumption, NEW h, SHw(h), NEW k \in S!GuestMakes(h) PROVE SHw(k)
  <1>1. item \in S!SegItems => k \subseteq Nat
    BY SMakes
  <1>2. item = "CR" => /\ k \in [g : SUBSET CrBits, s : SUBSET CrBits]
                       /\ FixSet \subseteq k.g /\ k.g \cap FixClr = {}
    BY SMakes DEF S!cr_msk, SHw, S!PageAssumption
  <1>3. item = "INJ" => k \in [ent : 0..1, exi : [ev : 0..1, win : SWin]]
    <2> SUFFICES ASSUME item = "INJ" PROVE k \in [ent : 0..1, exi : [ev : 0..1, win : SWin]]
      OBVIOUS
    <2>1. k \in [ent : {0}, exi : [ev : 0..1, win : {{}, {"INTR_WINDOW"}}]]
      BY SMakes, Zenon
    <2>2. {{}, {"INTR_WINDOW"}} \subseteq SWin /\ {0} \subseteq 0..1
      BY DEF SWin
    <2> HIDE DEF SWin
    <2> QED
      BY <2>1, <2>2
  <1>4. item = "RIP_LEN" => k \in [ip : 0..1, ent : 0..1, exi : 0..1]
    <2> SUFFICES ASSUME item = "RIP_LEN" PROVE k \in [ip : 0..1, ent : 0..1, exi : 0..1]
      OBVIOUS
    <2>1. k \in [ip : 0..1, ent : {h.ent}, exi : 0..1]
      BY SMakes, Zenon
    <2>2. h.ent \in 0..1
      BY DEF SHw
    <2> QED
      BY <2>1, <2>2
  <1>5. item = "TSC_TIMEOUT" => k \in Nat
    BY SMakes DEF SHw
  <1> QED
    BY <1>1, <1>2, <1>3, <1>4, <1>5 DEF SHw

LEMMA SWritten == ASSUME S!PageAssumption, NEW v \in S!PageValues PROVE SPage(v)
  <1>1. item \in S!SegItems => v \subseteq 0..12
    BY SValues
  <1>2. item = "CR" => v \subseteq CrBits
    BY SValues
  <1>3. item = "INJ" => v \in [ev : 0..1, win : SWin]
    BY SValues
  <1>4. item = "RIP_LEN" => v \in [ip : 0..1, len : 0..1]
    BY SValues
  <1>5. item = "TSC_TIMEOUT" => v \in Nat
    BY SValues DEF S!PageAssumption
  <1> QED
    BY <1>1, <1>2, <1>3, <1>4, <1>5 DEF SPage

\* The guest sees what the page asks for.
LEMMA SRoundTrip ==
    ASSUME NEW v, SPage(v), NEW h, SHw(h), item # "TSC_TIMEOUT" PROVE S!Seen(S!save(v, h)) = S!Asked(v)
  <1> DEFINE k == S!save(v, h)
  <1>a. item \notin {"INJ", "RIP_LEN"} => S!Seen(k) = S!load(k, FALSE) /\ S!Asked(v) = v
    BY SSeen, SAsked
  <1>b. /\ item = "RIP_LEN" => S!Seen(k) = <<k.ip, k.ent>>
        /\ item \in S!SegItems => S!load(k, FALSE) = S!set_vmx(k)
        /\ item = "CR" => S!load(k, FALSE) = S!get_cr(k)
        /\ SPlain => S!load(k, FALSE) = k
    BY SSeen, SLoad
  <1>1. CASE item \in S!SegItems
    <2>1. S!Seen(S!save(v, h)) = S!set_vmx(S!ar_to_vmcs(v)) /\ S!Asked(v) = v
      BY <1>1, <1>a, <1>b, SSave, SKinds, Zenon
    <2>2. v \subseteq 0..12
      BY <1>1 DEF SPage
    <2>3. S!set_vmx(S!ar_to_vmcs(v)) \subseteq v
      BY <2>2 DEF S!set_vmx, S!ar_to_vmcs
    <2>4. ASSUME NEW b \in v PROVE b \in S!set_vmx(S!ar_to_vmcs(v))
      <3>1. CASE b < 8
        BY <3>1 DEF S!set_vmx, S!ar_to_vmcs
      <3>2. CASE b \in 8..12
        <4>1. b + 4 \in S!ar_to_vmcs(v) /\ b + 4 \in 12..16 /\ (b + 4) - 4 = b
          BY <3>2 DEF S!ar_to_vmcs
        <4> HIDE DEF S!ar_to_vmcs
        <4> QED
          BY <4>1 DEF S!set_vmx
      <3> QED
        BY <2>2, <3>1, <3>2
    <2> QED
      BY <2>1, <2>3, <2>4
  <1>2. CASE item = "CR"
    <2>1. S!Seen(S!save(v, h)) = S!get_cr(S!set_cr(v)) /\ S!Asked(v) = v
      BY <1>2, <1>a, <1>b, SSave
    <2> QED
      BY <1>2, <2>1 DEF S!get_cr, S!set_cr, S!cr_msk, SPage
  <1>3. CASE item = "INJ"
    BY <1>3, SSave, SSeen, SAsked DEF SPage, SHw
  <1>4. CASE item = "RIP_LEN"
    <2>1. k.ip = v.ip /\ k.ent = v.len
      <3>1. k = [h EXCEPT !.ip = v.ip, !.ent = v.len]
        BY <1>4, SSave, Zenon
      <3>2. h \in [ip : 0..1, ent : 0..1, exi : 0..1] /\ v \in [ip : 0..1, len : 0..1]
        BY <1>4 DEF SPage, SHw
      <3> QED
        BY <3>1, <3>2, SRipLen, Zenon
    <2> QED
      BY <1>4, <1>b, <2>1, SAsked
  <1>5. CASE SPlain
    BY <1>5, <1>a, <1>b, SSave, Zenon DEF SPlain
  <1> QED
    BY <1>1, <1>2, <1>3, <1>4, <1>5 DEF SPlain

-----------------------------------------------------------------------------
(* The invariant.                                                          *)

SGuest == at \in {"vmm", "run", "guest"}
SVint == "SECONDARY" \in page.c0 /\ "VINT" \in page.c1

STypes ==
    /\ item \in Items /\ at \in {"vmm", "run", "guest", "ec", "handler"}
    /\ at \in {"ec", "handler"} => item \in S!ExcItems
    /\ page = [v |-> page.v, c0 |-> page.c0, c1 |-> page.c1] /\ SPage(page.v)
    /\ hw = [v |-> hw.v, cpu0 |-> hw.cpu0, cpu1 |-> hw.cpu1] /\ SHw(hw.v)
    /\ entered \in BOOLEAN /\ mtf \in BOOLEAN /\ told \in BOOLEAN
    /\ want = [v |-> page.v, by |-> want.by] /\ want.by \in {"user", "kernel"}

\* The forced controls are always there, and the flags of an EC are clean.
SForced(c) ==
    /\ {"IO", "SECONDARY"} \subseteq c
    /\ "HLT" \in c \/ Passthrough
    /\ {"TPR_SHADOW", "CR8"} \cap c # {}
SLegal ==
    /\ SForced(hw.cpu0) /\ {"EPT", "URG"} \subseteq hw.cpu1
    /\ mtf => at = "guest" /\ "MTF" \in hw.cpu0
    /\ at \in {"ec", "handler"} /\ item = "RFLAGS" => hw.v \cap {"IOPL", "VM"} = {}

\* What was announced is applied at the next entry; nothing is left after it.
STold ==
    /\ at \in {"vmm", "run"} => (told <=> item \in mtd)
    /\ at = "guest" => entered
    /\ at = "vmm" => ~ entered
    /\ SGuest /\ entered => mtd = {} /\ ~ told

\* Where the last value of the item is to be found.
SLast ==
    /\ at \in {"vmm", "run"} => S!Seen(hw.v) = last
    /\ at \in {"vmm", "run"} /\ ~ entered /\ want.by = "kernel" /\ S!TwoSided => page.v = last
    /\ SGuest /\ want.by = "kernel" => item \notin S!NotReturned /\ (item = "VINTR" => SVint)
    /\ at = "handler" => hw.v = last
    /\ at = "handler" /\ want.by = "kernel" => IF item = "RIP_LEN" THEN page.v.ip = last.ip ELSE page.v = last

SInv == STypes /\ SLegal /\ STold /\ SLast

-----------------------------------------------------------------------------
(* The actions keep it.                                                    *)

LEMMA SCtrl ==
    ASSUME S!PageAssumption, NEW c
    PROVE  /\ SForced(S!vmx_set_cpu_ctrl0(c))
           /\ "MTF" \in c => "MTF" \in S!vmx_set_cpu_ctrl0(c)
           /\ {"EPT", "URG"} \subseteq S!vmx_set_cpu_ctrl1(c)
  BY DEF S!PageAssumption, SForced, S!vmx_set_cpu_ctrl0, S!vmx_set_cpu_ctrl1

LEMMA SInit == ASSUME S!PageAssumption, S!Init PROVE SInv
  <1>a. S!NotSaved = {"QUAL", "FPU"}
    BY DEF S!NotSaved
  <1>1. /\ item \in S!SegItems => hw.v = {}
        /\ item = "CR" => hw.v = S!set_cr({})
        /\ item = "INJ" => hw.v = [ent |-> 0, exi |-> [ev |-> 0, win |-> {}]]
        /\ item = "RIP_LEN" => hw.v = [ip |-> 0, ent |-> 0, exi |-> 0]
        /\ item = "TSC_TIMEOUT" => hw.v = TimerMax
        /\ item = "RFLAGS" => hw.v = {}
    <2> DEFINE h == CASE item \in S!SegItems -> {}
                     [] item = "CR" -> S!set_cr({})
                     [] item = "INJ" -> [ent |-> 0, exi |-> [ev |-> 0, win |-> {}]]
                     [] item = "RIP_LEN" -> [ip |-> 0, ent |-> 0, exi |-> 0]
                     [] item = "TSC_TIMEOUT" -> TimerMax
                     [] item = "RFLAGS" -> {}
                     [] OTHER -> 0
    <2>1. hw = [v |-> h, cpu0 |-> S!vmx_set_cpu_ctrl0({}), cpu1 |-> S!vmx_set_cpu_ctrl1({})]
      BY Zenon DEF S!Init
    <2>2. hw.v = h
      BY <2>1, Zenon
    <2> QED
      BY <2>2, SKinds, Zenon
  <1>2. SHw(hw.v)
    <2>1. item = "CR" => /\ hw.v \in [g : SUBSET CrBits, s : SUBSET CrBits]
                         /\ FixSet \subseteq hw.v.g /\ hw.v.g \cap FixClr = {}
      BY <1>1 DEF S!set_cr, S!cr_msk, S!PageAssumption
    <2>2. item = "INJ" => hw.v \in [ent : 0..1, exi : [ev : 0..1, win : SWin]]
      BY <1>1 DEF SWin
    <2>3. item = "RIP_LEN" => hw.v \in [ip : 0..1, ent : 0..1, exi : 0..1]
      BY <1>1
    <2> QED
      BY <1>1, <2>1, <2>2, <2>3 DEF SHw, S!PageAssumption
  <1>3. /\ item \in Items /\ at \in {"vmm", "ec"} /\ (at = "ec" => item \in S!ExcItems)
        /\ page \in [v : S!PageValues, c0 : {{}}, c1 : {{}}]
        /\ mtd = {} /\ entered = FALSE /\ mtf = FALSE /\ told = FALSE
        /\ want = [v |-> page.v, by |-> "user"] /\ last = S!Seen(hw.v)
    BY Zenon DEF S!Init
  <1>4. /\ hw = [v |-> hw.v, cpu0 |-> hw.cpu0, cpu1 |-> hw.cpu1]
        /\ hw.cpu0 = S!vmx_set_cpu_ctrl0({}) /\ hw.cpu1 = S!vmx_set_cpu_ctrl1({})
    BY Zenon DEF S!Init
  <1>5. SPage(page.v) /\ page = [v |-> page.v, c0 |-> page.c0, c1 |-> page.c1]
    BY <1>3, SWritten
  <1>6. STypes
    BY <1>2, <1>3, <1>4, <1>5 DEF STypes
  <1>7. SLegal
    BY <1>1, <1>3, <1>4, SCtrl DEF SLegal
  <1>8. STold /\ SLast
    BY <1>3 DEF STold, SLast, SGuest
  <1> QED
    BY <1>6, <1>7, <1>8 DEF SInv

LEMMA SUserWrites ==
    ASSUME S!PageAssumption, SInv, NEW v \in S!PageValues, NEW c0, NEW c1, S!UserWrites(v, c0, c1)
    PROVE  SInv'
  <1>1. SPage(v)
    BY SWritten
  <1>2. STypes'
    BY <1>1 DEF SInv, STypes, S!UserWrites, SPage, SHw
  <1>3. SLegal'
    BY DEF SInv, SLegal, S!UserWrites, SForced
  <1>4. STold'
    BY DEF SInv, STold, S!UserWrites, SGuest
  <1>5. SLast'
    <2>1. S!Seen(hw.v)' = S!Seen(hw.v)
      BY DEF S!UserWrites, S!Seen, S!load, S!get_cr, S!set_vmx, S!cr_msk
    <2> QED
      BY <2>1 DEF SInv, SLast, S!UserWrites, SGuest
  <1> QED
    BY <1>2, <1>3, <1>4, <1>5 DEF SInv

LEMMA SRunCall ==
    ASSUME S!PageAssumption, SInv, NEW m, S!sys_vcpu_ctrl_run(m) PROVE SInv'
  <1>2. STypes'
    BY DEF SInv, STypes, S!sys_vcpu_ctrl_run, SPage, SHw
  <1>3. SLegal'
    BY DEF SInv, SLegal, S!sys_vcpu_ctrl_run, SForced
  <1>4. STold'
    BY DEF SInv, STold, S!sys_vcpu_ctrl_run, S!Vcpu_mtd, SGuest
  <1>5. SLast'
    <2>1. S!Seen(hw.v)' = S!Seen(hw.v)
      BY DEF S!sys_vcpu_ctrl_run, S!Seen, S!load, S!get_cr, S!set_vmx, S!cr_msk
    <2>2. S!TwoSided' = S!TwoSided
      BY DEF S!sys_vcpu_ctrl_run, S!TwoSided
    <2> QED
      BY <2>1, <2>2 DEF SInv, SLast, S!sys_vcpu_ctrl_run, SGuest, SVint
  <1> QED
    BY <1>2, <1>3, <1>4, <1>5 DEF SInv

\* What the page holds of a two-sided item after a return is what the guest has.
LEMMA SReturned ==
    ASSUME NEW h, NEW fail \in BOOLEAN, S!TwoSided PROVE S!load(h, fail) = S!Seen(h)
  <1>1. S!Seen(h) = S!load(h, FALSE)
    BY SSeen DEF S!TwoSided
  <1>2. S!load(h, fail) = S!load(h, FALSE)
    BY SLoad DEF SPlain, S!TwoSided
  <1> QED
    BY <1>1, <1>2

LEMMA SReturn ==
    ASSUME S!PageAssumption, SInv, at \in {"run", "guest"}, NEW fail \in BOOLEAN, S!return_to_vmm(fail),
           item' = item, told' = told, hw'.v = hw.v, hw' = [v |-> hw'.v, cpu0 |-> hw'.cpu0, cpu1 |-> hw'.cpu1],
           SForced(hw'.cpu0), hw'.cpu1 = hw.cpu1, last' = S!Seen(hw.v)
    PROVE  SInv'
  <1> DEFINE moved == entered /\ item \notin S!NotReturned /\ (item = "VINTR" => SVint)
  <1>1. /\ page' = IF moved THEN [page EXCEPT !.v = S!load(hw.v, fail)] ELSE page
        /\ want' = IF moved THEN [v |-> page'.v, by |-> "kernel"] ELSE want
        /\ mtd' = IF entered THEN {} ELSE mtd
        /\ entered' = FALSE /\ at' = "vmm" /\ mtf' = FALSE
    BY DEF S!return_to_vmm, SVint
  <1>2. SPage(S!load(hw.v, fail)) /\ SPage(page.v) /\ SHw(hw.v)
    BY SLoaded DEF SInv, STypes
  <1>3. /\ page' = [v |-> page'.v, c0 |-> page'.c0, c1 |-> page'.c1]
        /\ page'.c0 = page.c0 /\ page'.c1 = page.c1
        /\ page'.v = IF moved THEN S!load(hw.v, fail) ELSE page.v
        /\ want' = [v |-> page'.v, by |-> want'.by] /\ want'.by = IF moved THEN "kernel" ELSE want.by
    BY <1>1 DEF SInv, STypes
  <1> HIDE DEF moved
  <1>4. SPage(page'.v)
    BY <1>2, <1>3
  <1>5. STypes'
    <2>1. SPage(page.v)'
      BY <1>4 DEF SPage
    <2>2. SHw(hw.v)'
      BY <1>2 DEF SHw
    <2>3. want'.by \in {"user", "kernel"}
      BY <1>3 DEF SInv, STypes
    <2> QED
      BY <1>1, <1>3, <2>1, <2>2, <2>3 DEF SInv, STypes
  <1>6. SLegal'
    BY <1>1 DEF SInv, SLegal, SForced
  <1>7. STold'
    BY <1>1 DEF SInv, STold, SGuest
  <1>8. SLast'
    <2>1. S!Seen(hw.v)' = S!Seen(hw.v)
      BY DEF S!Seen, S!load, S!get_cr, S!set_vmx, S!cr_msk
    <2>2. S!TwoSided' = S!TwoSided
      BY DEF S!TwoSided
    <2>3. ASSUME want'.by = "kernel" PROVE item \notin S!NotReturned /\ (item = "VINTR" => SVint)
      BY <1>3, <2>3 DEF SInv, SLast, SGuest, moved
    <2>4. ASSUME want'.by = "kernel", S!TwoSided PROVE page'.v = last'
      <3>1. CASE moved
        BY <1>3, <2>4, <3>1, SReturned
      <3>2. CASE ~ moved
        <4>1. want.by = "kernel" /\ ~ entered /\ at = "run"
          BY <1>3, <2>3, <2>4, <3>2 DEF moved, SInv, STold
        <4>2. page'.v = last /\ S!Seen(hw.v) = last
          BY <1>3, <3>2, <2>4, <4>1 DEF SInv, SLast
        <4> QED
          BY <4>2
      <3> QED
        BY <3>1, <3>2
    <2>5. SVint' = SVint
      BY <1>3 DEF SVint
    <2> QED
      BY <1>1, <2>1, <2>2, <2>3, <2>4, <2>5 DEF SLast, SGuest, S!NotReturned
  <1> QED
    BY <1>5, <1>6, <1>7, <1>8 DEF SInv

LEMMA SReturnEarly == ASSUME S!PageAssumption, SInv, S!ReturnEarly PROVE SInv'
  <1>1. /\ at = "run" /\ S!return_to_vmm(TRUE)
        /\ item' = item /\ hw' = hw /\ told' = told /\ last' = last
    BY Zenon DEF S!ReturnEarly
  <1>2. /\ hw = [v |-> hw.v, cpu0 |-> hw.cpu0, cpu1 |-> hw.cpu1] /\ SForced(hw.cpu0)
        /\ last = S!Seen(hw.v)
    BY <1>1 DEF SInv, STypes, SLegal, SLast
  <1> QED
    BY <1>1, <1>2, SReturn

\* The VMCS after VM entry: the item is taken from the page if it was announced.
LEMMA SEntered ==
    ASSUME S!PageAssumption, SInv, NEW step \in BOOLEAN, S!run(step)
    PROVE  /\ item' = item /\ page' = page /\ want' = want /\ last' = last
           /\ mtd' = {} /\ entered' = TRUE /\ mtf' = step /\ at' = "guest" /\ told' = FALSE
           /\ hw' = [v |-> hw'.v, cpu0 |-> hw'.cpu0, cpu1 |-> hw'.cpu1]
           /\ hw'.v = IF told /\ item # "QUAL" THEN S!save(page.v, hw.v) ELSE hw.v
           /\ SForced(hw'.cpu0) /\ (step => "MTF" \in hw'.cpu0)
           /\ {"EPT", "URG"} \subseteq hw'.cpu1
           /\ SHw(hw'.v)
  <1>1. /\ item' = item /\ page' = page /\ want' = want /\ last' = last
        /\ mtd' = {} /\ entered' = TRUE /\ mtf' = step /\ at' = "guest" /\ told' = FALSE
        /\ at = "run" /\ S!save_vmx(mtd, step)
    BY Zenon DEF S!run
  <1>2. /\ hw' = [v |-> hw'.v, cpu0 |-> hw'.cpu0, cpu1 |-> hw'.cpu1]
        /\ hw'.v = IF item \in mtd \ S!NotSaved THEN S!save(page.v, hw.v) ELSE hw.v
        /\ hw'.cpu0 = S!Controls(mtd, step)
        /\ hw'.cpu1 = IF "CTRL" \in mtd THEN S!vmx_set_cpu_ctrl1(page.c1) ELSE hw.cpu1
    BY <1>1 DEF S!save_vmx
  <1>3. told <=> item \in mtd
    BY <1>1 DEF SInv, STold
  <1>4. item \in S!NotSaved <=> item = "QUAL"
    BY DEF S!NotSaved, SInv, STypes, S!PageAssumption
  <1>5. hw'.v = IF told /\ item # "QUAL" THEN S!save(page.v, hw.v) ELSE hw.v
    BY <1>2, <1>3, <1>4
  <1>6. SHw(hw'.v)
    BY <1>5, SSaved DEF SInv, STypes
  <1>7. {"EPT", "URG"} \subseteq hw'.cpu1
    BY <1>2, SCtrl DEF SInv, SLegal
  <1>8. SForced(hw'.cpu0) /\ (step => "MTF" \in hw'.cpu0)
    <2> DEFINE c == IF "CTRL" \in mtd THEN S!vmx_set_cpu_ctrl0(page.c0) ELSE hw.cpu0
               w == (c \ {"INTR_WINDOW", "NMI_WINDOW"}) \cup (IF item = "INJ" THEN page.v.win ELSE {})
               i == IF "INJ" \in mtd THEN S!vmx_set_cpu_ctrl0(w) ELSE c
    <2>1. hw'.cpu0 = IF step THEN S!vmx_set_cpu_ctrl0(page.c0 \cup {"MTF"}) ELSE i
      BY <1>2 DEF S!Controls
    <2>2. SForced(hw.cpu0)
      BY DEF SInv, SLegal
    <2>3. SForced(c)
      BY <2>2, SCtrl
    <2> HIDE DEF c, w
    <2>4. SForced(i)
      BY <2>3, SCtrl
    <2>5. /\ SForced(S!vmx_set_cpu_ctrl0(page.c0 \cup {"MTF"}))
          /\ "MTF" \in S!vmx_set_cpu_ctrl0(page.c0 \cup {"MTF"})
      BY SCtrl
    <2> HIDE DEF i
    <2> QED
      BY <2>1, <2>4, <2>5
  <1> QED
    BY <1>1, <1>2, <1>5, <1>6, <1>7, <1>8

LEMMA SRun ==
    ASSUME S!PageAssumption, SInv, NEW step \in BOOLEAN, S!run(step) PROVE SInv'
  <1> /\ item' = item /\ page' = page /\ want' = want /\ last' = last
      /\ mtd' = {} /\ entered' = TRUE /\ mtf' = step /\ at' = "guest" /\ told' = FALSE
      /\ hw' = [v |-> hw'.v, cpu0 |-> hw'.cpu0, cpu1 |-> hw'.cpu1]
      /\ SForced(hw'.cpu0) /\ (step => "MTF" \in hw'.cpu0)
      /\ {"EPT", "URG"} \subseteq hw'.cpu1
      /\ SHw(hw'.v)
    BY SEntered
  <1>1. STypes'
    <2>1. SHw(hw.v)'
      BY DEF SHw
    <2>2. SPage(page.v)'
      BY DEF SInv, STypes, SPage
    <2> QED
      BY <2>1, <2>2 DEF SInv, STypes
  <1>2. SLegal'
    BY DEF SInv, SLegal, SForced
  <1>3. STold'
    BY DEF STold, SGuest
  <1>4. SLast'
    <2>1. at = "run"
      BY DEF S!run
    <2> QED
      BY <2>1 DEF SInv, SLast, SGuest, SVint, S!NotReturned
  <1> QED
    BY <1>1, <1>2, <1>3, <1>4 DEF SInv

LEMMA SGuestRuns == ASSUME S!PageAssumption, SInv, S!GuestRuns PROVE SInv'
  <1>1. PICK h \in S!GuestMakes(hw.v) : hw' = [hw EXCEPT !.v = h]
    BY DEF S!GuestRuns
  <1>2. /\ at = "guest"
        /\ UNCHANGED <<item, at, page, mtd, entered, mtf, told, want, last, runs>>
    BY DEF S!GuestRuns
  <1>3. /\ hw' = [v |-> hw'.v, cpu0 |-> hw'.cpu0, cpu1 |-> hw'.cpu1]
        /\ hw'.v = h /\ hw'.cpu0 = hw.cpu0 /\ hw'.cpu1 = hw.cpu1
    BY <1>1 DEF SInv, STypes
  <1>4. SHw(hw'.v)
    BY <1>3, SMade DEF SInv, STypes
  <1>5. STypes'
    <2>1. SHw(hw.v)'
      BY <1>2, <1>4 DEF SHw
    <2>2. SPage(page.v)'
      BY <1>2 DEF SInv, STypes, SPage
    <2> QED
      BY <1>2, <1>3, <2>1, <2>2 DEF SInv, STypes
  <1>6. SLegal'
    BY <1>2, <1>3 DEF SInv, SLegal, SForced
  <1>7. STold' /\ SLast'
    BY <1>2 DEF SInv, STold, SLast, SGuest, SVint, S!NotReturned
  <1> QED
    BY <1>5, <1>6, <1>7 DEF SInv

LEMMA SHandle ==
    ASSUME S!PageAssumption, SInv, NEW fail \in BOOLEAN, S!handle_vmx(fail) PROVE SInv'
  <1>1. /\ at = "guest" /\ item' = item /\ told' = told /\ last' = S!Seen(hw.v)
        /\ hw' = IF mtf /\ "MTF" \notin page.c0 THEN [hw EXCEPT !.cpu0 = S!vmx_set_cpu_ctrl0(page.c0)] ELSE hw
        /\ \/ S!return_to_vmm(fail)
           \/ at' = "run" /\ mtf' = FALSE /\ UNCHANGED <<page, mtd, entered, want>>
    BY Zenon DEF S!handle_vmx
  <1>2. /\ hw' = [v |-> hw'.v, cpu0 |-> hw'.cpu0, cpu1 |-> hw'.cpu1]
        /\ hw'.v = hw.v /\ hw'.cpu1 = hw.cpu1 /\ SForced(hw'.cpu0)
    BY <1>1, SCtrl DEF SInv, STypes, SLegal
  <1>3. CASE S!return_to_vmm(fail)
    BY <1>1, <1>2, <1>3, SReturn
  <1>4. CASE at' = "run" /\ mtf' = FALSE /\ UNCHANGED <<page, mtd, entered, want>>
    <2>1. STypes'
      BY <1>1, <1>2, <1>4, ZenonT(30) DEF SInv, STypes, SPage, SHw
    <2>2. SLegal'
      BY <1>1, <1>2, <1>4 DEF SInv, SLegal, SForced
    <2>3. STold'
      BY <1>1, <1>4 DEF SInv, STold, SGuest
    <2>4. S!Seen(hw.v)' = S!Seen(hw.v)
      BY <1>1, <1>2 DEF S!Seen, S!load, S!get_cr, S!set_vmx, S!cr_msk
    <2>5. SLast'
      BY <1>1, <1>4, <2>4 DEF SInv, SLast, STold, SGuest, SVint, S!NotReturned
    <2> QED
      BY <2>1, <2>2, <2>3, <2>5 DEF SInv
  <1> QED
    BY <1>1, <1>3, <1>4

LEMMA SEcRuns ==
    ASSUME S!PageAssumption, SInv, NEW h, S!EcRuns(h),
           IF item = "RFLAGS" THEN h \subseteq {"ZF"} ELSE h \in S!GuestMakes(hw.v)
    PROVE  SInv'
  <1>1. /\ at = "ec" /\ hw' = [hw EXCEPT !.v = h]
        /\ UNCHANGED <<item, at, page, mtd, entered, mtf, told, want, last, runs>>
    BY DEF S!EcRuns
  <1>2. /\ hw' = [v |-> hw'.v, cpu0 |-> hw'.cpu0, cpu1 |-> hw'.cpu1]
        /\ hw'.v = h /\ hw'.cpu0 = hw.cpu0 /\ hw'.cpu1 = hw.cpu1
    BY <1>1 DEF SInv, STypes
  <1>3. SHw(h)
    <2>1. CASE item = "RFLAGS"
      BY <2>1, SKinds DEF SHw
    <2>2. CASE item # "RFLAGS"
      BY <2>2, SMade DEF SInv, STypes
    <2> QED
      BY <2>1, <2>2
  <1>4. STypes'
    <2>1. SHw(hw.v)'
      BY <1>1, <1>2, <1>3 DEF SHw
    <2>2. SPage(page.v)'
      BY <1>1 DEF SInv, STypes, SPage
    <2> QED
      BY <1>1, <1>2, <2>1, <2>2 DEF SInv, STypes
  <1>5. SLegal'
    BY <1>1, <1>2 DEF SInv, SLegal, SForced
  <1>6. STold' /\ SLast'
    BY <1>1 DEF SInv, STold, SLast, SGuest
  <1> QED
    BY <1>4, <1>5, <1>6 DEF SInv

LEMMA SLoadExc == ASSUME S!PageAssumption, SInv, NEW m, S!load_exc(m) PROVE SInv'
  <1>1. /\ at = "ec" /\ at' = "handler" /\ mtd' = m /\ last' = hw.v
        /\ UNCHANGED <<item, hw, entered, mtf, told>>
        /\ page' = IF item \notin m THEN page
                   ELSE [page EXCEPT !.v = IF item = "RIP_LEN" THEN [page.v EXCEPT !.ip = hw.v.ip] ELSE hw.v]
        /\ want' = [v |-> page'.v, by |-> IF item \in m THEN "kernel" ELSE "user"]
    BY DEF S!load_exc
  <1>2. item \in S!ExcItems
    BY <1>1 DEF SInv, STypes
  <1>3. /\ page' = [v |-> page'.v, c0 |-> page'.c0, c1 |-> page'.c1]
        /\ page'.v = IF item \notin m THEN page.v
                     ELSE IF item = "RIP_LEN" THEN [page.v EXCEPT !.ip = hw.v.ip] ELSE hw.v
    BY <1>1 DEF SInv, STypes
  <1>4. item = "RIP_LEN" => page.v \in [ip : 0..1, len : 0..1] /\ hw.v.ip \in 0..1
    BY DEF SInv, STypes, SPage, SHw
  <1>5. SPage(page'.v)
    <2>1. CASE item = "RIP_LEN"
      BY <1>3, <1>4, <2>1, SKinds DEF SPage
    <2>2. CASE item # "RIP_LEN"
      BY <1>2, <2>2, SKinds DEF SPage
    <2> QED
      BY <2>1, <2>2
  <1>6. STypes'
    <2>1. SPage(page.v)'
      BY <1>1, <1>5 DEF SPage
    <2>2. SHw(hw.v)'
      BY <1>1 DEF SInv, STypes, SHw
    <2> QED
      BY <1>1, <1>3, <2>1, <2>2 DEF SInv, STypes, S!ExcItems
  <1>7. SLegal'
    BY <1>1 DEF SInv, SLegal, SForced
  <1>8. STold'
    BY <1>1 DEF STold, SGuest
  <1>9. SLast'
    <2>1. want'.by = "kernel" => item \in m
      BY <1>1
    <2>2. want'.by = "kernel" => IF item = "RIP_LEN" THEN page'.v.ip = last'.ip ELSE page'.v = last'
      BY <1>1, <1>3, <1>4, <2>1
    <2> QED
      BY <1>1, <2>2 DEF SLast, SGuest
  <1> QED
    BY <1>6, <1>7, <1>8, <1>9 DEF SInv

\* The registers of the EC after the reply.
LEMMA SReplied ==
    ASSUME SInv, NEW m, S!save_exc(m)
    PROVE  /\ at = "handler" /\ at' = "ec" /\ item \in S!ExcItems
           /\ UNCHANGED <<item, page, entered, mtf, want, last>> /\ told' \in BOOLEAN
           /\ hw' = [v |-> hw'.v, cpu0 |-> hw.cpu0, cpu1 |-> hw.cpu1]
           /\ hw'.v = IF item \notin m \/ item = "QUAL" THEN hw.v
                      ELSE IF item = "RIP_LEN" THEN [hw.v EXCEPT !.ip = page.v.ip]
                      ELSE IF item = "RFLAGS" THEN S!user_flags(page.v) ELSE page.v
  <1>1. /\ at = "handler" /\ at' = "ec" /\ told' = (item \in m)
        /\ UNCHANGED <<item, page, entered, mtf, want, last>>
        /\ hw' = IF item \notin m \/ item = "QUAL" THEN hw
                 ELSE [hw EXCEPT !.v = CASE item = "RIP_LEN" -> [hw.v EXCEPT !.ip = page.v.ip]
                                         [] item = "RFLAGS" -> S!user_flags(page.v)
                                         [] OTHER -> page.v]
    BY Zenon DEF S!save_exc
  <1> DEFINE k == CASE item = "RIP_LEN" -> [hw.v EXCEPT !.ip = page.v.ip]
                    [] item = "RFLAGS" -> S!user_flags(page.v)
                    [] OTHER -> page.v
  <1>2. k = IF item = "RIP_LEN" THEN [hw.v EXCEPT !.ip = page.v.ip]
            ELSE IF item = "RFLAGS" THEN S!user_flags(page.v) ELSE page.v
    BY Zenon
  <1>3. hw' = IF item \notin m \/ item = "QUAL" THEN hw ELSE [hw EXCEPT !.v = k]
    BY <1>1, Zenon
  <1> HIDE DEF k
  <1>4. hw = [v |-> hw.v, cpu0 |-> hw.cpu0, cpu1 |-> hw.cpu1] /\ item \in S!ExcItems
    BY <1>1 DEF SInv, STypes
  <1>5. hw' = [v |-> hw'.v, cpu0 |-> hw.cpu0, cpu1 |-> hw.cpu1]
        /\ hw'.v = IF item \notin m \/ item = "QUAL" THEN hw.v ELSE k
    BY <1>3, <1>4
  <1> QED
    BY <1>1, <1>2, <1>4, <1>5

LEMMA SSaveExc == ASSUME S!PageAssumption, SInv, NEW m, S!save_exc(m) PROVE SInv'
  <1> /\ at = "handler" /\ at' = "ec" /\ item \in S!ExcItems
      /\ UNCHANGED <<item, page, entered, mtf, want, last>> /\ told' \in BOOLEAN
      /\ hw' = [v |-> hw'.v, cpu0 |-> hw.cpu0, cpu1 |-> hw.cpu1]
      /\ hw'.v = IF item \notin m \/ item = "QUAL" THEN hw.v
                 ELSE IF item = "RIP_LEN" THEN [hw.v EXCEPT !.ip = page.v.ip]
                 ELSE IF item = "RFLAGS" THEN S!user_flags(page.v) ELSE page.v
    BY SReplied
  <1>1. item = "RIP_LEN" => hw.v \in [ip : 0..1, ent : 0..1, exi : 0..1] /\ page.v.ip \in 0..1
    BY DEF SInv, STypes, SPage, SHw
  <1>2. SHw(hw'.v)
    <2>1. CASE item = "RIP_LEN"
      BY <1>1, <2>1, SKinds DEF SHw
    <2>2. CASE item # "RIP_LEN"
      BY <2>2, SKinds DEF SHw
    <2> QED
      BY <2>1, <2>2
  <1>3. STypes'
    <2>1. SPage(page.v)'
      BY DEF SInv, STypes, SPage
    <2>2. SHw(hw.v)'
      BY <1>2 DEF SHw
    <2> QED
      BY <2>1, <2>2 DEF SInv, STypes, S!ExcItems
  <1>4. SLegal'
    BY DEF SInv, SLegal, SForced, S!user_flags
  <1>5. STold' /\ SLast'
    BY DEF SInv, STold, SLast, SGuest
  <1> QED
    BY <1>3, <1>4, <1>5 DEF SInv

LEMMA SNext == ASSUME S!PageAssumption, SInv, [S!Next]_(S!vars) PROVE SInv'
  <1>1. ASSUME NEW v \in S!PageValues, NEW c, S!UserWrites(v, c[1], c[2]) PROVE SInv'
    BY <1>1, SUserWrites
  <1>2. ASSUME NEW m, S!sys_vcpu_ctrl_run(m) \/ S!load_exc(m) \/ S!save_exc(m) PROVE SInv'
    BY <1>2, SRunCall, SLoadExc, SSaveExc
  <1>3. ASSUME S!ReturnEarly \/ S!GuestRuns PROVE SInv'
    BY <1>3, SReturnEarly, SGuestRuns
  <1>4. ASSUME NEW b \in BOOLEAN, S!run(b) \/ S!handle_vmx(b) PROVE SInv'
    BY <1>4, SRun, SHandle
  <1>5. ASSUME NEW h \in IF item = "RFLAGS" THEN SUBSET {"ZF"} ELSE S!GuestMakes(hw.v), S!EcRuns(h) PROVE SInv'
    <2>1. IF item = "RFLAGS" THEN h \subseteq {"ZF"} ELSE h \in S!GuestMakes(hw.v)
      OBVIOUS
    <2> QED
      BY <1>5, <2>1, SEcRuns
  <1>6. ASSUME UNCHANGED S!vars PROVE SInv'
    <2>1. STypes'
      BY <1>6 DEF SInv, STypes, SPage, SHw, S!vars
    <2>2. SLegal' /\ STold'
      BY <1>6 DEF SInv, SLegal, STold, SForced, SGuest, S!vars
    <2>3. S!Seen(hw.v)' = S!Seen(hw.v) /\ S!TwoSided' = S!TwoSided
      BY <1>6 DEF S!Seen, S!load, S!get_cr, S!set_vmx, S!cr_msk, S!TwoSided, S!vars
    <2>4. SLast'
      BY <1>6, <2>3 DEF SInv, SLast, SGuest, SVint, S!NotReturned, S!vars
    <2> QED
      BY <2>1, <2>2, <2>4 DEF SInv
  <1> QED
    BY <1>1, <1>2, <1>3, <1>4, <1>5, <1>6, Zenon DEF S!Next

\* No state page and no reply to an exception gives a guest or an EC what the kernel
\* keeps for itself (Exc_regs::set_cr0, vmx_set_cpu_ctrl0, Utcb::save_exc).
THEOREM StateIsLegal == ASSUME S!PageAssumption PROVE S!Spec => []StateLegal
  <1>1. S!Init => SInv
    BY SInit
  <1>2. SInv /\ [S!Next]_(S!vars) => SInv'
    BY SNext
  <1>3. SInv => S!StateLegal
    BY DEF SInv, STypes, SLegal, SForced, SHw, S!StateLegal
  <1>4. S!StateLegal => StateLegal
    BY DEF StateLegal
  <1> QED
    BY <1>1, <1>2, <1>3, <1>4, PTL DEF S!Spec

\* A guest goes on with what was announced since it last ran, and with what it had
\* otherwise; an answer that repeats the kernel's message changes nothing
\* (Utcb::save_vmx, Utcb::load_vmx, Vcpu::mtd, Utcb::load_exc, Utcb::save_exc).
THEOREM EntryIsExact == ASSUME S!PageAssumption PROVE S!Spec => EntryExact
  <1> DEFINE E == /\ at = "run" /\ at' = "guest" =>
                      /\ ~ told \/ item = "QUAL" => S!Seen(hw'.v) = last
                      /\ told /\ want.by = "user" /\ item # "QUAL" =>
                            \/ S!Seen(hw'.v) = S!Asked(want.v)
                            \/ /\ item = "TSC_TIMEOUT"
                               /\ hw'.v = TimerMax \/ hw'.v * 2^Shift \in want.v..(want.v + 2^Shift - 1)
                      /\ want.by = "kernel" /\ S!TwoSided => S!Seen(hw'.v) = last
                  /\ at = "handler" /\ at' = "ec" /\ want.by = "kernel" => hw'.v = last
  <1>1. ASSUME SInv, S!Next PROVE E
    <2>1. ASSUME at = "run", at' = "guest"
          PROVE  \E step \in BOOLEAN : S!run(step)
      BY <1>1, <2>1 DEF S!Next, S!UserWrites, S!sys_vcpu_ctrl_run, S!load_exc, S!save_exc, S!ReturnEarly,
                        S!return_to_vmm, S!GuestRuns, S!handle_vmx, S!EcRuns
    <2>2. ASSUME at = "handler", at' = "ec"
          PROVE  \E m : S!save_exc(m)
      BY <1>1, <2>2 DEF S!Next, S!UserWrites, S!sys_vcpu_ctrl_run, S!load_exc, S!ReturnEarly,
                        S!return_to_vmm, S!GuestRuns, S!handle_vmx, S!EcRuns, S!run
    <2>3. ASSUME at = "run", at' = "guest"
          PROVE  /\ ~ told \/ item = "QUAL" => S!Seen(hw'.v) = last
                 /\ told /\ want.by = "user" /\ item # "QUAL" =>
                       \/ S!Seen(hw'.v) = S!Asked(want.v)
                       \/ /\ item = "TSC_TIMEOUT"
                          /\ hw'.v = TimerMax \/ hw'.v * 2^Shift \in want.v..(want.v + 2^Shift - 1)
                 /\ want.by = "kernel" /\ S!TwoSided => S!Seen(hw'.v) = last
      <3>1. hw'.v = IF told /\ item # "QUAL" THEN S!save(page.v, hw.v) ELSE hw.v
        BY <1>1, <2>1, <2>3, SEntered
      <3>2. S!Seen(hw.v) = last /\ SPage(page.v) /\ SHw(hw.v) /\ want.v = page.v
        BY <1>1, <2>3 DEF SInv, SLast, STypes
      <3>3. ~ told \/ item = "QUAL" => S!Seen(hw'.v) = last
        BY <3>1, <3>2
      <3>4. item # "TSC_TIMEOUT" => S!Seen(S!save(page.v, hw.v)) = S!Asked(page.v)
        BY <3>2, SRoundTrip
      <3>5. item = "TSC_TIMEOUT" => /\ page.v \in Nat
                                    /\ S!save(page.v, hw.v) = S!calc_timeout(page.v)
        BY <3>2, SSave DEF SPage
      <3>6. ASSUME item = "TSC_TIMEOUT"
            PROVE  LET k == S!save(page.v, hw.v) IN k = TimerMax \/ k * 2^Shift \in page.v..(page.v + 2^Shift - 1)
        BY <3>5, <3>6, STimer
      <3>7. ASSUME told, want.by = "kernel", S!TwoSided PROVE S!Seen(hw'.v) = last
        <4>1. page.v = last
          BY <1>1, <2>3, <3>7 DEF SInv, SLast, STold, SGuest
        <4>2. S!Asked(page.v) = page.v /\ item \notin {"TSC_TIMEOUT", "QUAL"}
          BY <3>7, SAsked DEF S!TwoSided
        <4> QED
          BY <3>1, <3>4, <3>7, <4>1, <4>2
      <3>8. told /\ item # "QUAL" => hw'.v = S!save(page.v, hw.v)
        BY <3>1
      <3>9. told \in BOOLEAN
        BY <1>1 DEF SInv, STypes
      <3> QED
        BY <3>2, <3>3, <3>4, <3>6, <3>7, <3>8, <3>9
    <2>4. ASSUME at = "handler", at' = "ec", want.by = "kernel" PROVE hw'.v = last
      <3>1. PICK m : S!save_exc(m)
        BY <2>2, <2>4
      <3>2. hw'.v = IF item \notin m \/ item = "QUAL" THEN hw.v
                    ELSE IF item = "RIP_LEN" THEN [hw.v EXCEPT !.ip = page.v.ip]
                    ELSE IF item = "RFLAGS" THEN S!user_flags(page.v) ELSE page.v
        BY <1>1, <3>1, SReplied
      <3>3. hw.v = last /\ IF item = "RIP_LEN" THEN page.v.ip = last.ip ELSE page.v = last
        BY <1>1, <2>4 DEF SInv, SLast
      <3>4. item = "RIP_LEN" => [hw.v EXCEPT !.ip = page.v.ip] = hw.v
        BY <1>1, <3>3 DEF SInv, STypes, SHw
      <3>5. item = "RFLAGS" => S!user_flags(page.v) = page.v
        BY <1>1, <2>4, <3>3 DEF SInv, SLegal, S!user_flags
      <3> QED
        BY <3>2, <3>3, <3>4, <3>5
    <2> QED
      BY <2>3, <2>4
  <1>2. S!Init => SInv
    BY SInit
  <1>3. SInv /\ [S!Next]_(S!vars) => SInv'
    BY SNext
  <1>4. SInv /\ [S!Next]_(S!vars) => [E]_(S!vars)
    BY <1>1
  <1> QED
    BY <1>2, <1>3, <1>4, PTL DEF EntryExact, S!Spec, S!EntryExact

-----------------------------------------------------------------------------
(* The lists of the slab allocator (Slab).                                 *)

\* The links l hold the n slabs q[1], ..., q[n] in this order.
CList(n, q, l) ==
    /\ n \in Nat /\ q \in [1..n -> C!Slabs]
    /\ \A i, j \in 1..n : q[i] = q[j] => i = j
    /\ l.prev \in [C!Slabs -> C!Slabs \cup {Null}] /\ l.next \in [C!Slabs -> C!Slabs \cup {Null}]
    /\ l.head = IF n = 0 THEN Null ELSE q[1]
    /\ \A i \in 1..n : /\ l.prev[q[i]] = IF i = 1 THEN Null ELSE q[i - 1]
                       /\ l.next[q[i]] = IF i = n THEN Null ELSE q[i + 1]

\* The list with s after its first k slabs, and the list without the k-th.
CWith(n, q, k, s) == [i \in 1..(n + 1) |-> IF i <= k THEN q[i] ELSE IF i = k + 1 THEN s ELSE q[i - 1]]
CWithout(n, q, k) == [i \in 1..(n - 1) |-> IF i < k THEN q[i] ELSE q[i + 1]]

\* Slab::enqueue between neighbours.
LEMMA CEnqueue ==
    ASSUME C!SlabAssumption, NEW n, NEW q, NEW l, CList(n, q, l), NEW s \in C!Slabs, \A i \in 1..n : q[i] # s,
           NEW k \in 0..n
    PROVE  LET p == IF k = 0 THEN Null ELSE q[k]
               x == IF k = n THEN Null ELSE q[k + 1]
               e == C!enqueue(l, s, p, x)
           IN  CList(n + 1, CWith(n, q, k, s), e) /\ e.ok
  <1> DEFINE p == IF k = 0 THEN Null ELSE q[k]
             x == IF k = n THEN Null ELSE q[k + 1]
             e == C!enqueue(l, s, p, x)
             w == CWith(n, q, k, s)
  <1>1. n \in Nat /\ k \in Nat /\ k <= n /\ n + 1 \in Nat /\ Null \notin C!Slabs /\ s # Null
    BY DEF CList, C!SlabAssumption
  <1>2. /\ e.prev = [y \in C!Slabs |-> IF y = s THEN p ELSE IF y = x THEN s ELSE l.prev[y]]
        /\ e.next = [y \in C!Slabs |-> IF y = s THEN x ELSE IF y = p THEN s ELSE l.next[y]]
        /\ e.head = IF p = Null THEN s ELSE l.head
        /\ e.ok = ((x # Null => l.prev[x] = p) /\ (p # Null => l.next[p] = x))
    BY DEF C!enqueue
  <1>3. \A i \in 1..n : q[i] \in C!Slabs /\ q[i] # Null
    BY <1>1 DEF CList
  <1>4. p \in C!Slabs \cup {Null} /\ x \in C!Slabs \cup {Null}
    BY <1>1, <1>3
  <1>5. /\ w \in [1..(n + 1) -> C!Slabs]
        /\ \A i \in 1..(n + 1) : w[i] = IF i <= k THEN q[i] ELSE IF i = k + 1 THEN s ELSE q[i - 1]
    <2>1. \A i \in 1..(n + 1) : (i <= k => i \in 1..n) /\ (~ (i <= k) /\ i # k + 1 => i - 1 \in 1..n)
      BY <1>1
    <2> QED
      BY <1>3, <2>1 DEF CWith
  <1>6. \A i, j \in 1..(n + 1) : w[i] = w[j] => i = j
    <2> SUFFICES ASSUME NEW i \in 1..(n + 1), NEW j \in 1..(n + 1), w[i] = w[j] PROVE i = j
      OBVIOUS
    <2>1. (i <= k => i \in 1..n) /\ (~ (i <= k) /\ i # k + 1 => i - 1 \in 1..n)
      BY <1>1
    <2>2. (j <= k => j \in 1..n) /\ (~ (j <= k) /\ j # k + 1 => j - 1 \in 1..n)
      BY <1>1
    <2> HIDE DEF w
    <2> QED
      BY <1>1, <1>5, <2>1, <2>2 DEF CList
  <1>7. e.prev \in [C!Slabs -> C!Slabs \cup {Null}] /\ e.next \in [C!Slabs -> C!Slabs \cup {Null}]
    <2> HIDE DEF p, x, e
    <2> QED
      BY <1>2, <1>4 DEF CList
  <1>8. e.head = w[1]
    <2>1. 1 \in 1..(n + 1)
      BY <1>1
    <2> QED
      BY <1>1, <1>2, <1>3, <1>5, <2>1 DEF CList
  <1>9. e.ok
    <2>1. x # Null => l.prev[x] = p
      <3>1. CASE k = n
        BY <3>1
      <3>2. CASE k # n
        <4>1. k + 1 \in 1..n /\ (k + 1 = 1 <=> k = 0) /\ (k + 1) - 1 = k
          BY <1>1, <3>2
        <4> QED
          BY <3>2, <4>1 DEF CList
      <3> QED
        BY <3>1, <3>2
    <2>2. p # Null => l.next[p] = x
      <3>1. CASE k = 0
        BY <3>1
      <3>2. CASE k # 0
        <4>1. k \in 1..n
          BY <1>1, <3>2
        <4> QED
          BY <3>2, <4>1 DEF CList
      <3> QED
        BY <3>1, <3>2
    <2> HIDE DEF p, x, e
    <2> QED
      BY <1>2, <2>1, <2>2
  <1> HIDE DEF e, w
  <1>10. ASSUME NEW i \in 1..(n + 1)
         PROVE  /\ e.prev[w[i]] = IF i = 1 THEN Null ELSE w[i - 1]
                /\ e.next[w[i]] = IF i = n + 1 THEN Null ELSE w[i + 1]
    <2>1. CASE i = k + 1
      <3>1. w[i] = s /\ (i # 1 => w[i - 1] = q[k]) /\ (i # n + 1 => w[i + 1] = q[k + 1])
        <4>1. i # 1 => i - 1 \in 1..(n + 1) /\ i - 1 <= k /\ i - 1 = k
          BY <1>1, <2>1
        <4>2. i # n + 1 => i + 1 \in 1..(n + 1) /\ ~ (i + 1 <= k) /\ i + 1 # k + 1 /\ (i + 1) - 1 = k + 1
          BY <1>1, <2>1
        <4>3. ~ (i <= k)
          BY <1>1, <2>1
        <4> QED
          BY <1>5, <2>1, <4>1, <4>2, <4>3
      <3>2. e.prev[s] = p /\ e.next[s] = x
        BY <1>2
      <3> QED
        BY <1>1, <2>1, <3>1, <3>2
    <2>2. CASE i <= k
      <3>1. i \in 1..n /\ i # n + 1 /\ i # k + 1 /\ i + 1 \in 1..(n + 1)
        BY <1>1, <2>2
      <3>2. w[i] = q[i] /\ q[i] # s /\ q[i] \in C!Slabs
        BY <1>3, <1>5, <2>2, <3>1
      <3>3. e.prev[w[i]] = IF i = 1 THEN Null ELSE q[i - 1]
        <4>1. q[i] # x
          BY <1>1, <1>3, <2>2, <3>1 DEF CList
        <4>2. l.prev[q[i]] = IF i = 1 THEN Null ELSE q[i - 1]
          BY <3>1 DEF CList
        <4> HIDE DEF p, x
        <4> QED
          BY <1>2, <3>2, <4>1, <4>2
      <3>4. i # 1 => w[i - 1] = q[i - 1]
        <4>1. i # 1 => i - 1 \in 1..(n + 1) /\ i - 1 <= k
          BY <1>1, <2>2, <3>1
        <4> QED
          BY <1>5, <4>1
      <3>5. CASE i = k
        <4>1. w[i + 1] = s
          <5>1. ~ (i + 1 <= k) /\ i + 1 = k + 1
            BY <1>1, <3>5
          <5> QED
            BY <1>5, <3>1, <5>1
        <4>2. p = q[i]
          BY <1>1, <3>1, <3>5
        <4>3. e.next[w[i]] = s
          <5> HIDE DEF p, x
          <5> QED
            BY <1>2, <3>2, <4>2
        <4> QED
          BY <3>1, <3>3, <3>4, <4>1, <4>3
      <3>6. CASE i # k
        <4>1. w[i + 1] = q[i + 1] /\ i # n
          <5>1. i + 1 <= k /\ i # n
            BY <1>1, <2>2, <3>1, <3>6
          <5> QED
            BY <1>5, <3>1, <5>1
        <4>2. q[i] # p
          BY <1>1, <1>3, <2>2, <3>1, <3>6 DEF CList
        <4>3. l.next[q[i]] = q[i + 1]
          BY <3>1, <4>1 DEF CList
        <4>4. e.next[w[i]] = q[i + 1]
          <5> HIDE DEF p, x
          <5> QED
            BY <1>2, <3>2, <4>2, <4>3
        <4> QED
          BY <3>1, <3>3, <3>4, <4>1, <4>4
      <3> QED
        BY <3>5, <3>6
    <2>3. CASE i > k + 1
      <3>1. i - 1 \in 1..n /\ i # 1 /\ ~ (i <= k) /\ i # k + 1 /\ i - 1 \in 1..(n + 1)
        BY <1>1, <2>3
      <3>2. w[i] = q[i - 1] /\ q[i - 1] # s /\ q[i - 1] \in C!Slabs
        BY <1>3, <1>5, <3>1
      <3>3. i # n + 1 => w[i + 1] = q[i]
        <4>1. i # n + 1 => i + 1 \in 1..(n + 1) /\ ~ (i + 1 <= k) /\ i + 1 # k + 1 /\ (i + 1) - 1 = i
          BY <1>1, <2>3
        <4> QED
          BY <1>5, <4>1
      <3>4. e.next[w[i]] = IF i = n + 1 THEN Null ELSE q[i]
        <4>1. q[i - 1] # p
          BY <1>1, <1>3, <2>3, <3>1 DEF CList
        <4>2. l.next[q[i - 1]] = IF i - 1 = n THEN Null ELSE q[(i - 1) + 1]
          BY <3>1 DEF CList
        <4>3. (i - 1 = n <=> i = n + 1) /\ (i - 1) + 1 = i
          BY <1>1, <3>1
        <4> HIDE DEF p, x
        <4> QED
          BY <1>2, <3>2, <4>1, <4>2, <4>3
      <3>5. CASE i = k + 2
        <4>1. w[i - 1] = s
          <5>1. ~ (i - 1 <= k) /\ i - 1 = k + 1
            BY <1>1, <3>5
          <5> QED
            BY <1>5, <3>1, <5>1
        <4>2. x = q[i - 1]
          <5>1. k # n /\ k + 1 = i - 1
            BY <1>1, <3>1, <3>5
          <5> QED
            BY <5>1
        <4>3. e.prev[w[i]] = s
          <5> HIDE DEF p, x
          <5> QED
            BY <1>2, <3>2, <4>2
        <4> QED
          BY <3>1, <3>3, <3>4, <4>1, <4>3
      <3>6. CASE i # k + 2
        <4>1. w[i - 1] = q[i - 2]
          <5>1. ~ (i - 1 <= k) /\ i - 1 # k + 1 /\ (i - 1) - 1 = i - 2
            BY <1>1, <2>3, <3>1, <3>6
          <5> QED
            BY <1>5, <3>1, <5>1
        <4>2. q[i - 1] # x
          <5>1. k # n => k + 1 \in 1..n /\ k + 1 # i - 1
            BY <1>1, <3>1, <3>6
          <5> QED
            BY <1>3, <3>1, <5>1 DEF CList
        <4>3. l.prev[q[i - 1]] = q[i - 2]
          <5>1. i - 1 # 1 /\ (i - 1) - 1 = i - 2
            BY <1>1, <2>3, <3>1, <3>6
          <5> QED
            BY <3>1, <5>1 DEF CList
        <4>4. e.prev[w[i]] = q[i - 2]
          <5> HIDE DEF p, x
          <5> QED
            BY <1>2, <3>2, <4>2, <4>3
        <4> QED
          BY <3>1, <3>3, <3>4, <4>1, <4>4
      <3> QED
        BY <3>5, <3>6
    <2> QED
      BY <1>1, <2>1, <2>2, <2>3
  <1>11. CList(n + 1, w, e)
    BY <1>1, <1>5, <1>6, <1>7, <1>8, <1>10 DEF CList
  <1> QED
    BY <1>9, <1>11 DEF e, w

\* Slab::dequeue of a slab that is not the head.
LEMMA CDequeue ==
    ASSUME C!SlabAssumption, NEW n, NEW q, NEW l, CList(n, q, l), NEW k \in 2..n
    PROVE  CList(n - 1, CWithout(n, q, k), C!dequeue(l, q[k]))
  <1> DEFINE d == C!dequeue(l, q[k])
             w == CWithout(n, q, k)
             x == IF k = n THEN Null ELSE q[k + 1]
  <1>1. n \in Nat /\ k \in 1..n /\ k - 1 \in 1..n /\ k # 1 /\ n - 1 \in Nat /\ n # 0 /\ n - 1 # 0
    BY DEF CList
  <1>2. \A i \in 1..n : q[i] \in C!Slabs /\ q[i] # Null
    BY DEF CList, C!SlabAssumption
  <1>3. l.prev[q[k]] = q[k - 1] /\ l.next[q[k]] = x
    BY <1>1 DEF CList
  <1>4. x \in C!Slabs \cup {Null}
    BY <1>1, <1>2
  <1>5. /\ d.prev = [y \in C!Slabs |-> IF y = x THEN q[k - 1] ELSE l.prev[y]]
        /\ d.next = [y \in C!Slabs |-> IF y = q[k - 1] THEN x ELSE l.next[y]]
        /\ d.head = l.head
    <2> HIDE DEF x
    <2> QED
      BY <1>3 DEF C!dequeue
  <1>6. /\ w \in [1..(n - 1) -> C!Slabs]
        /\ \A i \in 1..(n - 1) : w[i] = IF i < k THEN q[i] ELSE q[i + 1]
    <2>1. \A i \in 1..(n - 1) : i \in 1..n /\ i + 1 \in 1..n
      BY <1>1
    <2> QED
      BY <1>2, <2>1 DEF CWithout
  <1> HIDE DEF d, w
  <1>7. \A i, j \in 1..(n - 1) : w[i] = w[j] => i = j
    <2> SUFFICES ASSUME NEW i \in 1..(n - 1), NEW j \in 1..(n - 1), w[i] = w[j] PROVE i = j
      OBVIOUS
    <2> DEFINE a == IF i < k THEN i ELSE i + 1
               b == IF j < k THEN j ELSE j + 1
    <2>1. a \in 1..n /\ b \in 1..n /\ (a = b => i = j)
      BY <1>1
    <2>2. w[i] = q[a] /\ w[j] = q[b]
      BY <1>6
    <2> HIDE DEF a, b
    <2>3. \A y, z \in 1..n : q[y] = q[z] => y = z
      BY DEF CList
    <2>4. q[a] = q[b]
      BY <2>2
    <2> QED
      BY <2>1, <2>3, <2>4
  <1>8. d.prev \in [C!Slabs -> C!Slabs \cup {Null}] /\ d.next \in [C!Slabs -> C!Slabs \cup {Null}]
    <2> HIDE DEF x
    <2> QED
      BY <1>1, <1>2, <1>4, <1>5 DEF CList
  <1>9. d.head = w[1]
    <2>1. 1 \in 1..(n - 1) /\ 1 < k
      BY <1>1
    <2> QED
      BY <1>1, <1>5, <1>6, <2>1 DEF CList
  <1>10. ASSUME NEW i \in 1..(n - 1)
         PROVE  /\ d.prev[w[i]] = IF i = 1 THEN Null ELSE w[i - 1]
                /\ d.next[w[i]] = IF i = n - 1 THEN Null ELSE w[i + 1]
    <2>0. i \in 1..n /\ i + 1 \in 1..n /\ i \in Int /\ k \in Int
      BY <1>1
    <2>1. CASE i < k
      <3>1. w[i] = q[i] /\ q[i] \in C!Slabs
        BY <1>2, <1>6, <2>0, <2>1
      <3>2. i # 1 => w[i - 1] = q[i - 1]
        <4>1. i # 1 => i - 1 \in 1..(n - 1) /\ i - 1 < k
          BY <1>1, <2>0, <2>1
        <4> QED
          BY <1>6, <4>1
      <3>3. d.prev[w[i]] = IF i = 1 THEN Null ELSE q[i - 1]
        <4>1. q[i] # x
          <5>1. k # n => k + 1 \in 1..n /\ k + 1 # i
            BY <1>1, <2>0, <2>1
          <5> QED
            BY <1>2, <2>0, <5>1 DEF CList
        <4>2. l.prev[q[i]] = IF i = 1 THEN Null ELSE q[i - 1]
          BY <2>0 DEF CList
        <4> HIDE DEF x
        <4> QED
          BY <1>5, <3>1, <4>1, <4>2
      <3>4. CASE i = k - 1
        <4>1. i # n - 1 => w[i + 1] = q[k + 1]
          <5>1. i # n - 1 => i + 1 \in 1..(n - 1) /\ ~ (i + 1 < k) /\ (i + 1) + 1 = k + 1
            BY <1>1, <2>0, <3>4
          <5> QED
            BY <1>6, <5>1
        <4>2. d.next[w[i]] = x
          <5> HIDE DEF x
          <5> QED
            BY <1>5, <3>1, <3>4
        <4>3. k = n <=> i = n - 1
          BY <1>1, <2>0, <3>4
        <4> QED
          BY <3>2, <3>3, <4>1, <4>2, <4>3
      <3>5. CASE i # k - 1
        <4>1. i # n - 1 /\ i + 1 \in 1..(n - 1) /\ i + 1 < k /\ i # n
          BY <1>1, <2>0, <2>1, <3>5
        <4>2. w[i + 1] = q[i + 1]
          BY <1>6, <4>1
        <4>3. q[i] # q[k - 1]
          BY <1>1, <2>0, <3>5 DEF CList
        <4>4. l.next[q[i]] = q[i + 1]
          BY <2>0, <4>1 DEF CList
        <4>5. d.next[w[i]] = q[i + 1]
          <5> HIDE DEF x
          <5> QED
            BY <1>5, <3>1, <4>3, <4>4
        <4> QED
          BY <3>2, <3>3, <4>1, <4>2, <4>5
      <3> QED
        BY <3>4, <3>5
    <2>2. CASE ~ (i < k)
      <3>1. w[i] = q[i + 1] /\ q[i + 1] \in C!Slabs /\ i # 1 /\ i - 1 \in 1..(n - 1)
        <4>1. i # 1 /\ i - 1 \in 1..(n - 1)
          BY <1>1, <2>0, <2>2
        <4> QED
          BY <1>2, <1>6, <2>0, <2>2, <4>1
      <3>2. i # n - 1 => w[i + 1] = q[i + 2]
        <4>1. i # n - 1 => i + 1 \in 1..(n - 1) /\ ~ (i + 1 < k) /\ (i + 1) + 1 = i + 2
          BY <1>1, <2>0, <2>2
        <4> QED
          BY <1>6, <4>1
      <3>3. d.next[w[i]] = IF i = n - 1 THEN Null ELSE q[i + 2]
        <4>1. q[i + 1] # q[k - 1]
          <5>1. i + 1 # k - 1
            BY <1>1, <2>0, <2>2
          <5> QED
            BY <1>1, <2>0, <5>1 DEF CList
        <4>2. l.next[q[i + 1]] = IF i + 1 = n THEN Null ELSE q[(i + 1) + 1]
          BY <2>0 DEF CList
        <4>3. (i + 1 = n <=> i = n - 1) /\ (i + 1) + 1 = i + 2
          BY <1>1, <2>0
        <4> HIDE DEF x
        <4> QED
          BY <1>5, <3>1, <4>1, <4>2, <4>3
      <3>4. CASE i = k
        <4>1. w[i - 1] = q[k - 1]
          <5>1. i - 1 < k
            BY <2>0, <3>4
          <5> QED
            BY <1>6, <3>1, <3>4, <5>1
        <4>2. x = q[i + 1]
          <5>1. k # n
            BY <1>1, <2>0, <3>4
          <5> QED
            BY <3>4, <5>1
        <4>3. d.prev[w[i]] = q[k - 1]
          <5> HIDE DEF x
          <5> QED
            BY <1>5, <3>1, <4>2
        <4> QED
          BY <3>1, <3>2, <3>3, <4>1, <4>3
      <3>5. CASE i # k
        <4>1. w[i - 1] = q[i]
          <5>1. ~ (i - 1 < k) /\ (i - 1) + 1 = i
            BY <2>0, <2>2, <3>5
          <5> QED
            BY <1>6, <3>1, <5>1
        <4>2. q[i + 1] # x
          <5>1. k # n => k + 1 \in 1..n /\ k + 1 # i + 1
            BY <1>1, <2>0, <3>5
          <5> QED
            BY <1>2, <2>0, <5>1 DEF CList
        <4>3. l.prev[q[i + 1]] = q[i]
          <5>1. i + 1 # 1 /\ (i + 1) - 1 = i
            BY <2>0
          <5> QED
            BY <2>0, <5>1 DEF CList
        <4>4. d.prev[w[i]] = q[i]
          <5> HIDE DEF x
          <5> QED
            BY <1>5, <3>1, <4>2, <4>3
        <4> QED
          BY <3>1, <3>2, <3>3, <4>1, <4>4
      <3> QED
        BY <3>4, <3>5
    <2> QED
      BY <2>1, <2>2
  <1>11. CList(n - 1, w, d)
    BY <1>1, <1>6, <1>7, <1>8, <1>9, <1>10 DEF CList
  <1> QED
    BY <1>11 DEF d, w

\* Slabs up to the c-th have room, the others are full; curr is the c-th.
CShape(n, q, c) ==
    /\ CList(n, q, C!Links)
    /\ slabs \subseteq C!Slabs /\ \A i \in 1..n : q[i] \in slabs
    /\ \A s \in slabs : \E i \in 1..n : q[i] = s
    /\ slive \in [C!Slabs -> SUBSET (1..Elem)]
    /\ c \in 0..n
    /\ scurr = IF c = 0 THEN Null ELSE q[c]
    /\ \A i \in 1..n : C!full(slive[q[i]]) <=> i > c
    /\ \A i \in 1..n : slive[q[i]] = {} => i = 1
    /\ sok = TRUE

CInv == \E n \in Nat : \E q \in [1..n -> C!Slabs] : \E c \in 0..n : CShape(n, q, c)

LEMMA CShapeInv ==
    ASSUME NEW n, NEW q, NEW c, CShape(n, q, c)'
    PROVE  CInv'
  <1>1. n \in Nat /\ q \in [1..n -> C!Slabs] /\ c \in 0..n
    BY DEF CShape, CList
  <1> QED
    BY <1>1 DEF CInv

LEMMA CSet ==
    ASSUME NEW n, NEW q, NEW l, CList(n, q, l), C!Set(l)
    PROVE  CList(n, q, C!Links)'
  <1>1. C!Links'.prev = l.prev /\ C!Links'.next = l.next /\ C!Links'.head = l.head
    BY DEF C!Set, C!Links
  <1> QED
    BY <1>1 DEF CList

\* A slab that is full is neither empty nor does it hold one object.
LEMMA CFull ==
    ASSUME C!SlabAssumption
    PROVE  /\ ~ C!full({}) /\ \A e \in 1..Elem : ~ C!full({e})
           /\ \A e \in 1..Elem : 1..Elem \ {e} # {} /\ ~ C!full(1..Elem \ {e})
  <1>1. 1 \in 1..Elem /\ 2 \in 1..Elem /\ 1 # 2
    BY DEF C!SlabAssumption
  <1>2. ~ C!full({}) /\ \A e \in 1..Elem : ~ C!full({e})
    BY <1>1 DEF C!full
  <1>3. ASSUME NEW e \in 1..Elem PROVE 1..Elem \ {e} # {} /\ ~ C!full(1..Elem \ {e})
    <2>1. e \notin 1..Elem \ {e} /\ (1 \in 1..Elem \ {e} \/ 2 \in 1..Elem \ {e})
      BY <1>1
    <2>2. ~ C!full(1..Elem \ {e})
      BY <2>1, Zenon DEF C!full
    <2> QED
      BY <2>1, <2>2
  <1> QED
    BY <1>2, <1>3

\* The neighbours of a slab, and what is known of the slab of an operation.
LEMMA CAt ==
    ASSUME C!SlabAssumption, NEW n, NEW q, NEW c, CShape(n, q, c), NEW s \in slabs
    PROVE  \E k \in 1..n :
             /\ q[k] = s /\ s \in C!Slabs
             /\ sprev[s] = IF k = 1 THEN Null ELSE q[k - 1]
             /\ snext[s] = IF k = n THEN Null ELSE q[k + 1]
             /\ sprev[s] = Null <=> k = 1
  <1>1. PICK k \in 1..n : q[k] = s
    BY DEF CShape
  <1>2. /\ sprev[s] = IF k = 1 THEN Null ELSE q[k - 1]
        /\ snext[s] = IF k = n THEN Null ELSE q[k + 1]
    BY <1>1 DEF CShape, CList, C!Links
  <1>3. n \in Nat /\ Null \notin C!Slabs /\ \A i \in 1..n : q[i] \in C!Slabs
    BY DEF CShape, CList, C!SlabAssumption
  <1>4. k # 1 => k - 1 \in 1..n
    BY <1>3
  <1>5. sprev[s] = Null <=> k = 1
    BY <1>2, <1>3, <1>4
  <1> QED
    BY <1>1, <1>2, <1>3, <1>5

LEMMA CAlloc ==
    ASSUME C!SlabAssumption, NEW n, NEW q, NEW c, CShape(n, q, c), C!alloc
    PROVE  CInv'
  <1>1. n \in Nat /\ c \in 0..n /\ Null \notin C!Slabs /\ \A i \in 1..n : q[i] \in C!Slabs
    BY DEF CShape, CList, C!SlabAssumption
  <1>2. CASE scurr = Null
    <2>1. c = 0
      <3>1. c # 0 => c \in 1..n
        BY <1>1
      <3> QED
        BY <1>1, <1>2, <3>1 DEF CShape
    <2> DEFINE l(s) == C!enqueue(C!Links, s, Null, shead)
    <2>2. PICK s \in C!Slabs, e \in 1..Elem :
            /\ s \notin slabs /\ slabs' = slabs \cup {s} /\ slive' = [slive EXCEPT ![s] = {} \cup {e}]
            /\ C!Set(l(s)) /\ scurr' = IF C!full({} \cup {e}) THEN l(s).prev[s] ELSE s
            /\ sok' = (sok /\ l(s).ok /\ ~ C!full({}) /\ (l(s).next[s] # Null => C!full(slive[l(s).next[s]])))
      BY <1>2 DEF C!alloc
    <2> DEFINE w == CWith(n, q, 0, s)
    <2>3. \A i \in 1..n : q[i] # s
      BY <2>2 DEF CShape
    <2>4. shead = IF 0 = n THEN Null ELSE q[1]
      BY DEF CShape, CList, C!Links
    <2>5. CList(n + 1, w, l(s)) /\ l(s).ok
      <3>1. 0 \in 0..n /\ 0 + 1 = 1 /\ CList(n, q, C!Links)
        BY <1>1 DEF CShape
      <3> HIDE DEF w
      <3> QED
        BY <2>3, <2>4, <3>1, CEnqueue DEF w
    <2>6. l(s).next[s] = shead
      BY DEF C!enqueue
    <2>7. shead # Null => C!full(slive[shead])
      <3>1. n # 0 => 1 \in 1..n /\ 1 > c
        BY <1>1, <2>1
      <3> QED
        BY <2>4, <3>1 DEF CShape
    <2> HIDE DEF l
    <2>8. sok' = TRUE
      BY <2>2, <2>5, <2>6, <2>7, CFull DEF CShape
    <2>9. CList(n + 1, w, C!Links)'
      BY <2>2, <2>5, CSet
    <2>10. /\ w[1] = s
           /\ \A i \in 1..(n + 1) : i # 1 => i - 1 \in 1..n /\ w[i] = q[i - 1] /\ i > 1
           /\ \A i \in 1..n : i + 1 \in 1..(n + 1) /\ w[i + 1] = q[i]
      <3>1. 1 \in 1..(n + 1) /\ \A i \in 1..n : i + 1 \in 1..(n + 1) /\ (i + 1) - 1 = i /\ i + 1 # 1
        BY <1>1
      <3>2. \A i \in 1..(n + 1) : ~ (i <= 0) /\ (i # 1 => i - 1 \in 1..n /\ i > 1)
        BY <1>1
      <3>3. \A i \in 1..(n + 1) : w[i] = IF i = 1 THEN s ELSE q[i - 1]
        BY <3>2 DEF CWith
      <3> HIDE DEF w
      <3> QED
        BY <3>1, <3>2, <3>3
    <2> HIDE DEF w
    <2>11. /\ slive' \in [C!Slabs -> SUBSET (1..Elem)] /\ slive'[s] = {e}
           /\ \A i \in 1..n : slive'[q[i]] = slive[q[i]]
      BY <1>1, <2>2, <2>3 DEF CShape
    <2>12. \A i \in 1..n : C!full(slive[q[i]]) /\ slive[q[i]] # {}
      <3>1. \A i \in 1..n : C!full(slive[q[i]])
        BY <2>1 DEF CShape
      <3> QED
        BY <3>1, CFull, Zenon
    <2>13. ASSUME NEW i \in 1..(n + 1)
           PROVE  /\ w[i] \in slabs'
                  /\ C!full(slive'[w[i]]) <=> i > 1
                  /\ slive'[w[i]] = {} => i = 1
      <3>1. CASE i = 1
        BY <2>2, <2>10, <2>11, <3>1, CFull
      <3>2. CASE i # 1
        <4>1. i - 1 \in 1..n /\ w[i] = q[i - 1] /\ i > 1
          BY <2>10, <3>2
        <4>2. q[i - 1] \in slabs
          BY <4>1 DEF CShape
        <4> QED
          BY <2>2, <2>11, <2>12, <4>1, <4>2
      <3> QED
        BY <3>1, <3>2
    <2>14. \A x \in slabs' : \E i \in 1..(n + 1) : w[i] = x
      <3> SUFFICES ASSUME NEW x \in slabs' PROVE \E i \in 1..(n + 1) : w[i] = x
        OBVIOUS
      <3>1. CASE x = s
        <4>1. 1 \in 1..(n + 1)
          BY <1>1
        <4> QED
          BY <2>10, <3>1, <4>1
      <3>2. CASE x # s
        <4>1. PICK i \in 1..n : q[i] = x
          BY <2>2, <3>2 DEF CShape
        <4> QED
          BY <2>10, <4>1
      <3> QED
        BY <3>1, <3>2
    <2>15. scurr' = w[1] /\ slabs' \subseteq C!Slabs /\ 1 \in 0..(n + 1)
      <3>1. scurr' = s
        BY <2>2, CFull
      <3> QED
        BY <1>1, <2>2, <2>10, <3>1 DEF CShape
    <2>16. CShape(n + 1, w, 1)'
      <3>1. 1 # 0
        OBVIOUS
      <3> QED
        BY <2>8, <2>9, <2>11, <2>13, <2>14, <2>15, <3>1 DEF CShape
    <2> QED
      BY <2>16, CShapeInv
  <1>3. CASE scurr # Null
    <2>1. c \in 1..n /\ c # 0 /\ scurr = q[c] /\ scurr \in C!Slabs /\ scurr \in slabs
      <3>1. c # 0
        BY <1>3 DEF CShape
      <3>2. c \in 1..n
        BY <1>1, <3>1
      <3> QED
        BY <1>1, <3>1, <3>2 DEF CShape
    <2> DEFINE s == scurr
    <2>2. PICK e \in 1..Elem :
            /\ e \notin slive[s] /\ slabs' = slabs \cup {s}
            /\ slive' = [slive EXCEPT ![s] = slive[s] \cup {e}]
            /\ C!Set(C!Links) /\ scurr' = IF C!full(slive[s] \cup {e}) THEN C!Links.prev[s] ELSE s
            /\ sok' = (sok /\ C!Links.ok /\ ~ C!full(slive[s])
                         /\ (C!Links.next[s] # Null => C!full(slive[C!Links.next[s]])))
      BY <1>3, Zenon DEF C!alloc
    <2>3. sprev[s] = (IF c = 1 THEN Null ELSE q[c - 1]) /\ snext[s] = IF c = n THEN Null ELSE q[c + 1]
      BY <2>1 DEF CShape, CList, C!Links
    <2>4. C!Links.ok = TRUE /\ C!Links.prev = sprev /\ C!Links.next = snext
      BY DEF C!Links
    <2>5. ~ C!full(slive[s])
      <3>1. ~ (c > c)
        BY <1>1
      <3> QED
        BY <2>1, <3>1 DEF CShape
    <2>6. snext[s] # Null => C!full(slive[snext[s]])
      <3>1. c # n => c + 1 \in 1..n /\ c + 1 > c
        BY <2>1, <1>1
      <3> QED
        BY <2>3, <3>1 DEF CShape
    <2>7. sok' = TRUE
      BY <2>2, <2>4, <2>5, <2>6, Zenon DEF CShape
    <2>8. CList(n, q, C!Links)' /\ slabs' = slabs
      <3>1. CList(n, q, C!Links)
        BY DEF CShape
      <3> QED
        BY <2>1, <2>2, <3>1, CSet
    <2>9. /\ slive' \in [C!Slabs -> SUBSET (1..Elem)] /\ slive'[s] = slive[s] \cup {e}
          /\ \A i \in 1..n : i # c => slive'[q[i]] = slive[q[i]]
      <3>1. \A i \in 1..n : i # c => q[i] # s
        BY <2>1 DEF CShape, CList
      <3> QED
        BY <1>1, <2>1, <2>2, <3>1 DEF CShape
    <2>10. PICK d \in 0..n : (C!full(slive[s] \cup {e}) => d = c - 1) /\ (~ C!full(slive[s] \cup {e}) => d = c)
      <3>1. c \in 0..n /\ c - 1 \in 0..n
        BY <1>1, <2>1
      <3> QED
        BY <3>1, Zenon
    <2>11. scurr' = IF d = 0 THEN Null ELSE q[d]
      <3>1. CASE C!full(slive[s] \cup {e})
        <4>1. d = 0 <=> c = 1
          BY <1>1, <2>10, <3>1
        <4> QED
          BY <2>2, <2>3, <2>4, <2>10, <3>1, <4>1
      <3>2. CASE ~ C!full(slive[s] \cup {e})
        BY <2>1, <2>2, <2>10, <3>2
      <3> QED
        BY <3>1, <3>2
    <2>12. ASSUME NEW i \in 1..n
           PROVE  (C!full(slive'[q[i]]) <=> i > d) /\ (slive'[q[i]] = {} => i = 1)
      <3>1. CASE i = c
        <4>1. C!full(slive'[q[i]]) <=> C!full(slive[s] \cup {e})
          BY <2>1, <2>9, <3>1
        <4>2. slive'[q[i]] # {}
          BY <2>1, <2>9, <3>1
        <4>3. c > c - 1 /\ ~ (c > c)
          BY <1>1
        <4> QED
          BY <2>10, <3>1, <4>1, <4>2, <4>3
      <3>2. CASE i # c
        <4>1. (C!full(slive[q[i]]) <=> i > c) /\ (slive[q[i]] = {} => i = 1)
          BY DEF CShape
        <4>2. i > d <=> i > c
          BY <1>1, <2>10, <3>2
        <4> QED
          BY <2>9, <3>2, <4>1, <4>2
      <3> QED
        BY <3>1, <3>2
    <2>13. CShape(n, q, d)'
      BY <2>7, <2>8, <2>9, <2>10, <2>11, <2>12 DEF CShape
    <2> QED
      BY <2>13, CShapeInv
  <1> QED
    BY <1>2, <1>3

\* What the k-th slab of the list and the list without it are.
LEMMA CWithoutAt ==
    ASSUME NEW n \in Nat, NEW q, NEW k \in 1..n
    PROVE  \A i \in 1..(n - 1) : CWithout(n, q, k)[i] = IF i < k THEN q[i] ELSE q[i + 1]
  BY DEF CWithout

LEMMA CWithAt ==
    ASSUME NEW n \in Nat, NEW q, NEW k \in 0..n, NEW s
    PROVE  \A i \in 1..(n + 1) :
             CWith(n, q, k, s)[i] = IF i <= k THEN q[i] ELSE IF i = k + 1 THEN s ELSE q[i - 1]
  BY DEF CWith

\* free() of a slab that was full.
LEMMA CFreeFull ==
    ASSUME C!SlabAssumption, NEW n, NEW q, NEW c, CShape(n, q, c),
           NEW s \in slabs, NEW e \in slive[s], C!free_full(s, e)
    PROVE  CInv'
  <1>1. n \in Nat /\ c \in 0..n /\ Null \notin C!Slabs /\ \A i \in 1..n : q[i] \in C!Slabs
    BY DEF CShape, CList, C!SlabAssumption
  <1>2. PICK k \in 1..n : /\ q[k] = s /\ s \in C!Slabs
                          /\ sprev[s] = IF k = 1 THEN Null ELSE q[k - 1]
                          /\ sprev[s] = Null <=> k = 1
    BY CAt
  <1>3. C!full(slive[s]) /\ k > c /\ c + 1 \in 1..n /\ e \in 1..Elem
    <2>1. C!full(slive[s])
      BY DEF C!free_full
    <2>2. k > c
      BY <1>2, <2>1 DEF CShape
    <2>3. e \in 1..Elem
      BY <1>2 DEF CShape
    <2> QED
      BY <1>1, <2>1, <2>2, <2>3
  <1>4. /\ slive' = [slive EXCEPT ![s] = slive[s] \ {e}] /\ C!Set(C!Requeued(s)) /\ scurr' = s
        /\ sok' = (sok /\ shead # Null /\ C!Requeued(s).ok) /\ slabs' = slabs
    BY DEF C!free_full
  <1>5. \A i, j \in 1..n : q[i] = q[j] => i = j
    BY DEF CShape, CList
  <1>6. /\ slive' \in [C!Slabs -> SUBSET (1..Elem)] /\ slive'[s] = (1..Elem) \ {e}
        /\ \A i \in 1..n : i # k => slive'[q[i]] = slive[q[i]]
    <2>1. slive[s] = 1..Elem
      BY <1>3 DEF C!full
    <2>2. \A i \in 1..n : i # k => q[i] # s
      BY <1>2, <1>5
    <2> QED
      BY <1>1, <1>2, <1>4, <2>1, <2>2 DEF CShape
  <1>7. shead # Null
    <2>1. n # 0 /\ 1 \in 1..n
      BY <1>1
    <2> QED
      BY <1>1, <2>1 DEF CShape, CList, C!Links
  <1>8. \E w : /\ CList(n, w, C!Requeued(s)) /\ C!Requeued(s).ok = TRUE
               /\ w[c + 1] = s
               /\ \A i \in 1..c : w[i] = q[i]
               /\ \A i \in 1..n : i > c + 1 => \E j \in 1..n : j > c /\ j # k /\ w[i] = q[j]
               /\ \A j \in 1..n : \E i \in 1..n : w[i] = q[j]
    <2>1. CASE k = c + 1
      <3>1. ~ (sprev[s] # Null /\ C!full(slive[sprev[s]]))
        <4>1. CASE k = 1
          BY <1>2, <4>1
        <4>2. CASE k # 1
          <5>1. k - 1 \in 1..n /\ ~ (k - 1 > c)
            BY <1>1, <2>1, <4>2
          <5> QED
            BY <1>2, <4>2, <5>1 DEF CShape
        <4> QED
          BY <4>1, <4>2
      <3>2. C!Requeued(s) = C!Links
        BY <3>1 DEF C!Requeued
      <3>3. CList(n, q, C!Links) /\ C!Links.ok = TRUE
        BY DEF CShape, C!Links
      <3>4. \A i \in 1..n : i > c + 1 => i > c /\ i # k
        BY <1>1, <2>1
      <3> QED
        BY <1>2, <2>1, <3>2, <3>3, <3>4
    <2>2. CASE k # c + 1
      <3>1. k \in 2..n /\ k # 1 /\ k - 1 \in 1..n /\ k - 1 > c /\ n - 1 \in Nat /\ c \in 0..(n - 1) /\ n - 1 # 0
        BY <1>1, <1>3, <2>2
      <3>2. sprev[s] # Null /\ C!full(slive[sprev[s]])
        BY <1>2, <3>1 DEF CShape
      <3> DEFINE l == C!dequeue(C!Links, s)
                 v == CWithout(n, q, k)
                 p == IF c = 0 THEN Null ELSE v[c]
                 x == IF c = n - 1 THEN Null ELSE v[c + 1]
                 w == CWith(n - 1, v, c, s)
      <3>3. CList(n - 1, v, l)
        <4>1. CList(n, q, C!Links)
          BY DEF CShape
        <4> QED
          BY <1>2, <3>1, <4>1, CDequeue
      <3>4. \A i \in 1..(n - 1) : v[i] = IF i < k THEN q[i] ELSE q[i + 1]
        BY <1>1, CWithoutAt
      <3> HIDE DEF l, v
      <3>5. c # 0 => scurr = v[c] /\ scurr # Null
        <4>1. c # 0 => c \in 1..(n - 1) /\ c < k /\ c \in 1..n
          BY <1>1, <1>3, <3>1
        <4> QED
          BY <1>1, <3>4, <4>1 DEF CShape
      <3>6. c # 0 => l.next[scurr] = x
        <4>1. c # 0 => c \in 1..(n - 1)
          BY <1>1, <3>1
        <4> QED
          BY <3>3, <3>5, <4>1 DEF CList
      <3>7. c = 0 => scurr = Null /\ l.head = x
        <4>1. c = 0 => c # n - 1 /\ c + 1 = 1
          BY <3>1
        <4> QED
          BY <3>1, <3>3, <4>1 DEF CList, CShape
      <3>8. C!Requeued(s) = C!enqueue(l, s, p, x)
        <4>1. C!Requeued(s) = IF scurr # Null THEN C!enqueue(l, s, scurr, l.next[scurr]) ELSE C!enqueue(l, s, Null, l.head)
          BY <3>2 DEF C!Requeued, l
        <4>2. CASE c = 0
          BY <3>7, <4>1, <4>2
        <4>3. CASE c # 0
          BY <3>5, <3>6, <4>1, <4>3
        <4> QED
          BY <4>2, <4>3
      <3>9. \A i \in 1..(n - 1) : v[i] # s
        <4>1. \A i \in 1..(n - 1) : i \in 1..n /\ i + 1 \in 1..n /\ (i < k => i # k) /\ (~ (i < k) => i + 1 # k)
          BY <1>1
        <4> QED
          BY <1>2, <1>5, <3>4, <4>1
      <3>10. CList((n - 1) + 1, w, C!Requeued(s)) /\ C!Requeued(s).ok
        <4> HIDE DEF w
        <4> QED
          BY <1>2, <3>1, <3>3, <3>8, <3>9, CEnqueue DEF w
      <3>11. (n - 1) + 1 = n
        BY <1>1
      <3>12. \A i \in 1..n : w[i] = IF i <= c THEN v[i] ELSE IF i = c + 1 THEN s ELSE v[i - 1]
        BY <3>1, <3>11, CWithAt
      <3> HIDE DEF w
      <3>13. C!Requeued(s).ok = TRUE
        BY <3>8, <3>10 DEF C!enqueue
      <3>14. w[c + 1] = s
        <4>1. ~ (c + 1 <= c)
          BY <1>1
        <4> QED
          BY <1>3, <3>12, <4>1
      <3>15. \A i \in 1..c : w[i] = q[i]
        <4>1. \A i \in 1..c : i \in 1..n /\ i \in 1..(n - 1) /\ i <= c /\ i < k
          BY <1>1, <1>3, <3>1
        <4> QED
          BY <3>4, <3>12, <4>1
      <3>16. ASSUME NEW i \in 1..n, i > c + 1 PROVE \E j \in 1..n : j > c /\ j # k /\ w[i] = q[j]
        <4>1. ~ (i <= c) /\ i # c + 1 /\ i - 1 \in 1..(n - 1) /\ (i - 1) + 1 = i
          BY <1>1, <3>16
        <4>2. w[i] = IF i - 1 < k THEN q[i - 1] ELSE q[i]
          BY <3>4, <3>12, <4>1
        <4>3. CASE i - 1 < k
          <5>1. i - 1 \in 1..n /\ i - 1 > c /\ i - 1 # k
            BY <1>1, <3>16, <4>3
          <5> QED
            BY <4>2, <4>3, <5>1
        <4>4. CASE ~ (i - 1 < k)
          <5>1. i > c /\ i # k
            BY <1>1, <3>16, <4>4
          <5> QED
            BY <4>2, <4>4, <5>1
        <4> QED
          BY <4>3, <4>4
      <3>17. ASSUME NEW j \in 1..n PROVE \E i \in 1..n : w[i] = q[j]
        <4>1. CASE j <= c
          <5>1. j \in 1..c
            BY <1>1, <4>1
          <5> QED
            BY <3>15, <5>1
        <4>2. CASE j = k
          BY <1>2, <1>3, <3>14, <4>2
        <4>3. CASE j > c /\ j < k
          <5>1. j + 1 \in 1..n /\ ~ (j + 1 <= c) /\ j + 1 # c + 1 /\ (j + 1) - 1 = j /\ j \in 1..(n - 1)
            BY <1>1, <4>3
          <5> QED
            BY <3>4, <3>12, <4>3, <5>1
        <4>4. CASE j > k
          <5>1. ~ (j <= c) /\ j # c + 1 /\ j - 1 \in 1..(n - 1) /\ ~ (j - 1 < k) /\ (j - 1) + 1 = j
            BY <1>1, <1>3, <4>4
          <5> QED
            BY <3>4, <3>12, <5>1
        <4> QED
          BY <1>1, <4>1, <4>2, <4>3, <4>4
      <3> QED
        BY <3>10, <3>11, <3>13, <3>14, <3>15, <3>16, <3>17
    <2> QED
      BY <2>1, <2>2
  <1>9. PICK w : /\ CList(n, w, C!Requeued(s)) /\ C!Requeued(s).ok = TRUE
                 /\ w[c + 1] = s
                 /\ \A i \in 1..c : w[i] = q[i]
                 /\ \A i \in 1..n : i > c + 1 => \E j \in 1..n : j > c /\ j # k /\ w[i] = q[j]
                 /\ \A j \in 1..n : \E i \in 1..n : w[i] = q[j]
    BY <1>8
  <1>10. CList(n, w, C!Links)' /\ sok' = TRUE
    BY <1>4, <1>7, <1>9, CSet DEF CShape
  <1>11. ASSUME NEW i \in 1..n
         PROVE  /\ w[i] \in slabs' /\ (C!full(slive'[w[i]]) <=> i > c + 1)
                /\ slive'[w[i]] = {} => i = 1
    <2>1. CASE i <= c
      <3>1. i \in 1..c /\ i # k /\ ~ (i > c) /\ ~ (i > c + 1)
        BY <1>1, <1>3, <2>1
      <3>2. w[i] = q[i] /\ q[i] \in slabs /\ slive'[q[i]] = slive[q[i]]
        BY <1>6, <1>9, <3>1 DEF CShape
      <3>3. ~ C!full(slive[q[i]]) /\ (slive[q[i]] = {} => i = 1)
        BY <3>1 DEF CShape
      <3> QED
        BY <1>4, <3>1, <3>2, <3>3
    <2>2. CASE i = c + 1
      <3>1. ~ (i > c + 1) /\ w[i] = s
        BY <1>1, <1>9, <2>2
      <3>2. ~ C!full(slive'[s]) /\ slive'[s] # {}
        BY <1>3, <1>6, CFull, Zenon
      <3> QED
        BY <1>4, <3>1, <3>2
    <2>3. CASE i > c + 1
      <3>1. PICK j \in 1..n : j > c /\ j # k /\ w[i] = q[j]
        BY <1>9, <2>3
      <3>2. q[j] \in slabs /\ slive'[q[j]] = slive[q[j]] /\ C!full(slive[q[j]])
        BY <1>6, <3>1 DEF CShape
      <3>3. slive[q[j]] # {}
        BY <3>2, CFull, Zenon
      <3> QED
        BY <1>4, <2>3, <3>1, <3>2, <3>3
    <2> QED
      BY <1>1, <2>1, <2>2, <2>3
  <1>12. \A y \in slabs' : \E i \in 1..n : w[i] = y
    BY <1>4, <1>9 DEF CShape
  <1>13. c + 1 \in 0..n /\ c + 1 # 0 /\ slabs' \subseteq C!Slabs
    BY <1>1, <1>3, <1>4 DEF CShape
  <1>14. CShape(n, w, c + 1)'
    BY <1>4, <1>6, <1>9, <1>10, <1>11, <1>12, <1>13 DEF CShape
  <1> QED
    BY <1>14, CShapeInv

\* free() that leaves the slab where it is.
LEMMA CFreeOther ==
    ASSUME C!SlabAssumption, NEW n, NEW q, NEW c, CShape(n, q, c),
           NEW s \in slabs, NEW e \in slive[s], C!free_other(s, e)
    PROVE  CInv'
  <1>1. n \in Nat /\ c \in 0..n /\ \A i \in 1..n : q[i] \in C!Slabs
    BY DEF CShape, CList
  <1>2. PICK k \in 1..n : q[k] = s /\ s \in C!Slabs /\ (sprev[s] = Null <=> k = 1)
    BY CAt
  <1>3. /\ ~ C!full(slive[s]) /\ (slive[s] = {e} => sprev[s] = Null)
        /\ slive' = [slive EXCEPT ![s] = slive[s] \ {e}]
        /\ sok' = (sok /\ (slive[s] = {e} => s = shead))
        /\ slabs' = slabs /\ scurr' = scurr /\ C!Set(C!Links)
    BY DEF C!free_other, C!Set, C!Links, C!links
  <1>4. /\ slive' \in [C!Slabs -> SUBSET (1..Elem)] /\ slive'[s] = slive[s] \ {e}
        /\ \A i \in 1..n : i # k => slive'[q[i]] = slive[q[i]]
    <2>1. \A i \in 1..n : i # k => q[i] # s
      BY <1>2 DEF CShape, CList
    <2> QED
      BY <1>1, <1>2, <1>3, <2>1 DEF CShape
  <1>5. CList(n, q, C!Links)'
    <2>1. CList(n, q, C!Links)
      BY DEF CShape
    <2> QED
      BY <1>3, <2>1, CSet
  <1>6. sok' = TRUE
    <2>1. k = 1 => s = shead
      BY <1>2 DEF CShape, CList, C!Links
    <2> QED
      BY <1>2, <1>3, <2>1 DEF CShape
  <1>7. ASSUME NEW i \in 1..n
        PROVE  (C!full(slive'[q[i]]) <=> i > c) /\ (slive'[q[i]] = {} => i = 1)
    <2>1. (C!full(slive[q[i]]) <=> i > c) /\ (slive[q[i]] = {} => i = 1)
      BY DEF CShape
    <2>2. CASE i = k
      <3>1. ~ C!full(slive[s] \ {e})
        <4>1. e \in 1..Elem
          BY <1>2 DEF CShape
        <4> QED
          BY <4>1, Zenon DEF C!full
      <3>2. slive[s] \ {e} = {} => slive[s] = {e}
        OBVIOUS
      <3> QED
        BY <1>2, <1>3, <1>4, <2>1, <2>2, <3>1, <3>2
    <2>3. CASE i # k
      BY <1>4, <2>1, <2>3
    <2> QED
      BY <2>2, <2>3
  <1>8. CShape(n, q, c)'
    BY <1>3, <1>4, <1>5, <1>6, <1>7 DEF CShape
  <1> QED
    BY <1>8, CShapeInv

\* free() that makes a slab empty: it becomes the head, or is given back if there is an empty one.
LEMMA CFreeLast ==
    ASSUME C!SlabAssumption, NEW n, NEW q, NEW c, CShape(n, q, c),
           NEW s \in slabs, NEW e \in slive[s], C!free_last(s, e)
    PROVE  CInv'
  <1> DEFINE l == C!dequeue(C!Links, s)
             m == C!enqueue(l, s, Null, l.head)
             extra == C!empty(slive[sprev[s]]) \/ C!empty(slive[shead])
  <1>1. n \in Nat /\ c \in 0..n /\ Null \notin C!Slabs /\ \A i \in 1..n : q[i] \in C!Slabs
    BY DEF CShape, CList, C!SlabAssumption
  <1>2. /\ ~ C!full(slive[s]) /\ slive[s] = {e} /\ sprev[s] # Null
        /\ slive' = [slive EXCEPT ![s] = {}] /\ scurr' = IF s = scurr THEN sprev[s] ELSE scurr
        /\ sok' = (sok /\ (extra => shead # s) /\ (~ extra => m.ok))
        /\ extra => C!Set(l) /\ slabs' = slabs \ {s}
        /\ ~ extra => C!Set(m) /\ slabs' = slabs
    BY DEF C!free_last
  <1>3. PICK k \in 1..n : /\ q[k] = s /\ s \in C!Slabs
                          /\ sprev[s] = IF k = 1 THEN Null ELSE q[k - 1]
                          /\ sprev[s] = Null <=> k = 1
    BY CAt
  <1>4. k \in 2..n /\ k # 1 /\ k <= c /\ c - 1 \in 1..(n - 1) /\ n - 1 \in Nat /\ n - 1 # 0 /\ c \in 2..n /\ 1 \in 1..n
    <2>1. ~ (k > c)
      BY <1>2, <1>3 DEF CShape
    <2> QED
      BY <1>1, <1>2, <1>3, <2>1
  <1>5. \A i, j \in 1..n : q[i] = q[j] => i = j
    BY DEF CShape, CList
  <1>6. /\ slive' \in [C!Slabs -> SUBSET (1..Elem)] /\ slive'[s] = {}
        /\ \A i \in 1..n : i # k => slive'[q[i]] = slive[q[i]]
    <2>1. \A i \in 1..n : i # k => q[i] # s
      BY <1>3, <1>5
    <2> QED
      BY <1>1, <1>2, <1>3, <2>1 DEF CShape
  <1>7. shead = q[1] /\ shead # s
    <2>1. n # 0
      BY <1>1
    <2>2. shead = q[1]
      BY <2>1 DEF CShape, CList, C!Links
    <2> QED
      BY <1>3, <1>4, <1>5, <2>2
  <1>8. CList(n - 1, CWithout(n, q, k), l)
    <2>1. CList(n, q, C!Links)
      BY DEF CShape
    <2> QED
      BY <1>3, <1>4, <2>1, CDequeue
  <1>9. \A i \in 1..(n - 1) : CWithout(n, q, k)[i] = IF i < k THEN q[i] ELSE q[i + 1]
    BY <1>1, CWithoutAt
  <1>10. PICK v : /\ CList(n - 1, v, l)
                  /\ \A i \in 1..(n - 1) : v[i] = IF i < k THEN q[i] ELSE q[i + 1]
    BY <1>8, <1>9
  <1>11. \A i \in 1..(n - 1) : \E j \in 1..n : /\ v[i] = q[j] /\ j # k
                                                /\ (j > c <=> i > c - 1) /\ (j = 1 <=> i = 1)
    <2> SUFFICES ASSUME NEW i \in 1..(n - 1)
                 PROVE  \E j \in 1..n : v[i] = q[j] /\ j # k /\ (j > c <=> i > c - 1) /\ (j = 1 <=> i = 1)
      OBVIOUS
    <2>1. CASE i < k
      <3>1. i \in 1..n /\ i # k /\ (i > c <=> i > c - 1)
        BY <1>1, <1>4, <2>1
      <3> QED
        BY <1>10, <2>1, <3>1
    <2>2. CASE ~ (i < k)
      <3>1. i + 1 \in 1..n /\ i + 1 # k /\ (i + 1 > c <=> i > c - 1) /\ i + 1 # 1 /\ i # 1
        BY <1>1, <1>4, <2>2
      <3> QED
        BY <1>10, <2>2, <3>1
    <2> QED
      BY <2>1, <2>2
  <1>12. \A j \in 1..n : j # k => \E i \in 1..(n - 1) : v[i] = q[j]
    <2> SUFFICES ASSUME NEW j \in 1..n, j # k PROVE \E i \in 1..(n - 1) : v[i] = q[j]
      OBVIOUS
    <2>1. CASE j < k
      <3>1. j \in 1..(n - 1)
        BY <1>1, <1>4, <2>1
      <3> QED
        BY <1>10, <2>1, <3>1
    <2>2. CASE ~ (j < k)
      <3>1. j - 1 \in 1..(n - 1) /\ ~ (j - 1 < k) /\ (j - 1) + 1 = j
        BY <1>1, <1>4, <2>2
      <3> QED
        BY <1>10, <3>1
    <2> QED
      BY <2>1, <2>2
  <1>13. scurr' = v[c - 1]
    <2>1. c # 0 /\ c \in 1..n
      BY <1>4
    <2>2. scurr = q[c]
      BY <2>1 DEF CShape
    <2>3. CASE k = c
      <3>1. scurr' = q[c - 1]
        BY <1>2, <1>3, <1>4, <2>2, <2>3
      <3>2. c - 1 < k
        BY <1>1, <2>3
      <3> QED
        BY <1>4, <1>10, <3>1, <3>2
    <2>4. CASE k # c
      <3>1. scurr' = q[c]
        BY <1>2, <1>3, <1>5, <2>1, <2>2, <2>4
      <3>2. ~ (c - 1 < k) /\ (c - 1) + 1 = c
        BY <1>1, <1>4, <2>4
      <3> QED
        BY <1>4, <1>10, <3>1, <3>2
    <2> QED
      BY <2>3, <2>4
  <1>14. ASSUME NEW i \in 1..(n - 1)
         PROVE  /\ v[i] \in slabs /\ v[i] # s /\ (C!full(slive'[v[i]]) <=> i > c - 1)
                /\ slive'[v[i]] = {} => i = 1
                /\ slive'[v[i]] = {} => C!empty(slive[shead])
    <2>1. PICK j \in 1..n : v[i] = q[j] /\ j # k /\ (j > c <=> i > c - 1) /\ (j = 1 <=> i = 1)
      BY <1>11
    <2>2. q[j] \in slabs /\ slive'[q[j]] = slive[q[j]] /\ (C!full(slive[q[j]]) <=> j > c) /\ (slive[q[j]] = {} => j = 1)
      BY <1>6, <2>1 DEF CShape
    <2>3. q[j] # s
      BY <1>3, <1>5, <2>1
    <2>4. slive[q[j]] = {} => C!empty(slive[shead])
      BY <1>7, <2>2 DEF C!empty
    <2> QED
      BY <2>1, <2>2, <2>3, <2>4
  <1> HIDE DEF l
  <1>15. CASE extra
    <2>1. CList(n - 1, v, C!Links)' /\ slabs' = slabs \ {s}
      BY <1>2, <1>10, <1>15, CSet
    <2>2. sok' = TRUE
      <3> HIDE DEF m, extra
      <3> QED
        BY <1>2, <1>7, <1>15, Zenon DEF CShape
    <2>3. c - 1 \in 0..(n - 1) /\ c - 1 # 0 /\ slabs' \subseteq C!Slabs
      BY <1>4, <2>1 DEF CShape
    <2>4. \A y \in slabs' : \E i \in 1..(n - 1) : v[i] = y
      <3> SUFFICES ASSUME NEW y \in slabs' PROVE \E i \in 1..(n - 1) : v[i] = y
        OBVIOUS
      <3>1. PICK j \in 1..n : q[j] = y
        BY <2>1 DEF CShape
      <3>2. j # k
        BY <1>3, <2>1, <3>1
      <3> QED
        BY <1>12, <3>1, <3>2
    <2>5. \A i \in 1..(n - 1) : v[i] \in slabs'
      BY <1>14, <2>1
    <2>6. CShape(n - 1, v, c - 1)'
      BY <1>6, <1>13, <1>14, <2>1, <2>2, <2>3, <2>4, <2>5 DEF CShape
    <2> QED
      BY <2>6, CShapeInv
  <1>16. CASE ~ extra
    <2>1. l.head = IF 0 = n - 1 THEN Null ELSE v[1]
      BY <1>10 DEF CList
    <2>2. CList((n - 1) + 1, CWith(n - 1, v, 0, s), m) /\ m.ok
      <3>1. 0 \in 0..(n - 1) /\ 0 + 1 = 1
        BY <1>4
      <3>2. \A i \in 1..(n - 1) : v[i] # s
        BY <1>14
      <3>3. C!enqueue(l, s, IF 0 = 0 THEN Null ELSE v[0], IF 0 = n - 1 THEN Null ELSE v[0 + 1]) = m
        BY <2>1, <3>1
      <3> HIDE DEF m
      <3>4. LET e1 == C!enqueue(l, s, IF 0 = 0 THEN Null ELSE v[0], IF 0 = n - 1 THEN Null ELSE v[0 + 1])
            IN  CList((n - 1) + 1, CWith(n - 1, v, 0, s), e1) /\ e1.ok
        BY <1>3, <1>10, <3>1, <3>2, CEnqueue, Zenon
      <3> QED
        BY <3>3, <3>4
    <2>3. (n - 1) + 1 = n
      BY <1>1
    <2>4. PICK w : CList(n, w, m) /\ \A i \in 1..n : w[i] = IF i = 1 THEN s ELSE v[i - 1]
      <3>1. \A i \in 1..n : ~ (i <= 0)
        BY <1>1
      <3>2. \A i \in 1..n : CWith(n - 1, v, 0, s)[i] = IF i <= 0 THEN v[i] ELSE IF i = 0 + 1 THEN s ELSE v[i - 1]
        <4>1. 0 \in 0..(n - 1)
          BY <1>4
        <4>2. \A i \in 1..((n - 1) + 1) :
                CWith(n - 1, v, 0, s)[i] = IF i <= 0 THEN v[i] ELSE IF i = 0 + 1 THEN s ELSE v[i - 1]
          BY <1>4 DEF CWith
        <4> QED
          BY <2>3, <4>2
      <3>3. 0 + 1 = 1
        OBVIOUS
      <3> QED
        BY <2>2, <2>3, <3>1, <3>2, <3>3
    <2>5. m.ok = TRUE
      BY <2>2 DEF C!enqueue
    <2> HIDE DEF m
    <2>6. CList(n, w, C!Links)' /\ slabs' = slabs
      BY <1>2, <1>16, <2>4, CSet
    <2>7. sok' = TRUE
      <3> HIDE DEF extra
      <3> QED
        BY <1>2, <1>16, <2>5, Zenon DEF CShape
    <2>8. scurr' = w[c]
      <3>1. c \in 1..n /\ c # 1
        BY <1>4
      <3> QED
        BY <1>13, <2>4, <3>1
    <2>9. c # 0 /\ slabs' \subseteq C!Slabs
      BY <1>4, <2>6 DEF CShape
    <2>10. ASSUME NEW i \in 1..n
           PROVE  w[i] \in slabs' /\ (C!full(slive'[w[i]]) <=> i > c) /\ (slive'[w[i]] = {} => i = 1)
      <3>1. CASE i = 1
        <4>1. ~ (1 > c)
          BY <1>4
        <4>2. ~ C!full(slive'[s])
          BY <1>6, CFull
        <4> QED
          BY <2>4, <2>6, <3>1, <4>1, <4>2
      <3>2. CASE i # 1
        <4>1. i - 1 \in 1..(n - 1) /\ (i - 1 > c - 1 <=> i > c)
          BY <1>1, <3>2
        <4>2. slive'[v[i - 1]] # {}
          BY <1>14, <1>16, <4>1
        <4> QED
          BY <1>14, <2>4, <2>6, <3>2, <4>1, <4>2
      <3> QED
        BY <3>1, <3>2
    <2>11. ASSUME NEW y \in slabs' PROVE \E i \in 1..n : w[i] = y
      <3>1. PICK j \in 1..n : q[j] = y
        BY <2>6 DEF CShape
      <3>2. CASE j = k
        BY <1>3, <1>4, <2>4, <3>1, <3>2
      <3>3. CASE j # k
        <4>1. PICK i \in 1..(n - 1) : v[i] = y
          BY <1>12, <3>1, <3>3
        <4>2. i + 1 \in 1..n /\ i + 1 # 1 /\ (i + 1) - 1 = i
          BY <1>1
        <4> QED
          BY <2>4, <4>1, <4>2
      <3> QED
        BY <3>2, <3>3
    <2>12. CShape(n, w, c)'
      BY <1>1, <1>6, <2>6, <2>7, <2>8, <2>9, <2>10, <2>11 DEF CShape
    <2> QED
      BY <2>12, CShapeInv
  <1> QED
    BY <1>15, <1>16

LEMMA CStep ==
    ASSUME C!SlabAssumption, CInv, [C!Next]_(C!vars)
    PROVE  CInv'
  <1>1. PICK n \in Nat : \E q \in [1..n -> C!Slabs] : \E c \in 0..n : CShape(n, q, c)
    BY DEF CInv
  <1>2. PICK q \in [1..n -> C!Slabs] : \E c \in 0..n : CShape(n, q, c)
    BY <1>1
  <1>3. PICK c \in 0..n : CShape(n, q, c)
    BY <1>2
  <1>4. CASE C!alloc
    BY <1>3, <1>4, CAlloc
  <1>5. ASSUME NEW s \in slabs, NEW e \in slive[s], C!free_full(s, e) PROVE CInv'
    BY <1>3, <1>5, CFreeFull
  <1>6. ASSUME NEW s \in slabs, NEW e \in slive[s], C!free_last(s, e) PROVE CInv'
    BY <1>3, <1>6, CFreeLast
  <1>7. ASSUME NEW s \in slabs, NEW e \in slive[s], C!free_other(s, e) PROVE CInv'
    BY <1>3, <1>7, CFreeOther
  <1>8. CASE UNCHANGED C!vars
    <2>1. CShape(n, q, c)'
      BY <1>3, <1>8 DEF CShape, C!vars, C!links, CList, C!Links
    <2> QED
      BY <2>1, CShapeInv
  <1> QED
    BY <1>4, <1>5, <1>6, <1>7, <1>8 DEF C!Next

LEMMA CInit ==
    ASSUME C!SlabAssumption, C!Init
    PROVE  CInv
  <1> DEFINE q == [i \in 1..0 |-> 1]
  <1>1. 1..0 = {} /\ 0 \in Nat /\ 0 \in 0..0 /\ q \in [1..0 -> C!Slabs]
    OBVIOUS
  <1>2. CList(0, q, C!Links)
    BY <1>1 DEF C!Init, CList, C!Links
  <1>3. CShape(0, q, 0)
    <2>1. slive \in [C!Slabs -> SUBSET (1..Elem)] /\ slabs = {}
      BY DEF C!Init
    <2> QED
      BY <1>1, <1>2, <2>1 DEF C!Init, CShape
  <1> HIDE DEF q
  <1> QED
    BY <1>1, <1>3 DEF CInv

\* The walk over the list visits its slabs in order, and there are not more than pages.
LEMMA CWalk ==
    ASSUME C!SlabAssumption, NEW n, NEW q, NEW c, CShape(n, q, c)
    PROVE  /\ n <= NumSlabs /\ DOMAIN C!Walk = 0..NumSlabs
           /\ \A i \in 0..NumSlabs : C!Walk[i] = IF i < n THEN q[i + 1] ELSE Null
  <1> DEFINE From(f) == [i \in 0..NumSlabs |-> IF i = 0 THEN shead
                                               ELSE IF f[i - 1] = Null THEN Null ELSE snext[f[i - 1]]]
             g == [i \in 0..NumSlabs |-> IF i < n THEN q[i + 1] ELSE Null]
  <1>1. n \in Nat /\ NumSlabs \in Nat /\ Null \notin C!Slabs /\ \A i \in 1..n : q[i] \in C!Slabs
    BY DEF CShape, CList, C!SlabAssumption
  <1>2. n <= NumSlabs
    <2>1. q \in Injection(1..n, 1..NumSlabs)
      <3>1. q \in [1..n -> 1..NumSlabs] /\ \A i, j \in 1..n : q[i] = q[j] => i = j
        BY DEF CShape, CList, C!Slabs
      <3> QED
        BY <3>1 DEF Injection, IsInjective
    <2>2. IsFiniteSet(1..NumSlabs) /\ Cardinality(1..NumSlabs) = NumSlabs /\ Cardinality(1..n) = n
      <3>1. \A m \in Nat : IsFiniteSet(1..m) /\ Cardinality(1..m) = IF 1 > m THEN 0 ELSE m - 1 + 1
        BY FS_Interval
      <3>2. \A m \in Nat : (IF 1 > m THEN 0 ELSE m - 1 + 1) = m
        OBVIOUS
      <3> QED
        BY <1>1, <3>1, <3>2
    <2>3. Cardinality(1..n) <= Cardinality(1..NumSlabs)
      BY <2>1, <2>2, FS_Injection
    <2> QED
      BY <2>2, <2>3
  <1>3. \A i \in 0..NumSlabs : (i < n => i + 1 \in 1..n) /\ (i # 0 => i - 1 \in 0..NumSlabs)
    BY <1>1
  <1>4. shead = (IF n = 0 THEN Null ELSE q[1]) /\ \A i \in 1..n : snext[q[i]] = IF i = n THEN Null ELSE q[i + 1]
    BY DEF CShape, CList, C!Links
  <1>5. g = From(g)
    <2> SUFFICES ASSUME NEW i \in 0..NumSlabs PROVE g[i] = From(g)[i]
      OBVIOUS
    <2>1. CASE i = 0
      BY <1>1, <1>4, <2>1
    <2>2. CASE i # 0
      <3>1. i - 1 \in 0..NumSlabs /\ (i - 1) + 1 = i /\ (i - 1 < n <=> i \in 1..n) /\ (i = n => ~ (i < n))
            /\ (i \in 1..n /\ i # n => i < n) /\ (i \notin 1..n => ~ (i < n))
        BY <1>1, <2>2
      <3>2. g[i - 1] = IF i \in 1..n THEN q[i] ELSE Null
        BY <3>1
      <3>3. From(g)[i] = IF g[i - 1] = Null THEN Null ELSE snext[g[i - 1]]
        BY <2>2
      <3>4. g[i] = IF i < n THEN q[i + 1] ELSE Null
        OBVIOUS
      <3> HIDE DEF g, From
      <3> QED
        BY <1>1, <1>4, <3>1, <3>2, <3>3, <3>4
    <2> QED
      BY <2>1, <2>2
  <1>6. C!Walk = CHOOSE f : f = From(f)
    BY DEF C!Walk
  <1>7. C!Walk = From(C!Walk)
    <2> HIDE DEF g, From
    <2> QED
      BY <1>5, <1>6
  <1>8. DOMAIN C!Walk = 0..NumSlabs
    BY <1>7
  <1>9. /\ C!Walk[0] = g[0]
        /\ \A i \in 0..NumSlabs : i # 0 /\ C!Walk[i - 1] = g[i - 1] => C!Walk[i] = g[i]
    <2>1. \A f : /\ From(f)[0] = shead
                 /\ \A i \in 0..NumSlabs : i # 0 => From(f)[i] = IF f[i - 1] = Null THEN Null ELSE snext[f[i - 1]]
      BY <1>1
    <2> HIDE DEF g, From
    <2> QED
      BY <1>5, <1>7, <2>1
  <1>10. \A i \in 0..NumSlabs : C!Walk[i] = g[i]
    <2> HIDE DEF g, From
    <2> DEFINE Wrong == {i \in 0..NumSlabs : C!Walk[i] # g[i]}
    <2> SUFFICES ASSUME Wrong # {} PROVE FALSE
      OBVIOUS
    <2>1. Wrong \subseteq Nat
      OBVIOUS
    <2>2. PICK i \in Wrong : \A j \in Wrong : i <= j
      BY <2>1, Smallest
    <2>3. i \in 0..NumSlabs /\ i # 0
      BY <1>9, <2>2
    <2>4. i - 1 \in 0..NumSlabs /\ ~ (i <= i - 1)
      BY <1>1, <2>3
    <2>5. C!Walk[i - 1] = g[i - 1]
      BY <2>2, <2>4
    <2> QED
      BY <1>9, <2>2, <2>3, <2>5
  <1> QED
    BY <1>2, <1>8, <1>10

LEMMA CExact ==
    ASSUME C!SlabAssumption, CInv
    PROVE  C!SlabListExact
  <1>1. PICK n \in Nat : \E q \in [1..n -> C!Slabs] : \E c \in 0..n : CShape(n, q, c)
    BY DEF CInv
  <1>2. PICK q \in [1..n -> C!Slabs] : \E c \in 0..n : CShape(n, q, c)
    BY <1>1
  <1>3. PICK c \in 0..n : CShape(n, q, c)
    BY <1>2
  <1>4. NumSlabs \in Nat /\ Null \notin C!Slabs /\ \A i \in 1..n : q[i] \in C!Slabs /\ q[i] # Null
    BY <1>3 DEF CShape, CList, C!SlabAssumption
  <1>5. /\ n <= NumSlabs /\ DOMAIN C!Walk = 0..NumSlabs
        /\ \A i \in 0..NumSlabs : C!Walk[i] = IF i < n THEN q[i + 1] ELSE Null
    BY <1>3, CWalk
  <1>6. \A i \in 0..NumSlabs : /\ C!Walk[i] # Null => i < n
                               /\ i < n => C!Walk[i] = q[i + 1] /\ i + 1 \in 1..n /\ C!Walk[i] # Null
    <2>1. \A i \in 0..NumSlabs : i < n => i + 1 \in 1..n
      BY <1>4
    <2> QED
      BY <1>4, <1>5, <2>1
  <1>7. \A i \in 1..n : i - 1 \in 0..NumSlabs /\ i - 1 < n /\ C!Walk[i - 1] = q[i]
    <2>1. \A i \in 1..n : i - 1 \in 0..NumSlabs /\ i - 1 < n /\ (i - 1) + 1 = i
      BY <1>4, <1>5
    <2> QED
      BY <1>6, <2>1
  <1>8. {C!Walk[i] : i \in DOMAIN C!Walk} \ {Null} = slabs
    <2>1. \A i \in 0..NumSlabs : C!Walk[i] # Null => C!Walk[i] \in slabs
      BY <1>3, <1>6 DEF CShape
    <2>2. \A s \in slabs : s # Null /\ \E i \in 0..NumSlabs : C!Walk[i] = s
      <3> SUFFICES ASSUME NEW s \in slabs PROVE s # Null /\ \E i \in 0..NumSlabs : C!Walk[i] = s
        OBVIOUS
      <3>1. PICK i \in 1..n : q[i] = s
        BY <1>3 DEF CShape
      <3> QED
        BY <1>4, <1>7, <3>1
    <2> QED
      BY <1>5, <2>1, <2>2
  <1>9. ASSUME NEW i \in 0..NumSlabs, NEW j \in 0..NumSlabs, C!Walk[i] = C!Walk[j], C!Walk[j] # Null PROVE i = j
    <2>1. q[i + 1] = q[j + 1] /\ i + 1 \in 1..n /\ j + 1 \in 1..n
      BY <1>6, <1>9
    <2>2. i + 1 = j + 1
      BY <1>3, <2>1 DEF CShape, CList
    <2> QED
      BY <1>4, <2>2
  <1>10. ASSUME NEW i \in 0..NumSlabs, C!Walk[i] # Null
         PROVE  sprev[C!Walk[i]] = IF i = 0 THEN Null ELSE C!Walk[i - 1]
    <2>1. C!Walk[i] = q[i + 1] /\ i + 1 \in 1..n
      BY <1>6, <1>10
    <2>2. sprev[q[i + 1]] = IF i + 1 = 1 THEN Null ELSE q[(i + 1) - 1]
      BY <1>3, <2>1 DEF CShape, CList, C!Links
    <2>3. (i + 1 = 1 <=> i = 0) /\ (i + 1) - 1 = i /\ (i # 0 => i \in 1..n)
      BY <1>4, <2>1
    <2> QED
      BY <1>7, <2>1, <2>2, <2>3
  <1>11. ASSUME NEW s \in slabs, ~ C!full(slive[s]) PROVE scurr # Null
    <2>1. PICK i \in 1..n : q[i] = s
      BY <1>3 DEF CShape
    <2>2. ~ (i > c)
      BY <1>3, <1>11, <2>1 DEF CShape
    <2>3. c # 0 /\ c \in 1..n
      BY <2>1, <2>2
    <2> QED
      BY <1>3, <1>4, <2>3 DEF CShape
  <1>12. ASSUME NEW i \in 0..NumSlabs, C!Walk[i] # Null, scurr # Null
         PROVE  C!full(slive[C!Walk[i]]) <=> \E j \in 0..(i - 1) : C!Walk[j] = scurr
    <2>1. C!Walk[i] = q[i + 1] /\ i + 1 \in 1..n
      BY <1>6, <1>12
    <2>2. c \in 1..n /\ scurr = q[c]
      <3>1. c # 0
        BY <1>3, <1>12 DEF CShape
      <3> QED
        BY <1>3, <3>1 DEF CShape
    <2>3. C!full(slive[C!Walk[i]]) <=> i + 1 > c
      BY <1>3, <2>1 DEF CShape
    <2>4. c - 1 \in 0..NumSlabs /\ C!Walk[c - 1] = scurr
      BY <1>7, <2>2
    <2>5. \A j \in 0..(i - 1) : j \in 0..NumSlabs
      BY <1>4
    <2>6. \A j \in 0..(i - 1) : C!Walk[j] = scurr => j = c - 1
      BY <1>9, <1>12, <2>4, <2>5
    <2>7. i + 1 > c <=> c - 1 \in 0..(i - 1)
      BY <2>2
    <2> QED
      BY <2>3, <2>4, <2>6, <2>7
  <1>13. ASSUME NEW s \in slabs, C!empty(slive[s]) PROVE s = shead
    <2>1. PICK i \in 1..n : q[i] = s
      BY <1>3 DEF CShape
    <2>2. i = 1
      BY <1>3, <1>13, <2>1 DEF CShape, C!empty
    <2>3. n # 0
      BY <2>1
    <2> QED
      BY <1>3, <2>1, <2>2, <2>3 DEF CShape, CList, C!Links
  <1>14. sok
    BY <1>3 DEF CShape
  <1> QED
    BY <1>5, <1>8, <1>9, <1>10, <1>11, <1>12, <1>13, <1>14, Zenon DEF C!SlabListExact

\* Slab_cache keeps each of its slabs in its list once, linked both ways, with curr at the
\* last one that has room and only full ones behind it; at most one slab is empty, the head,
\* and no assertion of slab.cpp fails; whatever objects are allocated and freed
\* (Slab_cache::alloc, Slab_cache::free, Slab::enqueue, Slab::dequeue).
THEOREM SlabsAreExact == ASSUME C!SlabAssumption PROVE C!Spec => []SlabListExact
  <1>1. C!Init => CInv
    BY CInit
  <1>2. CInv /\ [C!Next]_(C!vars) => CInv'
    BY CStep
  <1>3. CInv => SlabListExact
    BY CExact DEF SlabListExact
  <1> QED
    BY <1>1, <1>2, <1>3, PTL DEF C!Spec

-----------------------------------------------------------------------------
(* The memory types (Mtrr).                                                *)

\* Powers of two, up to the number of bits of a page number.
LEMMA TPowers ==
    ASSUME T!MtrrAssumption
    PROVE  \A o \in 0..(AddrBits + 1) : 2^o \in Nat \ {0}
  <1> DEFINE Wrong == {o \in 0..(AddrBits + 1) : 2^o \notin Nat \ {0}}
  <1> SUFFICES ASSUME Wrong # {} PROVE FALSE
    OBVIOUS
  <1>1. AddrBits \in Nat /\ 2^0 = 1 /\ \A o \in 0..AddrBits : 2^(o + 1) = 2 * 2^o
    BY DEF T!MtrrAssumption
  <1>2. PICK n \in Wrong : \A m \in Wrong : n <= m
    BY <1>1, Smallest, Wrong \subseteq Nat
  <1>3. n \in 0..(AddrBits + 1) /\ n # 0
    <2>1. 2^0 \in Nat \ {0}
      BY <1>1
    <2>2. 0 \notin Wrong
      BY <2>1
    <2> QED
      BY <2>2
  <1>4. n - 1 \in 0..AddrBits /\ n - 1 \in 0..(AddrBits + 1) /\ ~ (n <= n - 1) /\ (n - 1) + 1 = n
    BY <1>1, <1>3
  <1>5. 2^(n - 1) \in Nat \ {0}
    BY <1>2, <1>4
  <1>6. 2^n = 2 * 2^(n - 1)
    BY <1>1, <1>4
  <1>7. 2^n \in Nat \ {0}
    BY <1>5, <1>6
  <1> QED
    BY <1>7

\* A power is at most as large as that of a larger exponent.
LEMMA TMonotone ==
    ASSUME T!MtrrAssumption, NEW a \in 0..AddrBits
    PROVE  \A b \in 0..a : 2^b <= 2^a
  <1> DEFINE Wrong == {d \in 0..a : ~ (2^(a - d) <= 2^a)}
  <1>1. AddrBits \in Nat /\ \A o \in 0..AddrBits : 2^(o + 1) = 2 * 2^o
    BY DEF T!MtrrAssumption
  <1>2. \A o \in 0..a : 2^o \in Nat \ {0}
    BY <1>1, TPowers
  <1>3. Wrong = {}
    <2> SUFFICES ASSUME Wrong # {} PROVE FALSE
      OBVIOUS
    <2>1. PICK d \in Wrong : \A e \in Wrong : d <= e
      BY <1>1, Smallest, Wrong \subseteq Nat
    <2>2. 0 \notin Wrong
      BY <1>1, <1>2, a - 0 = a, 2^a <= 2^a
    <2>3. d \in 0..a /\ d # 0
      BY <2>2
    <2>4. d - 1 \in 0..a /\ ~ (d <= d - 1) /\ a - d \in 0..AddrBits /\ (a - d) + 1 = a - (d - 1) /\ a - d \in 0..a
          /\ a - (d - 1) \in 0..a
      BY <1>1, <2>3
    <2>5. 2^(a - (d - 1)) <= 2^a
      BY <2>1, <2>4
    <2>6. 2^(a - (d - 1)) = 2 * 2^(a - d)
      BY <1>1, <2>4
    <2>7. 2^(a - d) \in Nat /\ 2^a \in Nat
      BY <1>2, <2>4
    <2>8. 2^(a - d) <= 2^a
      BY <2>5, <2>6, <2>7
    <2> QED
      BY <2>8
  <1> SUFFICES ASSUME NEW b \in 0..a PROVE 2^b <= 2^a
    OBVIOUS
  <1>4. a - b \in 0..a /\ a - (a - b) = b
    BY <1>1
  <1>5. a - b \notin Wrong
    BY <1>3
  <1> QED
    BY <1>4, <1>5

\* bit_scan_reverse finds the highest bit of a number that has one.
LEMMA TLog ==
    ASSUME T!MtrrAssumption, NEW n \in 1..Top
    PROVE  T!Log(n) \in 0..AddrBits /\ 2^T!Log(n) <= n
  <1> DEFINE Q == {o \in 0..(AddrBits + 1) : n < 2^o}
  <1>1. AddrBits \in Nat /\ Top \in Nat /\ Top < 2^AddrBits /\ 2^0 = 1
    BY DEF T!MtrrAssumption
  <1>2. \A o \in 0..(AddrBits + 1) : 2^o \in Nat
    BY TPowers
  <1>3. AddrBits \in Q
    <2>1. AddrBits \in 0..(AddrBits + 1) /\ 2^AddrBits \in Nat
      BY <1>1, <1>2
    <2> QED
      BY <1>1, <2>1
  <1>4. PICK k \in Q : \A o \in Q : k <= o
    BY <1>1, <1>3, Smallest, Q \subseteq Nat
  <1>5. k # 0 /\ k \in 0..(AddrBits + 1)
    <2>1. ~ (n < 2^0)
      BY <1>1
    <2> QED
      BY <2>1
  <1>6. k - 1 \in 0..AddrBits /\ (k - 1) + 1 = k /\ ~ (k <= k - 1) /\ k - 1 \in 0..(AddrBits + 1)
    BY <1>1, <1>5
  <1>7. 2^(k - 1) <= n /\ n < 2^((k - 1) + 1)
    <2>1. k - 1 \notin Q
      <3> HIDE DEF Q
      <3> QED
        BY <1>4, <1>6
    <2>2. ~ (n < 2^(k - 1)) /\ 2^(k - 1) \in Nat
      BY <1>2, <1>6, <2>1
    <2> QED
      BY <1>6, <2>2
  <1>8. \E o \in 0..AddrBits : 2^o <= n /\ n < 2^(o + 1)
    BY <1>6, <1>7
  <1> HIDE DEF Q
  <1> QED
    BY <1>8 DEF T!Log

\* bit_scan_forward finds the lowest.
LEMMA TTrailing ==
    ASSUME T!MtrrAssumption, NEW n \in 1..Top
    PROVE  T!Trailing(n) \in 0..AddrBits
  <1> DEFINE Q == {o \in 0..(AddrBits + 1) : n % 2^o # 0}
  <1>1. AddrBits \in Nat /\ Top \in Nat /\ Top < 2^AddrBits /\ 2^0 = 1
    BY DEF T!MtrrAssumption
  <1>2. \A o \in 0..(AddrBits + 1) : 2^o \in Nat \ {0}
    BY TPowers
  <1>3. AddrBits \in Q
    <2>1. AddrBits \in 0..(AddrBits + 1) /\ 2^AddrBits \in Nat \ {0}
      BY <1>1, <1>2
    <2>2. \A P \in Nat : n < P => n % P = n
      BY <1>1
    <2>3. n % 2^AddrBits = n
      BY <1>1, <2>1, <2>2
    <2> QED
      BY <1>1, <2>1, <2>3
  <1>4. PICK k \in Q : \A o \in Q : k <= o
    BY <1>1, <1>3, Smallest, Q \subseteq Nat
  <1>5. k # 0 /\ k \in 0..(AddrBits + 1)
    <2>1. n % 1 = 0
      BY <1>1
    <2> QED
      BY <1>1, <2>1
  <1>6. k - 1 \in 0..AddrBits /\ (k - 1) + 1 = k /\ ~ (k <= k - 1) /\ k - 1 \in 0..(AddrBits + 1)
    BY <1>1, <1>5
  <1>7. n % 2^(k - 1) = 0 /\ n % 2^((k - 1) + 1) # 0
    <2>1. k - 1 \notin Q
      <3> HIDE DEF Q
      <3> QED
        BY <1>4, <1>6
    <2> QED
      BY <1>6, <2>1
  <1>8. \E o \in 0..AddrBits : n % 2^o = 0 /\ n % 2^(o + 1) # 0
    BY <1>6, <1>7
  <1> HIDE DEF Q
  <1> QED
    BY <1>8 DEF T!Trailing

\* The block that map_typed_range writes next lies within the range.
LEMMA TBlock ==
    ASSUME T!MtrrAssumption, NEW c \in Nat, NEW e \in 0..Top, c < e
    PROVE  LET n == 2^T!Min2(MaxOrder, T!max_order(c, e - c)) IN n \in Nat \ {0} /\ c + n <= e
  <1>1. AddrBits \in Nat /\ Top \in Nat /\ MaxOrder \in Nat
    BY DEF T!MtrrAssumption
  <1>2. e - c \in 1..Top /\ (c # 0 => c \in 1..Top)
    BY <1>1
  <1> DEFINE g == T!Log(e - c)
             o == T!Min2(MaxOrder, T!max_order(c, e - c))
  <1>3. g \in 0..AddrBits /\ 2^g <= e - c
    BY <1>2, TLog
  <1>4. c # 0 => T!Trailing(c) \in 0..AddrBits
    BY <1>2, TTrailing
  <1>5. o \in 0..g
    BY <1>1, <1>3, <1>4 DEF T!max_order, T!Min2
  <1> HIDE DEF g, o
  <1>6. 2^o <= 2^g /\ 2^o \in Nat \ {0} /\ 2^g \in Nat
    <2>1. o \in 0..(AddrBits + 1) /\ g \in 0..(AddrBits + 1)
      BY <1>1, <1>3, <1>5
    <2> QED
      BY <1>3, <1>5, <2>1, TMonotone, TPowers
  <1>7. c + 2^o <= e
    BY <1>1, <1>2, <1>3, <1>6
  <1> QED
    BY <1>6, <1>7 DEF o

LEMMA TMinType ==
    ASSUME NEW N, N \subseteq Nat, N # {}
    PROVE  T!MinType(N) \in N /\ \A y \in N : T!MinType(N) <= y
  <1>1. \E x \in N : \A y \in N : x <= y
    BY Smallest
  <1> QED
    BY <1>1 DEF T!MinType

-----------------------------------------------------------------------------
(* What memtype reports holds up to the end that it reports.               *)

\* The registers are among those that firmware leaves.
TRegs ==
    /\ \A i \in DOMAIN msr :
         /\ msr[i].base \in Nat /\ msr[i].order \in 0..AddrBits /\ msr[i].type \in 0..(Top - 1)
         /\ msr[i].base % T!size(msr[i]) = 0 /\ msr[i].base + T!size(msr[i]) <= Top
    /\ region[1] \in Nat /\ region[2] \in 0..Top
TValid == {msr[i] : i \in {j \in DOMAIN msr : msr[j].valid}}

\* A register matches the addresses of its range.
LEMMA TMatches ==
    ASSUME NEW b \in Nat, NEW z \in Nat \ {0}, b % z = 0, NEW p \in Nat
    PROVE  p \div z = b \div z <=> b <= p /\ p < b + z
  <1> DEFINE q == b \div z
             k == p \div z
  <1>1. q \in Nat /\ b = q * z
    <2>1. b = z * (b \div z) + (b % z) /\ b \div z \in Nat
      OBVIOUS
    <2> QED
      BY <2>1
  <1>2. k \in Nat /\ \E r \in 0..(z - 1) : p = z * k + r
    <2>1. p = z * (p \div z) + (p % z) /\ p % z \in 0..(z - 1) /\ p \div z \in Nat
      OBVIOUS
    <2> QED
      BY <2>1
  <1> HIDE DEF q, k
  <1>3. PICK r \in 0..(z - 1) : p = z * k + r
    BY <1>2
  <1>4. k = q => b <= p /\ p < b + z
    BY <1>1, <1>2, <1>3
  <1>5. k < q => ~ (b <= p)
    <2> SUFFICES ASSUME k < q PROVE p < b
      BY <1>1, <1>2, <1>3
    <2>1. k + 1 <= q
      BY <1>1, <1>2
    <2>2. z * (k + 1) <= z * q
      BY <1>1, <1>2, <2>1
    <2>3. z * (k + 1) = z * k + z /\ z * q = b
      BY <1>1, <1>2
    <2>4. z * k \in Nat
      BY <1>2
    <2> QED
      BY <1>3, <2>2, <2>3, <2>4
  <1>6. k > q => ~ (p < b + z)
    <2> SUFFICES ASSUME q < k PROVE b + z <= p
      BY <1>1, <1>2, <1>3
    <2>1. q + 1 <= k
      BY <1>1, <1>2
    <2>2. z * (q + 1) <= z * k
      BY <1>1, <1>2, <2>1
    <2>3. z * (q + 1) = z * q + z /\ z * q = b
      BY <1>1, <1>2
    <2>4. z * k \in Nat
      BY <1>2
    <2> QED
      BY <1>3, <2>2, <2>3, <2>4
  <1>7. k = q \/ k < q \/ k > q
    BY <1>1, <1>2
  <1> QED
    BY <1>4, <1>5, <1>6, <1>7 DEF k, q

\* A register has a size, and contains a page or not.
LEMMA TContains ==
    ASSUME T!MtrrAssumption, TRegs, NEW i \in DOMAIN msr, NEW p \in Nat
    PROVE  /\ T!size(msr[i]) \in Nat \ {0}
           /\ T!Matches(msr[i], p) <=> msr[i].base <= p /\ p < msr[i].base + T!size(msr[i])
  <1>1. msr[i].order \in 0..(AddrBits + 1)
    BY DEF TRegs, T!MtrrAssumption
  <1>2. T!size(msr[i]) \in Nat \ {0}
    BY <1>1, TPowers DEF T!size
  <1>3. msr[i].base \in Nat /\ msr[i].base % T!size(msr[i]) = 0
    BY DEF TRegs
  <1> QED
    BY <1>2, <1>3, TMatches DEF T!Matches

\* The variable ranges: the type of every page up to the next beginning or end.
LEMMA TVariable ==
    ASSUME T!MtrrAssumption, TRegs, var_mtrr = TValid, NEW c \in Nat, 256 <= c, c < Top
    PROVE  LET r == T!memtype(c)
           IN  /\ r.next \in Nat /\ c < r.next
               /\ \A p \in Nat : c <= p /\ p < r.next => T!TypeOf(p) = r.type
  <1> DEFINE above == {m \in var_mtrr : c < m.base}
             hit == {m \in var_mtrr \ above : T!Matches(m, c)}
             types == {m.type : m \in hit}
             ends == {m.base : m \in above} \cup {m.base + T!size(m) : m \in hit}
             v == [type |-> T!MinType(types), next |-> T!MinType(ends)]
             r == T!memtype(c)
  <1>1. r = [v EXCEPT !.type = IF v.type = Top THEN DefaultType ELSE v.type]
    <2>1. v = T!Variable(c)
      BY DEF T!Variable
    <2>2. ~ (c < 128) /\ ~ (c < 192) /\ ~ (c < 256)
      OBVIOUS
    <2>3. r = [T!Variable(c) EXCEPT !.type = IF T!Variable(c).type = Top THEN DefaultType ELSE T!Variable(c).type]
      BY <2>2, Zenon DEF T!memtype
    <2> QED
      BY <2>1, <2>3
  <1>2. r.next = T!MinType(ends) /\ r.type = IF T!MinType(types) = Top THEN DefaultType ELSE T!MinType(types)
    <2> HIDE DEF types, ends
    <2> QED
      BY <1>1
  <1> HIDE DEF v, r
  <1>3. Top \in Nat
    BY DEF T!MtrrAssumption
  <1>4. ASSUME NEW m \in var_mtrr
        PROVE  /\ m.base \in Nat /\ T!size(m) \in Nat \ {0} /\ m.type \in 0..(Top - 1)
               /\ \A p \in Nat : T!Matches(m, p) <=> m.base <= p /\ p < m.base + T!size(m)
    <2>1. PICK i \in DOMAIN msr : m = msr[i]
      BY DEF TValid
    <2> QED
      BY <2>1, TContains DEF TRegs
  <1>5. ends \subseteq Nat /\ \A x \in ends : c < x
    <2>1. \A m \in hit : m.base <= c /\ c < m.base + T!size(m) /\ m.base + T!size(m) \in Nat
      BY <1>4
    <2> QED
      BY <1>4, <2>1
  <1>6. /\ r.next \in Nat /\ c < r.next
        /\ \A x \in ends : r.next <= x
    <2> HIDE DEF ends
    <2>1. CASE ends = {}
      BY <1>2, <1>3, <2>1 DEF T!MinType
    <2>2. CASE ends # {}
      <3>1. T!MinType(ends) \in ends /\ \A x \in ends : T!MinType(ends) <= x
        BY <1>5, <2>2, TMinType
      <3> QED
        BY <1>2, <1>5, <3>1
    <2> QED
      BY <2>1, <2>2
  <1>7. ASSUME NEW p \in Nat, c <= p, p < r.next, NEW m \in var_mtrr
        PROVE  m \in hit <=> m.base <= p /\ p < m.base + T!size(m)
    <2>1. CASE c < m.base
      <3>1. m.base \in ends /\ m \notin hit
        BY <2>1
      <3>2. r.next <= m.base
        BY <1>6, <3>1
      <3> QED
        BY <1>4, <1>6, <1>7, <3>1, <3>2
    <2>2. CASE ~ (c < m.base) /\ T!Matches(m, c)
      <3>1. m \in hit
        BY <2>2
      <3>2. m.base + T!size(m) \in ends
        BY <3>1
      <3>3. r.next <= m.base + T!size(m)
        BY <1>6, <3>2
      <3> QED
        BY <1>4, <1>6, <1>7, <2>2, <3>1, <3>3
    <2>3. CASE ~ (c < m.base) /\ ~ T!Matches(m, c)
      <3>1. m \notin hit
        BY <2>3
      <3> QED
        BY <1>4, <1>7, <2>3, <3>1
    <2> QED
      BY <2>1, <2>2, <2>3
  <1>8. ASSUME NEW p \in Nat, c <= p, p < r.next PROVE T!TypeOf(p) = r.type
    <2> DEFINE idx == {i \in DOMAIN msr : /\ msr[i].valid
                                          /\ p \in msr[i].base .. (msr[i].base + T!size(msr[i]) - 1)}
    <2>1. T!TypeOf(p) = IF idx = {} THEN DefaultType ELSE T!MinType({msr[i].type : i \in idx})
      <3>1. ~ (p < 256)
        BY <1>8
      <3> QED
        BY <3>1, Zenon DEF T!TypeOf
    <2>2. ASSUME NEW i \in DOMAIN msr
          PROVE  i \in idx <=> msr[i].valid /\ msr[i] \in hit
      <3>1. msr[i].base \in Nat /\ T!size(msr[i]) \in Nat
        BY TContains DEF TRegs
      <3>2. msr[i].valid => msr[i] \in var_mtrr
        BY DEF TValid
      <3>3. i \in idx <=> msr[i].valid /\ msr[i].base <= p /\ p < msr[i].base + T!size(msr[i])
        BY <3>1
      <3> HIDE DEF hit, idx
      <3> QED
        BY <1>7, <1>8, <3>2, <3>3
    <2>3. \A m \in hit : \E i \in DOMAIN msr : msr[i].valid /\ m = msr[i]
      BY DEF TValid
    <2> HIDE DEF hit, idx
    <2>4. {msr[i].type : i \in idx} = types
      <3>1. \A i \in idx : i \in DOMAIN msr
        BY DEF idx
      <3> QED
        BY <2>2, <2>3, <3>1
    <2>5. idx = {} <=> types = {}
      BY <2>4
    <2>6. types \subseteq 0..(Top - 1)
      BY <1>4 DEF hit
    <2> HIDE DEF types
    <2>7. types # {} => T!MinType(types) \in types
      BY <1>3, <2>6, TMinType, types \subseteq Nat
    <2>8. types # {} => T!MinType(types) # Top
      BY <1>3, <2>6, <2>7
    <2>9. types = {} => T!MinType(types) = Top
      BY DEF T!MinType
    <2> QED
      BY <1>2, <2>1, <2>4, <2>5, <2>8, <2>9
  <1> QED
    BY <1>6, <1>8 DEF r

\* The fixed ranges.
LEMMA TFixed ==
    ASSUME NEW c \in Nat, c < 256
    PROVE  LET r == T!memtype(c)
           IN  /\ r.next \in Nat /\ c < r.next
               /\ \A p \in Nat : c <= p /\ p < r.next => T!TypeOf(p) = r.type
  <1> DEFINE r == T!memtype(c)
  <1>0. ASSUME NEW p \in Nat, p < 256
        PROVE  T!TypeOf(p) = fixed[IF p < 128 THEN p \div 16 ELSE IF p >= 192 THEN p - 192 + 24 ELSE (p - 128) \div 4 + 8]
    <2> DEFINE k == CASE p < 128 -> p \div 16 [] p >= 192 -> p - 192 + 24 [] OTHER -> (p - 128) \div 4 + 8
    <2>1. T!TypeOf(p) = fixed[k]
      BY <1>0, Zenon DEF T!TypeOf
    <2>2. p < 128 => ~ (p >= 192)
      OBVIOUS
    <2>3. k = IF p < 128 THEN p \div 16 ELSE IF p >= 192 THEN p - 192 + 24 ELSE (p - 128) \div 4 + 8
      BY <2>2, Zenon
    <2> QED
      BY <2>1, <2>3
  <1>1. CASE c < 128
    <2>1. r = [type |-> fixed[(c \div 16) % 8], next |-> c - (c % 16) + 16]
      <3>1. ~ (c >= 128) /\ ~ (c >= 192)
        BY <1>1
      <3> QED
        BY <1>1, <3>1, Zenon DEF T!memtype
    <2>2. c - (c % 16) + 16 \in Nat /\ c < c - (c % 16) + 16
      OBVIOUS
    <2>3. ASSUME NEW p \in Nat, c <= p, p < c - (c % 16) + 16
          PROVE  p < 128 /\ p \div 16 = (c \div 16) % 8
      BY <1>1, <2>3
    <2> QED
      BY <1>0, <2>1, <2>2, <2>3
  <1>2. CASE c >= 128 /\ c < 192
    <2>1. r = [type |-> fixed[8 + 8 * ((c \div 32) % 2) + ((c \div 4) % 8)], next |-> c - (c % 4) + 4]
      <3>1. ~ (c < 128) /\ ~ (c >= 192)
        BY <1>2
      <3> QED
        BY <1>2, <3>1, Zenon DEF T!memtype
    <2>2. c - (c % 4) + 4 \in Nat /\ c < c - (c % 4) + 4
      OBVIOUS
    <2>a. r.next = c - (c % 4) + 4 /\ r.type = fixed[8 + 8 * ((c \div 32) % 2) + ((c \div 4) % 8)]
      BY <2>1
    <2>3. ASSUME NEW p \in Nat, c <= p, p < c - (c % 4) + 4
          PROVE  /\ ~ (p < 128) /\ ~ (p >= 192) /\ p < 256
                 /\ (p - 128) \div 4 + 8 = 8 + 8 * ((c \div 32) % 2) + ((c \div 4) % 8)
      BY <1>2, <2>3
    <2>4. ASSUME NEW p \in Nat, c <= p, p < c - (c % 4) + 4 PROVE T!TypeOf(p) = r.type
      <3> HIDE DEF r
      <3>1. ~ (p < 128) /\ ~ (p >= 192) /\ p < 256
        BY <2>3, <2>4
      <3>2. T!TypeOf(p) = fixed[(p - 128) \div 4 + 8]
        <4> DEFINE j == (p - 128) \div 4 + 8
                   k == IF p < 128 THEN p \div 16 ELSE IF p >= 192 THEN p - 192 + 24 ELSE j
        <4>1. T!TypeOf(p) = fixed[k]
          BY <1>0, <3>1
        <4>2. k = j
          <5> HIDE DEF j
          <5> QED
            BY <3>1
        <4> HIDE DEF j, k
        <4>3. T!TypeOf(p) = fixed[j]
          BY <4>1, <4>2
        <4> QED
          BY <4>3 DEF j
      <3>3. (p - 128) \div 4 + 8 = 8 + 8 * ((c \div 32) % 2) + ((c \div 4) % 8)
        BY <2>3, <2>4
      <3> QED
        BY <2>a, <3>2, <3>3, Zenon
    <2> HIDE DEF r
    <2>5. /\ r.next \in Nat /\ c < r.next
          /\ \A p \in Nat : c <= p /\ p < r.next => T!TypeOf(p) = r.type
      BY <2>2, <2>4, <2>a
    <2> QED
      BY <2>5 DEF r
  <1>3. CASE c >= 192
    <2>1. r = [type |-> fixed[24 + 8 * ((c \div 8) % 8) + (c % 8)], next |-> c + 1]
      <3>1. ~ (c < 128) /\ ~ (c < 192) /\ c >= 192 /\ c < 256
        BY <1>3
      <3> QED
        BY <1>3, <3>1, Zenon DEF T!memtype
    <2>2. ASSUME NEW p \in Nat, c <= p, p < c + 1
          PROVE  /\ ~ (p < 128) /\ p >= 192 /\ p < 256
                 /\ p - 192 + 24 = 24 + 8 * ((c \div 8) % 8) + (c % 8)
      BY <1>3, <2>2
    <2> QED
      BY <1>0, <2>1, <2>2, SMTT(60)
  <1> QED
    BY <1>1, <1>2, <1>3

-----------------------------------------------------------------------------
(* The walk.                                                               *)

\* All pages below b have their type, and no others have one.
TDone(b) ==
    /\ \A x \in typed : x[1] \in region[1] .. (region[2] - 1) /\ x[2] = T!TypeOf(x[1])
    /\ \A p \in region[1] .. (region[2] - 1) : p < b => <<p, T!TypeOf(p)>> \in typed

TInv ==
    /\ TRegs /\ tpc \in {"init", "memtype", "map"}
    /\ IF tpc = "init" THEN typed = {} ELSE var_mtrr = TValid /\ tcur \in Nat /\ region[1] <= tcur /\ TDone(tcur)
    /\ tpc = "map" =>
         /\ tto \in Nat /\ tnext \in Nat /\ tcur <= tto /\ tto <= region[2] /\ tto \in {tnext, region[2]}
         /\ tto <= tnext
         /\ \A p \in Nat : tcur <= p /\ p < tto => T!TypeOf(p) = ttype

LEMMA TInit == ASSUME T!MtrrAssumption, T!Init PROVE TInv
  BY DEF T!MtrrAssumption, T!Init, TInv, TRegs

\* The registers and the region do not change.
LEMMA TSame ==
    ASSUME UNCHANGED <<msr, fixed, region>>
    PROVE  /\ TRegs' <=> TRegs
           /\ TValid' = TValid
           /\ \A p : T!TypeOf(p)' = T!TypeOf(p)
  BY DEF TRegs, TValid, T!TypeOf, T!size, T!MinType

LEMMA TStep ==
    ASSUME T!MtrrAssumption, TInv, [T!Next]_(T!vars) PROVE TInv'
  <1>0. UNCHANGED <<msr, fixed, region>>
    BY DEF T!Next, T!init, T!insert_root, T!map_typed_range, T!vars
  <1>a. /\ TRegs' /\ TValid' = TValid
        /\ \A p : T!TypeOf(p)' = T!TypeOf(p)
    BY <1>0, TSame DEF TInv
  <1>b. region[1] \in Nat /\ region[2] \in 0..Top /\ Top \in Nat
    BY DEF TInv, TRegs, T!MtrrAssumption
  <1>c. typed' = typed /\ tcur' = tcur => (TDone(tcur)' <=> TDone(tcur))
    BY <1>0, <1>a DEF TDone
  <1>1. CASE T!init
    <2>1. var_mtrr' = TValid'
      BY <1>1, <1>a DEF T!init, TValid
    <2>2. TDone(tcur)'
      BY <1>0, <1>1, <1>b DEF T!init, TInv, TDone
    <2> QED
      BY <1>1, <1>a, <1>b, <1>0, <2>1, <2>2 DEF T!init, TInv
  <1>2. CASE T!insert_root
    <2> DEFINE r == T!memtype(tcur)
    <2>1. /\ tpc = "memtype" /\ tcur < region[2] /\ tpc' = "map" /\ UNCHANGED <<var_mtrr, tcur, typed>>
          /\ ttype' = r.type /\ tnext' = r.next /\ tto' = T!Min2(r.next, region[2])
      BY <1>2 DEF T!insert_root
    <2>2. tcur \in Nat /\ var_mtrr = TValid /\ TDone(tcur) /\ TRegs /\ region[1] <= tcur
      BY <2>1 DEF TInv
    <2>3. /\ r.next \in Nat /\ tcur < r.next
          /\ \A p \in Nat : tcur <= p /\ p < r.next => T!TypeOf(p) = r.type
      <3>1. CASE tcur < 256
        BY <2>2, <3>1, TFixed
      <3>2. CASE ~ (tcur < 256)
        <4>1. 256 <= tcur /\ tcur < Top
          BY <1>b, <2>1, <2>2, <3>2
        <4> QED
          BY <2>2, <4>1, TVariable
      <3> QED
        BY <3>1, <3>2
    <2> HIDE DEF r
    <2>4. /\ tto' \in Nat /\ tcur <= tto' /\ tto' <= region[2] /\ tto' \in {tnext', region[2]} /\ tto' <= tnext'
          /\ tto' <= r.next /\ tnext' \in Nat
      BY <1>b, <2>1, <2>2, <2>3 DEF T!Min2
    <2>5. ASSUME NEW p \in Nat, tcur' <= p, p < tto' PROVE T!TypeOf(p)' = ttype'
      <3>1. tcur <= p /\ p < r.next
        BY <1>b, <2>1, <2>2, <2>3, <2>4, <2>5
      <3> QED
        BY <1>a, <2>1, <2>3, <3>1
    <2>6. TDone(tcur)'
      BY <1>c, <2>1, <2>2
    <2> QED
      BY <1>a, <1>0, <2>1, <2>2, <2>4, <2>5, <2>6 DEF TInv
  <1>3. CASE T!map_typed_range /\ tcur < tto
    <2> DEFINE n == 2^T!Min2(MaxOrder, T!max_order(tcur, tto - tcur))
               block == tcur .. (tcur + n - 1)
    <2>1. /\ tpc = "map" /\ tpc' = "map" /\ UNCHANGED <<var_mtrr, tto, tnext, ttype>>
          /\ typed' = {x \in typed : x[1] \notin block} \cup {<<p, ttype>> : p \in block}
          /\ tcur' = tcur + n
      BY <1>3 DEF T!map_typed_range
    <2>2. /\ tcur \in Nat /\ var_mtrr = TValid /\ TDone(tcur) /\ TRegs /\ region[1] <= tcur
          /\ tto \in Nat /\ tnext \in Nat /\ tto <= region[2] /\ tto \in {tnext, region[2]} /\ tto <= tnext
          /\ \A p \in Nat : tcur <= p /\ p < tto => T!TypeOf(p) = ttype
      BY <2>1 DEF TInv
    <2>3. n \in Nat \ {0} /\ tcur + n <= tto
      BY <1>3, <1>b, <2>2, TBlock
    <2> HIDE DEF n
    <2>4. \A p \in block : p \in region[1] .. (region[2] - 1) /\ T!TypeOf(p) = ttype
      BY <1>b, <2>2, <2>3
    <2>5. TDone(tcur)'
      <3>1. ASSUME NEW x \in typed'
            PROVE  x[1] \in region[1] .. (region[2] - 1) /\ x[2] = T!TypeOf(x[1])
        <4>1. CASE x \in typed
          BY <2>2, <4>1 DEF TDone
        <4>2. CASE \E p \in block : x = <<p, ttype>>
          BY <2>4, <4>2
        <4> QED
          BY <2>1, <3>1, <4>1, <4>2
      <3>2. ASSUME NEW p \in region[1] .. (region[2] - 1), p < tcur' PROVE <<p, T!TypeOf(p)>> \in typed'
        <4>1. CASE p \in block
          BY <2>1, <2>4, <4>1
        <4>2. CASE p \notin block
          <5>1. p < tcur
            BY <1>b, <2>1, <2>2, <2>3, <3>2, <4>2
          <5>2. <<p, T!TypeOf(p)>> \in typed
            BY <2>2, <5>1 DEF TDone
          <5>3. <<p, T!TypeOf(p)>>[1] = p
            OBVIOUS
          <5> QED
            BY <2>1, <4>2, <5>2, <5>3
        <4> QED
          BY <4>1, <4>2
      <3> QED
        BY <1>0, <1>a, <3>1, <3>2 DEF TDone
    <2>6. /\ tcur' \in Nat /\ region[1] <= tcur' /\ tcur' <= tto
          /\ \A p \in Nat : tcur' <= p /\ p < tto => T!TypeOf(p) = ttype
      BY <1>b, <2>1, <2>2, <2>3
    <2> QED
      BY <1>0, <1>a, <2>1, <2>2, <2>5, <2>6 DEF TInv
  <1>4. CASE T!map_typed_range /\ ~ (tcur < tto)
    <2>1. /\ tpc = "map" /\ tpc' = "memtype" /\ UNCHANGED <<var_mtrr, typed>> /\ tcur' = tnext
      BY <1>4 DEF T!map_typed_range
    <2>2. /\ tcur \in Nat /\ var_mtrr = TValid /\ TDone(tcur) /\ TRegs /\ region[1] <= tcur
          /\ tto \in Nat /\ tnext \in Nat /\ tto <= region[2] /\ tto \in {tnext, region[2]} /\ tto <= tnext
          /\ tcur <= tto
      BY <2>1 DEF TInv
    <2>3. tcur = tto /\ region[1] <= tnext
      BY <1>4, <1>b, <2>2
    <2>4. \A p \in region[1] .. (region[2] - 1) : p < tnext => p < tcur
      BY <1>b, <2>2, <2>3
    <2>5. TDone(tcur)'
      BY <1>0, <1>a, <2>1, <2>2, <2>4 DEF TDone
    <2> QED
      BY <1>0, <1>a, <2>1, <2>2, <2>3, <2>5 DEF TInv
  <1>5. CASE UNCHANGED T!vars
    <2>1. UNCHANGED <<msr, fixed, var_mtrr, region, tpc, tcur, tto, tnext, ttype, typed>>
      BY <1>5 DEF T!vars
    <2>2. TDone(tcur)' <=> TDone(tcur)
      BY <1>c, <2>1
    <2> QED
      BY <1>a, <2>1, <2>2 DEF TInv
  <1> QED
    BY <1>1, <1>2, <1>3, <1>4, <1>5 DEF T!Next

\* Every page of a region that Space_mem::insert_root maps gets the type that the MTRRs
\* give it, and no other page gets one: the end that Generic_mtrr_state::memtype reports
\* never jumps over a register that begins or ends before it, and the blocks of
\* map_typed_range never reach beyond it.
THEOREM MemoryIsTyped == ASSUME T!MtrrAssumption PROVE T!Spec => []MemoryTyped
  <1>1. T!Init => TInv
    BY TInit
  <1>2. TInv /\ [T!Next]_(T!vars) => TInv'
    BY TStep
  <1>3. TInv => T!MemoryTyped
    <2> SUFFICES ASSUME TInv PROVE T!MemoryTyped
      OBVIOUS
    <2>1. \A p \in region[1] .. (region[2] - 1) : region[2] \in Nat /\ p \in Nat /\ p < region[2]
      BY DEF TInv, TRegs, T!MtrrAssumption
    <2>2. tpc # "init" => TDone(tcur) /\ tcur \in Nat
      BY DEF TInv
    <2>3. \A p \in region[1] .. (region[2] - 1) : tcur \in Nat /\ tcur >= region[2] => p < tcur
      BY <2>1
    <2>4. tpc = "init" => typed = {}
      BY DEF TInv
    <2> QED
      BY <2>2, <2>3, <2>4 DEF TDone, T!MemoryTyped
  <1>4. T!MemoryTyped => MemoryTyped
    BY DEF MemoryTyped
  <1> QED
    BY <1>1, <1>2, <1>3, <1>4, PTL DEF T!Spec

-----------------------------------------------------------------------------
(* The port space (Ports).                                                 *)

\* Powers of two divide larger ones.
LEMMA IPowers ==
    ASSUME Io!PortAssumption
    PROVE  \A o \in 0..PortBits : 2^o \in Nat \ {0}
  <1> DEFINE Wrong == {o \in 0..PortBits : 2^o \notin Nat \ {0}}
  <1> SUFFICES ASSUME Wrong # {} PROVE FALSE
    OBVIOUS
  <1>1. PortBits \in Nat /\ 2^0 = 1 /\ \A o \in 0..PortBits : 2^(o + 1) = 2 * 2^o
    BY DEF Io!PortAssumption
  <1>2. PICK n \in Wrong : \A m \in Wrong : n <= m
    BY <1>1, Smallest, Wrong \subseteq Nat
  <1>3. n \in 0..PortBits /\ n # 0
    <2>1. 2^0 \in Nat \ {0}
      BY <1>1
    <2> QED
      BY <2>1
  <1>4. n - 1 \in 0..PortBits /\ ~ (n <= n - 1) /\ (n - 1) + 1 = n
    BY <1>1, <1>3
  <1>5. 2^(n - 1) \in Nat \ {0}
    BY <1>2, <1>4
  <1>6. 2^n = 2 * 2^(n - 1)
    BY <1>1, <1>4
  <1>7. 2^n \in Nat \ {0}
    BY <1>5, <1>6
  <1> QED
    BY <1>7

LEMMA IDivides ==
    ASSUME Io!PortAssumption, NEW a \in 0..PortBits
    PROVE  \A b \in a..PortBits : \E k \in Nat : 2^b = k * 2^a
  <1> DEFINE Wrong == {b \in a..PortBits : ~ \E k \in Nat : 2^b = k * 2^a}
  <1> SUFFICES ASSUME Wrong # {} PROVE FALSE
    OBVIOUS
  <1>1. PortBits \in Nat /\ \A o \in 0..PortBits : 2^(o + 1) = 2 * 2^o
    BY DEF Io!PortAssumption
  <1>2. PICK n \in Wrong : \A m \in Wrong : n <= m
    BY <1>1, Smallest, Wrong \subseteq Nat
  <1>3. 2^a \in Nat
    BY IPowers
  <1>4. n # a
    BY <1>2, <1>3, 2^a = 1 * 2^a
  <1>5. n - 1 \in a..PortBits /\ n - 1 \in 0..PortBits /\ ~ (n <= n - 1) /\ (n - 1) + 1 = n
    BY <1>1, <1>2, <1>4
  <1>6. PICK k \in Nat : 2^(n - 1) = k * 2^a
    BY <1>2, <1>5
  <1>7. 2^n = 2 * (k * 2^a)
    BY <1>1, <1>5, <1>6
  <1>8. 2^n = (2 * k) * 2^a /\ 2 * k \in Nat
    BY <1>3, <1>7
  <1> QED
    BY <1>2, <1>8

\* Of numbers of blocks of size z: the product keeps the order.
LEMMA IBlocks ==
    ASSUME NEW z \in Nat \ {0}, NEW x \in Int, NEW y \in Int, x < y
    PROVE  x * z + z <= y * z
  <1>1. PICK d \in Nat : y = x + 1 + d
    <2>1. y - x - 1 \in Nat /\ y = x + 1 + (y - x - 1)
      OBVIOUS
    <2> QED
      BY <2>1
  <1>2. y * z = x * z + z + d * z
    BY <1>1
  <1>3. d * z \in Nat
    OBVIOUS
  <1> QED
    BY <1>2, <1>3

\* A naturally aligned window.
IWin(v) == v.base \in Nat /\ v.order \in 0..PortBits /\ v.base % 2^v.order = 0

LEMMA ISpan ==
    ASSUME Io!PortAssumption, NEW v, IWin(v)
    PROVE  /\ v.base \in Io!Span(v) /\ 2^v.order \in Nat \ {0}
           /\ \A q : q \in Io!Span(v) <=> q \in Nat /\ v.base <= q /\ q < v.base + 2^v.order
  <1>1. 2^v.order \in Nat \ {0} /\ v.base \in Nat
    BY IPowers DEF IWin
  <1> QED
    BY <1>1 DEF Io!Span

\* Two windows that meet: the smaller one is part of the larger one.
LEMMA INested ==
    ASSUME Io!PortAssumption, NEW v, NEW w, IWin(v), IWin(w), v.order <= w.order,
           Io!Span(v) \cap Io!Span(w) # {}
    PROVE  Io!Span(v) \subseteq Io!Span(w)
  <1> DEFINE z == 2^v.order
             y == 2^w.order
             a == v.base \div z
             b == w.base \div y
  <1>1. z \in Nat \ {0} /\ y \in Nat \ {0} /\ v.base \in Nat /\ w.base \in Nat
    BY ISpan DEF IWin
  <1>2. PICK k \in Nat : y = k * z
    <2>1. v.order \in 0..PortBits /\ w.order \in v.order..PortBits
      BY DEF IWin
    <2> QED
      BY <2>1, IDivides
  <1>3. a \in Nat /\ v.base = a * z
    <2>1. v.base = z * a + (v.base % z) /\ a \in Nat
      BY <1>1
    <2>2. v.base % z = 0
      BY DEF IWin
    <2> HIDE DEF z, a
    <2> QED
      BY <1>1, <2>1, <2>2
  <1>4. b \in Nat /\ w.base = b * y
    <2>1. w.base = y * b + (w.base % y) /\ b \in Nat
      BY <1>1
    <2>2. w.base % y = 0
      BY DEF IWin
    <2> HIDE DEF y, b
    <2> QED
      BY <1>1, <2>1, <2>2
  <1>5. PICK q : q \in Io!Span(v) /\ q \in Io!Span(w)
    OBVIOUS
  <1>6. q \in Nat /\ v.base <= q /\ q < v.base + z /\ w.base <= q /\ q < w.base + y
    BY <1>5, ISpan
  <1> HIDE DEF z, y, a, b
  <1> DEFINE c == b * k
             d == b * k + k
  <1>7. c \in Nat /\ d \in Nat /\ w.base = c * z /\ w.base + y = d * z
    <2>1. b * (k * z) = (b * k) * z
      BY <1>1, <1>2, <1>4
    <2>2. (b * k) * z + k * z = (b * k + k) * z
      BY <1>1, <1>2, <1>4
    <2> QED
      BY <1>1, <1>2, <1>4, <2>1, <2>2
  <1> HIDE DEF c, d
  <1>8. ~ (a < c)
    <2> SUFFICES ASSUME a < c PROVE FALSE
      OBVIOUS
    <2>1. a * z + z <= c * z
      BY <1>1, <1>3, <1>7, IBlocks
    <2>2. v.base + z <= w.base
      BY <1>3, <1>7, <2>1
    <2> QED
      BY <1>1, <1>6, <2>2
  <1>9. a < d
    <2> SUFFICES ASSUME ~ (a < d) PROVE FALSE
      OBVIOUS
    <2>1. d < a \/ d = a
      BY <1>3, <1>7
    <2>2. d * z <= a * z
      <3>1. CASE d = a
        BY <1>1, <1>3, <3>1
      <3>2. CASE d < a
        <4>1. d * z + z <= a * z
          BY <1>1, <1>3, <1>7, <3>2, IBlocks
        <4> QED
          BY <1>1, <1>3, <1>7, <4>1
      <3> QED
        BY <2>1, <3>1, <3>2
    <2>3. w.base + y <= v.base
      BY <1>3, <1>7, <2>2
    <2> QED
      BY <1>1, <1>6, <2>3
  <1>10. w.base <= v.base /\ v.base + z <= w.base + y
    <2>1. a * z + z <= d * z
      BY <1>1, <1>3, <1>7, <1>9, IBlocks
    <2>2. c * z <= a * z
      <3>1. CASE c = a
        BY <1>1, <1>3, <3>1
      <3>2. CASE c < a
        <4>1. c * z + z <= a * z
          BY <1>1, <1>3, <1>7, <3>2, IBlocks
        <4> QED
          BY <1>1, <1>3, <1>7, <4>1
      <3> QED
        BY <1>3, <1>7, <1>8, <3>1, <3>2
    <2> QED
      BY <1>3, <1>7, <2>1, <2>2
  <1>11. \A x : x \in Io!Span(v) => x \in Nat /\ v.base <= x /\ x < v.base + z
    BY ISpan DEF z
  <1>12. \A x : x \in Nat /\ w.base <= x /\ x < w.base + y => x \in Io!Span(w)
    BY ISpan DEF y
  <1>13. \A x \in Nat : v.base <= x /\ x < v.base + z => w.base <= x /\ x < w.base + y
    BY <1>1, <1>10
  <1> QED
    BY <1>11, <1>12, <1>13

\* Pd::clamp: what two windows have in common.
LEMMA IClamp ==
    ASSUME Io!PortAssumption, NEW v, NEW w, IWin(v), IWin(w)
    PROVE  /\ Io!clamp(v, w) # Io!Failed <=> Io!Span(v) \cap Io!Span(w) # {}
           /\ Io!clamp(v, w) # Io!Failed =>
                /\ IWin(Io!clamp(v, w)) /\ Io!Span(Io!clamp(v, w)) = Io!Span(v) \cap Io!Span(w)
                /\ Io!clamp(v, w).order \in 0..PortBits
  <1>1. CASE Io!Span(v) \cap Io!Span(w) = {}
    BY <1>1 DEF Io!clamp
  <1>2. CASE Io!Span(v) \cap Io!Span(w) # {}
    <2>1. v.order \in Int /\ w.order \in Int /\ v.order \in 0..PortBits /\ w.order \in 0..PortBits
      BY DEF IWin
    <2>2. CASE v.order < w.order
      <3>1. Io!clamp(v, w) = [base |-> v.base, order |-> v.order]
        BY <1>2, <2>2 DEF Io!clamp
      <3>2. Io!Span(Io!clamp(v, w)) = Io!Span(v)
        BY <3>1 DEF Io!Span
      <3>3. Io!Span(v) \subseteq Io!Span(w)
        <4>1. v.order <= w.order
          BY <2>1, <2>2
        <4> QED
          BY <1>2, <4>1, INested
      <3>4. IWin(Io!clamp(v, w)) /\ Io!clamp(v, w).order \in 0..PortBits
        BY <3>1 DEF IWin
      <3>5. Io!clamp(v, w) # Io!Failed
        <4>1. Io!Failed.order = -1 /\ -1 \notin 0..PortBits
          BY DEF Io!Failed
        <4> QED
          BY <3>4, <4>1
      <3> QED
        BY <1>2, <3>2, <3>3, <3>4, <3>5
    <2>3. CASE ~ (v.order < w.order)
      <3>1. Io!clamp(v, w) = [base |-> w.base, order |-> w.order]
        BY <1>2, <2>3 DEF Io!clamp
      <3>2. Io!Span(Io!clamp(v, w)) = Io!Span(w)
        BY <3>1 DEF Io!Span
      <3>3. Io!Span(w) \subseteq Io!Span(v)
        <4>1. w.order <= v.order /\ Io!Span(w) \cap Io!Span(v) # {}
          BY <1>2, <2>1, <2>3
        <4> QED
          BY <4>1, INested
      <3>4. IWin(Io!clamp(v, w)) /\ Io!clamp(v, w).order \in 0..PortBits
        BY <3>1 DEF IWin
      <3>5. Io!clamp(v, w) # Io!Failed
        <4>1. Io!Failed.order = -1 /\ -1 \notin 0..PortBits
          BY DEF Io!Failed
        <4> QED
          BY <3>4, <4>1
      <3> QED
        BY <1>2, <3>2, <3>3, <3>4, <3>5
    <2> QED
      BY <2>2, <2>3
  <1> QED
    BY <1>1, <1>2

\* The nodes; a node is part of the parent, from which it has its rights; nodes
\* of one domain do not overlap.  Closed sets of nodes, and that no node is
\* derived from itself.  The bitmaps, port by port.
INodes == [space : PDs \cup {Kern}, base : Nat, order : 0..PortBits, attr : SUBSET Rights,
           sub : SUBSET {"host", "guest"}, from : PDs \cup {Kern}]
IPar(x, y) == x.space # Kern /\ y.space = x.from /\ x.base \in Io!Span(y)
IPart(x, y) == IPar(x, y) /\ Io!Span(x) \subseteq Io!Span(y) /\ x.attr \subseteq y.attr
IApart(N) == \A x, y \in N : x.space = y.space /\ Io!Span(x) \cap Io!Span(y) # {} => x = y
IShape(N) == /\ N \subseteq INodes /\ \A x \in N : IWin(x)
             /\ IApart(N)
             /\ \A x \in N : x.space # Kern => x.attr # {} /\ \E y \in N : IPart(x, y)
IClosed(N, K) == K \subseteq N /\ \A x \in N, y \in K : IPar(x, y) => x \in K
IApex(N, x, K) == IClosed(N, K) /\ x \notin K /\ \A c \in N : IPar(c, x) => c \in K
IAcyclic(N) == \A x \in N : \E K \in SUBSET N : IApex(N, x, K)
IBits(N, b) ==
    \A p \in PDs, s \in {"host", "guest"} :
        \A q : q \in b[p][s] <=> \E x \in N : x.space = p /\ s \in x.sub /\ q \in Io!Span(x)
IoInv == IShape(nodes) /\ IAcyclic(nodes) /\ IBits(nodes, bmp)

\* A node has one parent, which covers it.
LEMMA IParent ==
    ASSUME Io!PortAssumption, NEW N, IShape(N), NEW x \in N, NEW y \in N, IPar(x, y)
    PROVE  IPart(x, y) /\ \A z \in N : IPar(x, z) => z = y
  <1>1. \A z \in N : IPar(x, z) => z = y
    BY DEF IShape, IApart, IPar
  <1>2. PICK m \in N : IPart(x, m)
    BY DEF IShape, IPar
  <1> QED
    BY <1>1, <1>2 DEF IPart

\* What the operators of the module are in these terms.
LEMMA IClosedIs ==
    ASSUME NEW K \in SUBSET nodes
    PROVE  Io!Closed(K) <=> IClosed(nodes, K)
  BY DEF Io!Closed, Io!prnt, IClosed, IPar

LEMMA IDerived ==
    ASSUME NEW N \in SUBSET nodes
    PROVE  /\ N \subseteq Io!Derived(N)
           /\ IClosed(nodes, Io!Derived(N))
           /\ \A K \in SUBSET nodes : N \subseteq K /\ IClosed(nodes, K) => Io!Derived(N) \subseteq K
  <1>1. \A x : x \in Io!Derived(N) <=>
            x \in nodes /\ \A K \in SUBSET nodes : N \subseteq K /\ IClosed(nodes, K) => x \in K
    BY IClosedIs DEF Io!Derived
  <1>2. N \subseteq Io!Derived(N)
    BY <1>1
  <1>3. \A K \in SUBSET nodes : N \subseteq K /\ IClosed(nodes, K) => Io!Derived(N) \subseteq K
    BY <1>1
  <1>4. ASSUME NEW x \in nodes, NEW y \in Io!Derived(N), IPar(x, y)
        PROVE  x \in Io!Derived(N)
    <2> SUFFICES ASSUME NEW K \in SUBSET nodes, N \subseteq K, IClosed(nodes, K) PROVE x \in K
      BY <1>1
    <2>1. y \in K
      BY <1>3
    <2> QED
      BY <1>4, <2>1 DEF IClosed
  <1>5. IClosed(nodes, Io!Derived(N))
    BY <1>1, <1>4 DEF IClosed
  <1> QED
    BY <1>2, <1>3, <1>5

LEMMA IHeld ==
    ASSUME NEW N, NEW p
    PROVE  \A q : q \in Io!Held(N, p) <=> \E x \in N : x.space = p /\ q \in Io!Span(x)
  BY DEF Io!Held

\* A step of delegation adds leaves in ports that the receiver has not.
LEMMA IAdd ==
    ASSUME Io!PortAssumption, NEW N, IShape(N), IAcyclic(N), NEW A, A \subseteq INodes, NEW rcv \in PDs,
           NEW snd, snd # rcv,
           \A x \in A : /\ IWin(x) /\ x.space = rcv /\ x.from = snd /\ x.attr # {}
                        /\ \E y \in N : IPart(x, y)
                        /\ \A y \in N : y.space = rcv => Io!Span(y) \cap Io!Span(x) = {},
           IApart(A)
    PROVE  IShape(N \cup A) /\ IAcyclic(N \cup A)
  <1>1. \A x \in N \cup A : x.base \in Io!Span(x)
    BY ISpan DEF IShape
  <1>2. N \cap A = {}
    BY <1>1
  <1>3. IApart(N \cup A)
    BY DEF IShape, IApart
  <1>4. Kern \notin PDs
    BY DEF Io!PortAssumption
  <1>5. IShape(N \cup A)
    <2>1. N \cup A \subseteq INodes /\ \A x \in N \cup A : IWin(x)
      BY DEF IShape
    <2>2. \A x \in N \cup A : x.space # Kern => x.attr # {} /\ \E y \in N \cup A : IPart(x, y)
      BY DEF IShape
    <2> QED
      BY <1>3, <2>1, <2>2 DEF IShape
  <1>6. \A x \in N, y \in A : ~ IPar(x, y)
    <2> SUFFICES ASSUME NEW x \in N, NEW y \in A, IPar(x, y) PROVE FALSE
      OBVIOUS
    <2>1. PICK m \in N : IPart(x, m)
      BY DEF IShape, IPar
    <2>2. x.base \in Io!Span(m) /\ x.base \in Io!Span(y) /\ m.space = rcv
      BY <2>1 DEF IPart, IPar
    <2> QED
      BY <2>2
  <1>7. \A x, y \in A : ~ IPar(x, y)
    BY DEF IPar
  <1>8. ASSUME NEW x \in A PROVE \E K \in SUBSET (N \cup A) : IApex(N \cup A, x, K)
    <2>1. IApex(N \cup A, x, {})
      BY <1>6, <1>7 DEF IApex, IClosed
    <2> QED
      BY <2>1
  <1>9. ASSUME NEW x \in N PROVE \E K \in SUBSET (N \cup A) : IApex(N \cup A, x, K)
    <2>1. PICK K \in SUBSET N : IApex(N, x, K)
      BY DEF IAcyclic
    <2>2. IClosed(N \cup A, K \cup A)
      BY <2>1, <1>6, <1>7 DEF IApex, IClosed
    <2>3. IApex(N \cup A, x, K \cup A)
      BY <1>2, <2>1, <2>2 DEF IApex
    <2> QED
      BY <2>3
  <1>10. IAcyclic(N \cup A)
    BY <1>8, <1>9 DEF IAcyclic
  <1> QED
    BY <1>5, <1>10

\* A step of revocation: of the nodes H, which go with all that was derived from
\* them and has one of the rights, those stay that keep another right.
ISame(x, y) == /\ x.space = y.space /\ x.base = y.base /\ x.order = y.order
               /\ x.sub = y.sub /\ x.from = y.from
ICut(H, r, x) == IF x \in H THEN [x EXCEPT !.attr = @ \ r] ELSE x

LEMMA ISameSpan ==
    ASSUME NEW x, NEW y, ISame(x, y)
    PROVE  Io!Span(x) = Io!Span(y) /\ (IWin(x) <=> IWin(y))
  BY DEF ISame, Io!Span, IWin

LEMMA ICutIs ==
    ASSUME NEW H, NEW r, NEW x \in INodes
    PROVE  /\ ICut(H, r, x) \in INodes /\ ISame(ICut(H, r, x), x)
           /\ ICut(H, r, x).attr = IF x \in H THEN x.attr \ r ELSE x.attr
           /\ Io!Span(ICut(H, r, x)) = Io!Span(x) /\ (IWin(x) => IWin(ICut(H, r, x)))
  <1>1. /\ ICut(H, r, x) \in INodes /\ ISame(ICut(H, r, x), x)
        /\ ICut(H, r, x).attr = IF x \in H THEN x.attr \ r ELSE x.attr
    BY DEF INodes, ICut, ISame
  <1> QED
    BY <1>1, ISameSpan

LEMMA IKept ==
    ASSUME NEW N, N \subseteq INodes, NEW H, H \subseteq N, NEW r
    PROVE  \A x : x \in (N \ H) \cup Io!Kept(H, r) <=>
               \E m \in N : x = ICut(H, r, m) /\ (m \in H => x.attr # {})
  BY DEF Io!Kept, ICut

LEMMA ICutDown ==
    ASSUME Io!PortAssumption, NEW N, IShape(N), IAcyclic(N), NEW r, NEW H, H \subseteq N,
           \A x \in N, y \in H : IPar(x, y) /\ x.attr \cap r # {} => x \in H
    PROVE  IShape((N \ H) \cup Io!Kept(H, r)) /\ IAcyclic((N \ H) \cup Io!Kept(H, r))
  <1> DEFINE L == (N \ H) \cup Io!Kept(H, r)
             Cut(x) == ICut(H, r, x)
  <1>1. N \subseteq INodes /\ (\A x \in N : IWin(x)) /\ IApart(N)
    BY DEF IShape
  <1>2. \A x : x \in L <=> \E m \in N : x = Cut(m) /\ (m \in H => x.attr # {})
    BY <1>1, IKept
  <1>3. \A x \in N : /\ Cut(x) \in INodes /\ ISame(Cut(x), x) /\ IWin(Cut(x))
                     /\ Cut(x).attr = (IF x \in H THEN x.attr \ r ELSE x.attr)
                     /\ Io!Span(Cut(x)) = Io!Span(x)
    BY <1>1, ICutIs
  <1> HIDE DEF L, Cut
  <1>4. \A x, y \in N : IPar(Cut(x), Cut(y)) <=> IPar(x, y)
    BY <1>3 DEF IPar, ISame
  <1>5. \A x, y \in N : Cut(x) = Cut(y) => x = y
    <2>1. \A x \in N : x.base \in Io!Span(x)
      BY <1>1, ISpan
    <2> SUFFICES ASSUME NEW x \in N, NEW y \in N, Cut(x) = Cut(y) PROVE x = y
      OBVIOUS
    <2>2. x.space = y.space /\ Io!Span(x) = Io!Span(y)
      BY <1>3 DEF ISame
    <2> QED
      BY <1>1, <2>1, <2>2 DEF IApart
  <1>6. IApart(L)
    <2> SUFFICES ASSUME NEW c \in L, NEW d \in L, c.space = d.space, Io!Span(c) \cap Io!Span(d) # {}
                 PROVE  c = d
      BY DEF IApart
    <2>1. PICK x \in N : c = Cut(x)
      BY <1>2
    <2>2. PICK y \in N : d = Cut(y)
      BY <1>2
    <2>3. x.space = y.space /\ Io!Span(x) \cap Io!Span(y) # {}
      BY <1>3, <2>1, <2>2 DEF ISame
    <2> QED
      BY <1>1, <2>1, <2>2, <2>3 DEF IApart
  <1>7. ASSUME NEW x \in N, x.space # Kern, x \in H => Cut(x).attr # {}
        PROVE  Cut(x).attr # {} /\ \E y \in L : IPart(Cut(x), y)
    <2>1. x.attr # {} /\ \E y \in N : IPart(x, y)
      BY <1>7 DEF IShape
    <2>2. Cut(x).attr # {}
      BY <1>3, <1>7, <2>1
    <2>3. PICK y \in N : IPart(x, y)
      BY <2>1
    <2>4. Cut(x).attr \subseteq Cut(y).attr
      BY <1>3, <2>3 DEF IPart
    <2>5. Cut(y) \in L
      BY <1>2, <2>2, <2>4
    <2>6. IPart(Cut(x), Cut(y))
      BY <1>3, <1>4, <2>3, <2>4 DEF IPart
    <2> QED
      BY <2>2, <2>5, <2>6
  <1>8. IShape(L)
    <2>1. ASSUME NEW c \in L
          PROVE  c \in INodes /\ IWin(c)
                 /\ (c.space # Kern => c.attr # {} /\ \E y \in L : IPart(c, y))
      <3>1. PICK x \in N : c = Cut(x) /\ (x \in H => c.attr # {})
        BY <1>2
      <3>2. c \in INodes /\ IWin(c) /\ c.space = x.space
        BY <1>3, <3>1 DEF ISame
      <3> QED
        BY <1>7, <3>1, <3>2
    <2>2. L \subseteq INodes
      BY <2>1
    <2> QED
      BY <1>6, <2>1, <2>2 DEF IShape
  <1>9. ASSUME NEW z \in L PROVE \E K \in SUBSET L : IApex(L, z, K)
    <2>1. PICK x \in N : z = Cut(x)
      BY <1>2
    <2>2. PICK J \in SUBSET N : IApex(N, x, J)
      BY DEF IAcyclic
    <2> DEFINE K == {c \in L : \E y \in J : c = Cut(y)}
    <2>3. ASSUME NEW c \in L, NEW d \in K, IPar(c, d) PROVE c \in K
      <3>1. PICK y \in J : d = Cut(y)
        OBVIOUS
      <3>2. PICK e \in N : c = Cut(e)
        BY <1>2
      <3>3. IPar(e, y)
        BY <1>4, <2>3, <3>1, <3>2
      <3>4. e \in J
        BY <2>2, <3>3 DEF IApex, IClosed
      <3> QED
        BY <3>2, <3>4
    <2>4. z \notin K
      BY <1>5, <2>1, <2>2 DEF IApex
    <2>5. ASSUME NEW c \in L, IPar(c, z) PROVE c \in K
      <3>1. PICK e \in N : c = Cut(e)
        BY <1>2
      <3>2. IPar(e, x)
        BY <1>4, <2>1, <2>5, <3>1
      <3>3. e \in J
        BY <2>2, <3>2 DEF IApex
      <3> QED
        BY <3>1, <3>3
    <2> HIDE DEF K
    <2>6. K \subseteq L
      BY DEF K
    <2>7. IApex(L, z, K)
      BY <2>3, <2>4, <2>5, <2>6 DEF IApex, IClosed
    <2> QED
      BY <2>6, <2>7
  <1>10. IAcyclic(L)
    BY <1>9 DEF IAcyclic
  <1> QED
    BY <1>8, <1>10 DEF L

\* Space_pio::update, port by port.
LEMMA IUpdate ==
    ASSUME NEW N, NEW r, NEW p \in PDs, NEW s \in {"host", "guest"}
    PROVE  \A q : q \in Io!update(N, r)[p][s] <=>
               \/ q \in bmp[p][s] /\ ~ \E x \in N : x.space = p /\ s \in x.sub /\ q \in Io!Span(x)
               \/ \E x \in N : x.space = p /\ s \in x.sub /\ x.attr \ r # {} /\ q \in Io!Span(x)
  BY DEF Io!update

\* What Pd::delegate inserts.
IMake(m, snd, rcv, w, a, sub) ==
    [space |-> rcv, base |-> Io!clamp(m, w).base, order |-> Io!clamp(m, w).order,
     attr |-> m.attr \cap a, sub |-> sub, from |-> snd]

IFits(m, w, x) == x \in INodes /\ IWin(x) /\ Io!Span(x) = Io!Span(m) \cap Io!Span(w)
ITaken(A, snd, rcv, w, a, sub) ==
    \A x : x \in A <=>
        \E m \in nodes : /\ m.space = snd /\ Io!Span(m) \cap Io!Span(w) # {}
                         /\ x = IMake(m, snd, rcv, w, a, sub) /\ m.attr \cap a # {}
                         /\ \A y \in nodes : y.space = rcv => Io!Span(y) \cap Io!Span(x) = {}

LEMMA IMade ==
    ASSUME Io!PortAssumption, IShape(nodes), NEW w, IWin(w), NEW a, NEW snd \in PDs \cup {Kern},
           NEW rcv \in PDs, NEW sub \in SUBSET {"host", "guest"},
           NEW m \in nodes, Io!Span(m) \cap Io!Span(w) # {}
    PROVE  IFits(m, w, IMake(m, snd, rcv, w, a, sub))
  <1> DEFINE v == Io!clamp(m, w)
             x == IMake(m, snd, rcv, w, a, sub)
  <1>1. IWin(m) /\ m \in INodes
    BY DEF IShape
  <1>2. IWin(v) /\ Io!Span(v) = Io!Span(m) \cap Io!Span(w)
    BY <1>1, IClamp
  <1> HIDE DEF v
  <1>3. x = [space |-> rcv, base |-> v.base, order |-> v.order, attr |-> m.attr \cap a,
             sub |-> sub, from |-> snd]
    BY DEF v, IMake
  <1>4. x.base = v.base /\ x.order = v.order
    BY <1>3
  <1>5. x \in INodes
    BY <1>1, <1>2, <1>3 DEF INodes, IWin
  <1> QED
    BY <1>2, <1>4, <1>5 DEF IFits, IWin, Io!Span

LEMMA IDelegate ==
    ASSUME Io!PortAssumption, IShape(nodes), NEW w, IWin(w), NEW a, NEW snd \in PDs \cup {Kern},
           NEW rcv \in PDs, NEW sub \in SUBSET {"host", "guest"}
    PROVE  ITaken(Io!delegate(snd, rcv, w, a, sub), snd, rcv, w, a, sub)
  <1>1. \A m \in nodes : Io!clamp(m, w) # Io!Failed <=> Io!Span(m) \cap Io!Span(w) # {}
    BY IClamp DEF IShape
  <1>2. \A m : IMake(m, snd, rcv, w, a, sub).attr = m.attr \cap a
    BY DEF IMake
  <1>3. \A x : x \in Io!delegate(snd, rcv, w, a, sub) <=>
               \E m \in nodes :
                   /\ m.space = snd /\ Io!clamp(m, w) # Io!Failed
                   /\ x = IMake(m, snd, rcv, w, a, sub) /\ x.attr # {}
                   /\ \A y \in nodes : y.space = rcv => Io!Span(y) \cap Io!Span(x) = {}
    BY DEF Io!delegate, IMake
  <1> DEFINE D == Io!delegate(snd, rcv, w, a, sub)
             Make(m) == IMake(m, snd, rcv, w, a, sub)
             Free(x) == \A y \in nodes : y.space = rcv => Io!Span(y) \cap Io!Span(x) = {}
             Took(x) == \E m \in nodes : /\ m.space = snd /\ Io!Span(m) \cap Io!Span(w) # {}
                                        /\ x = Make(m) /\ m.attr \cap a # {} /\ Free(x)
  <1>4. \A m : Make(m).attr = m.attr \cap a
    BY <1>2
  <1>5. \A x : x \in D <=> \E m \in nodes : /\ m.space = snd /\ Io!clamp(m, w) # Io!Failed
                                          /\ x = Make(m) /\ x.attr # {} /\ Free(x)
    BY <1>3
  <1> HIDE DEF D, Make, Free
  <1>6. ASSUME NEW x, x \in D PROVE Took(x)
    <2>1. PICK m \in nodes : /\ m.space = snd /\ Io!clamp(m, w) # Io!Failed
                            /\ x = Make(m) /\ x.attr # {} /\ Free(x)
      BY <1>5, <1>6
    <2>2. Io!Span(m) \cap Io!Span(w) # {} /\ m.attr \cap a # {}
      BY <1>1, <1>4, <2>1
    <2> QED
      BY <2>1, <2>2
  <1>7. ASSUME NEW x, Took(x) PROVE x \in D
    <2>1. PICK m \in nodes : /\ m.space = snd /\ Io!Span(m) \cap Io!Span(w) # {}
                            /\ x = Make(m) /\ m.attr \cap a # {} /\ Free(x)
      BY <1>7
    <2>2. Io!clamp(m, w) # Io!Failed /\ x.attr # {}
      BY <1>1, <1>4, <2>1
    <2> QED
      BY <1>5, <2>1, <2>2
  <1>8. \A x : x \in D <=> Took(x)
    BY <1>6, <1>7
  <1> QED
    BY <1>8 DEF ITaken, D, Make, Free

LEMMA IDelegates ==
    ASSUME Io!PortAssumption, IoInv, NEW w, IWin(w), NEW a, NEW snd \in PDs \cup {Kern},
           NEW rcv \in PDs, NEW sub \in SUBSET {"host", "guest"},
           NEW A, ITaken(A, snd, rcv, w, a, sub)
    PROVE  /\ IShape(nodes \cup A) /\ IAcyclic(nodes \cup A)
           /\ IBits(nodes \cup A, Io!update(A, {}))
  <1> DEFINE Make(m) == IMake(m, snd, rcv, w, a, sub)
  <1>1. IShape(nodes) /\ IAcyclic(nodes) /\ IBits(nodes, bmp)
    BY DEF IoInv
  <1>2. \A x : x \in A <=>
               \E m \in nodes :
                   /\ m.space = snd /\ Io!Span(m) \cap Io!Span(w) # {}
                   /\ x = Make(m) /\ m.attr \cap a # {}
                   /\ \A y \in nodes : y.space = rcv => Io!Span(y) \cap Io!Span(x) = {}
    BY DEF ITaken
  <1>3. \A m \in nodes : Io!Span(m) \cap Io!Span(w) # {} =>
            Make(m) \in INodes /\ IWin(Make(m)) /\ Io!Span(Make(m)) = Io!Span(m) \cap Io!Span(w)
    <2>1. \A m \in nodes : Io!Span(m) \cap Io!Span(w) # {} => IFits(m, w, Make(m))
      BY <1>1, IMade
    <2> QED
      BY <2>1 DEF IFits
  <1>4. \A m : /\ Make(m).space = rcv /\ Make(m).from = snd /\ Make(m).attr = m.attr \cap a
              /\ Make(m).sub = sub
    BY DEF IMake
  <1> HIDE DEF Make
  <1>5. ASSUME NEW x \in A
        PROVE  /\ x \in INodes /\ IWin(x) /\ x.space = rcv /\ x.from = snd /\ x.attr # {} /\ snd # rcv
               /\ \E y \in nodes : IPart(x, y) /\ y.space = snd
               /\ \A y \in nodes : y.space = rcv => Io!Span(y) \cap Io!Span(x) = {}
    <2>1. PICK m \in nodes :
                   /\ m.space = snd /\ Io!Span(m) \cap Io!Span(w) # {}
                   /\ x = Make(m) /\ m.attr \cap a # {}
                   /\ \A y \in nodes : y.space = rcv => Io!Span(y) \cap Io!Span(x) = {}
      BY <1>2
    <2>2. x \in INodes /\ IWin(x) /\ Io!Span(x) = Io!Span(m) \cap Io!Span(w)
      BY <1>3, <2>1
    <2>3. x.space = rcv /\ x.from = snd /\ x.attr = m.attr \cap a
      BY <1>4, <2>1
    <2>4. x.base \in Io!Span(x)
      BY <2>2, ISpan
    <2>5. snd # rcv
      BY <2>1, <2>2
    <2>6. rcv # Kern
      BY DEF Io!PortAssumption
    <2>7. IPart(x, m)
      BY <2>1, <2>2, <2>3, <2>4, <2>6 DEF IPart, IPar
    <2> QED
      BY <2>1, <2>2, <2>3, <2>5, <2>7
  <1>6. IApart(A)
    <2> SUFFICES ASSUME NEW x \in A, NEW y \in A, Io!Span(x) \cap Io!Span(y) # {} PROVE x = y
      BY DEF IApart
    <2>1. PICK m \in nodes : m.space = snd /\ Io!Span(m) \cap Io!Span(w) # {} /\ x = Make(m)
      BY <1>2
    <2>2. PICK n \in nodes : n.space = snd /\ Io!Span(n) \cap Io!Span(w) # {} /\ y = Make(n)
      BY <1>2
    <2>3. Io!Span(m) \cap Io!Span(n) # {}
      BY <1>3, <2>1, <2>2
    <2> QED
      BY <1>1, <2>1, <2>2, <2>3 DEF IShape, IApart
  <1>7. IShape(nodes \cup A) /\ IAcyclic(nodes \cup A)
    <2>1. CASE A = {}
      <3>1. nodes \cup A = nodes
        BY <2>1
      <3> QED
        BY <1>1, <3>1
    <2>2. CASE A # {}
      <3>1. A \subseteq INodes /\ snd # rcv
        BY <1>5, <2>2
      <3> QED
        BY <1>1, <1>5, <1>6, <3>1, IAdd
    <2> QED
      BY <2>1, <2>2
  <1>8. IBits(nodes \cup A, Io!update(A, {}))
    <2> SUFFICES ASSUME NEW p \in PDs, NEW s \in {"host", "guest"}, NEW q
                 PROVE  q \in Io!update(A, {})[p][s] <=>
                            \E x \in nodes \cup A : x.space = p /\ s \in x.sub /\ q \in Io!Span(x)
      BY DEF IBits
    <2>1. q \in bmp[p][s] <=> \E x \in nodes : x.space = p /\ s \in x.sub /\ q \in Io!Span(x)
      BY <1>1 DEF IBits
    <2>2. \A x \in A : x.attr \ {} # {}
      BY <1>5
    <2>3. q \in Io!update(A, {})[p][s] <=>
               \/ q \in bmp[p][s] /\ ~ \E x \in A : x.space = p /\ s \in x.sub /\ q \in Io!Span(x)
               \/ \E x \in A : x.space = p /\ s \in x.sub /\ x.attr \ {} # {} /\ q \in Io!Span(x)
      BY IUpdate
    <2> QED
      BY <2>1, <2>2, <2>3
  <1> QED
    BY <1>7, <1>8

\* The nodes that a revocation demotes.
IMine(p, w) == {x \in nodes : x.space = p /\ Io!Span(x) \cap Io!Span(w) # {}}
IKids(p, w) == {x \in nodes : Io!Span(x) \cap Io!Span(w) # {} /\ \E y \in IMine(p, w) : IPar(x, y)}
IFirst(p, w, self) == IF self THEN IMine(p, w) ELSE IKids(p, w)

LEMMA IDemoted ==
    ASSUME Io!PortAssumption, IoInv, NEW p, NEW w, IWin(w), NEW r, NEW self \in BOOLEAN
    PROVE  Io!Demoted(p, w, r, self) = {x \in Io!Derived(IFirst(p, w, self)) : x.attr \cap r # {}}
  <1> DEFINE mine == {n \in nodes : n.space = p /\ Io!clamp(n, w) # Io!Failed}
             kids == {n \in nodes : Io!prnt(n) \cap mine # {} /\ Io!clamp(n, w) # Io!Failed}
  <1>1. \A m \in nodes : Io!clamp(m, w) # Io!Failed <=> Io!Span(m) \cap Io!Span(w) # {}
    BY IClamp DEF IoInv, IShape
  <1>2. Io!Demoted(p, w, r, self) =
            {x \in Io!Derived(IF self THEN mine ELSE kids) : x.attr \cap r # {}}
    BY DEF Io!Demoted
  <1>3. mine = IMine(p, w)
    BY <1>1 DEF IMine
  <1>4. kids = IKids(p, w)
    BY <1>1, <1>3 DEF Io!prnt, IPar, IKids
  <1> HIDE DEF mine, kids
  <1> QED
    BY <1>2, <1>3, <1>4 DEF IFirst

LEMMA IRevokes ==
    ASSUME Io!PortAssumption, IoInv, NEW r, NEW H, H \subseteq nodes,
           \A x \in nodes, y \in H : IPar(x, y) /\ x.attr \cap r # {} => x \in H
    PROVE  /\ IShape((nodes \ H) \cup Io!Kept(H, r)) /\ IAcyclic((nodes \ H) \cup Io!Kept(H, r))
           /\ IBits((nodes \ H) \cup Io!Kept(H, r), Io!update(H, r))
  <1> DEFINE L == (nodes \ H) \cup Io!Kept(H, r)
  <1>1. IShape(nodes) /\ IAcyclic(nodes) /\ IBits(nodes, bmp)
    BY DEF IoInv
  <1>5. nodes \subseteq INodes
    BY <1>1 DEF IShape
  <1>6. IShape(L) /\ IAcyclic(L)
    BY <1>1, ICutDown
  <1>7. \A x : x \in L <=> \E m \in nodes : x = ICut(H, r, m) /\ (m \in H => x.attr # {})
    BY <1>5, IKept
  <1>8. \A x \in nodes : /\ ICut(H, r, x).space = x.space /\ ICut(H, r, x).sub = x.sub
                         /\ Io!Span(ICut(H, r, x)) = Io!Span(x)
                         /\ ICut(H, r, x).attr = (IF x \in H THEN x.attr \ r ELSE x.attr)
    <2>1. \A x \in nodes : /\ ISame(ICut(H, r, x), x) /\ Io!Span(ICut(H, r, x)) = Io!Span(x)
                           /\ ICut(H, r, x).attr = (IF x \in H THEN x.attr \ r ELSE x.attr)
      BY <1>5, ICutIs
    <2> QED
      BY <2>1 DEF ISame
  <1> HIDE DEF L
  <1>9. IBits(L, Io!update(H, r))
    <2> SUFFICES ASSUME NEW d \in PDs, NEW s \in {"host", "guest"}, NEW q
                 PROVE  q \in Io!update(H, r)[d][s] <=>
                            \E x \in L : x.space = d /\ s \in x.sub /\ q \in Io!Span(x)
      BY DEF IBits
    <2>1. q \in bmp[d][s] <=> \E x \in nodes : x.space = d /\ s \in x.sub /\ q \in Io!Span(x)
      BY <1>1 DEF IBits
    <2>2. q \in Io!update(H, r)[d][s] <=>
               \/ q \in bmp[d][s] /\ ~ \E x \in H : x.space = d /\ s \in x.sub /\ q \in Io!Span(x)
               \/ \E x \in H : x.space = d /\ s \in x.sub /\ x.attr \ r # {} /\ q \in Io!Span(x)
      BY IUpdate
    <2>3. ASSUME NEW x \in nodes, x.space = d, s \in x.sub, q \in Io!Span(x),
                 x \in H => x.attr \ r # {}
          PROVE  \E y \in L : y.space = d /\ s \in y.sub /\ q \in Io!Span(y)
      <3>1. ICut(H, r, x) \in L
        BY <1>7, <1>8, <2>3
      <3> QED
        BY <1>8, <2>3, <3>1
    <2>4. ASSUME q \in Io!update(H, r)[d][s]
          PROVE  \E x \in L : x.space = d /\ s \in x.sub /\ q \in Io!Span(x)
      <3>1. CASE q \in bmp[d][s] /\ ~ \E x \in H : x.space = d /\ s \in x.sub /\ q \in Io!Span(x)
        BY <2>1, <2>3, <3>1
      <3>2. CASE \E x \in H : x.space = d /\ s \in x.sub /\ x.attr \ r # {} /\ q \in Io!Span(x)
        BY <2>3, <3>2
      <3> QED
        BY <2>2, <2>4, <3>1, <3>2
    <2>5. ASSUME NEW y \in L, y.space = d, s \in y.sub, q \in Io!Span(y)
          PROVE  q \in Io!update(H, r)[d][s]
      <3>1. PICK x \in nodes : y = ICut(H, r, x) /\ (x \in H => y.attr # {})
        BY <1>7
      <3>2. x.space = d /\ s \in x.sub /\ q \in Io!Span(x) /\ (x \in H => x.attr \ r # {})
        BY <1>8, <2>5, <3>1
      <3>3. CASE x \in H
        BY <2>2, <3>2, <3>3
      <3>4. CASE x \notin H
        <4>1. \A z \in H : z.space = d /\ q \in Io!Span(z) => z = x
          BY <1>1, <3>2 DEF IShape, IApart
        <4> QED
          BY <2>1, <2>2, <3>2, <3>4, <4>1
      <3> QED
        BY <3>3, <3>4
    <2> QED
      BY <2>4, <2>5
  <1> QED
    BY <1>6, <1>9 DEF L

\* The windows that callers pass.
LEMMA IAligned ==
    ASSUME Io!PortAssumption
    PROVE  /\ \A v \in Io!Aligned : IWin(v)
           /\ \A v \in Receive \cup Io!Crds : IWin(v)
  <1>1. \A v \in Io!Aligned : IWin(v)
    BY DEF Io!Aligned, Io!Windows, Io!Ports, IWin
  <1>2. ASSUME NEW v, [base |-> v.base, order |-> v.order] \in Io!Aligned PROVE IWin(v)
    <2>1. IWin([base |-> v.base, order |-> v.order])
      BY <1>1, <1>2
    <2> QED
      BY <2>1 DEF IWin
  <1>3. ASSUME NEW v \in Receive PROVE IWin(v)
    <2>1. [base |-> v.base, order |-> v.order] \in Io!Aligned
      BY Zenon DEF Io!PortAssumption
    <2> QED
      BY <1>2, <2>1
  <1>4. ASSUME NEW v \in Io!Crds PROVE IWin(v)
    <2>1. PICK z \in Io!Aligned : v.base = z.base /\ v.order = z.order
      BY DEF Io!Crds
    <2> QED
      BY <1>1, <2>1 DEF IWin
  <1> QED
    BY <1>1, <1>3, <1>4

LEMMA IoInit ==
    ASSUME Io!PortAssumption, Io!Init
    PROVE  IoInv
  <1> DEFINE k == [space |-> Kern, base |-> 0, order |-> PortBits, attr |-> Rights,
                   sub |-> {}, from |-> Kern]
  <1>1. nodes = {k} /\ \A p \in PDs, s \in {"host", "guest"} : bmp[p][s] = {}
    BY DEF Io!Init
  <1>2. PortBits \in 0..PortBits /\ Kern \notin PDs
    BY DEF Io!PortAssumption
  <1>3. k.space = Kern /\ k.sub = {} /\ k \in INodes /\ k.base = 0 /\ k.order = PortBits
    BY <1>2 DEF INodes
  <1>4. IWin(k)
    <2>1. 2^PortBits \in Nat \ {0}
      BY <1>2, IPowers
    <2>2. 0 % 2^PortBits = 0
      BY <2>1
    <2> QED
      BY <1>2, <1>3, <2>2 DEF IWin
  <1> HIDE DEF k
  <1>5. IShape(nodes)
    BY <1>1, <1>3, <1>4 DEF IShape, IApart
  <1>6. IAcyclic(nodes)
    <2>1. IApex(nodes, k, {})
      BY <1>1, <1>3 DEF IApex, IClosed, IPar
    <2> QED
      BY <1>1, <2>1 DEF IAcyclic
  <1>7. IBits(nodes, bmp)
    BY <1>1, <1>3 DEF IBits
  <1> QED
    BY <1>5, <1>6, <1>7 DEF IoInv

LEMMA IoStep ==
    ASSUME Io!PortAssumption, IoInv, [Io!Next]_Io!vars
    PROVE  IoInv'
  <1>1. CASE UNCHANGED Io!vars
    <2>1. nodes' = nodes /\ bmp' = bmp
      BY <1>1 DEF Io!vars
    <2>2. IShape(nodes') /\ IAcyclic(nodes') /\ IBits(nodes', bmp')
      BY <2>1 DEF IoInv
    <2> QED
      BY <2>2 DEF IoInv
  <1>2. ASSUME NEW kind \in {"DELEGATE", "TRANS_DELEGATE"}, NEW snd \in PDs, NEW rcv \in PDs,
               NEW win \in Receive, NEW crd \in Io!Crds, NEW hv \in BOOLEAN,
               NEW sub \in Subs[rcv], Io!xfer_item(kind, snd, rcv, win, crd, sub, hv)
        PROVE  IoInv'
    <2> DEFINE from == IF hv THEN Kern ELSE snd
               w == Io!clamp(crd, win)
               a == crd.attr \cap win.attr
               A == Io!delegate(from, rcv, w, a, sub)
    <2>1. Io!del_crd(from, rcv, win, crd, sub)
      BY <1>2 DEF Io!xfer_item
    <2>2. from \in PDs \cup {Kern}
      OBVIOUS
    <2> HIDE DEF from
    <2>3. /\ Io!Span(crd) \cap Io!Span(win) # {}
          /\ nodes' = nodes \cup A /\ bmp' = Io!update(A, {})
      BY <2>1 DEF Io!del_crd
    <2>4. sub \in SUBSET {"host", "guest"}
      BY DEF Io!PortAssumption
    <2>5. IWin(crd) /\ IWin(win)
      BY IAligned
    <2>6. IWin(w)
      BY <2>3, <2>5, IClamp
    <2> HIDE DEF w, a
    <2>7. ITaken(A, from, rcv, w, a, sub)
      BY <2>2, <2>4, <2>6, IDelegate DEF IoInv
    <2> HIDE DEF A
    <2>8. /\ IShape(nodes \cup A) /\ IAcyclic(nodes \cup A)
          /\ IBits(nodes \cup A, Io!update(A, {}))
      BY <2>2, <2>4, <2>6, <2>7, IDelegates
    <2>9. IShape(nodes') /\ IAcyclic(nodes') /\ IBits(nodes', bmp')
      BY <2>3, <2>8
    <2> QED
      BY <2>9 DEF IoInv
  <1>3. ASSUME NEW p \in PDs, NEW w \in Io!Aligned, NEW r \in Masks, NEW self \in BOOLEAN,
               Io!rev_crd(p, w, r, self)
        PROVE  IoInv'
    <2> DEFINE H == Io!Demoted(p, w, r, self)
               L == (nodes \ H) \cup Io!Kept(H, r)
    <2>1. nodes' = L /\ bmp' = Io!update(H, r)
      BY <1>3 DEF Io!rev_crd
    <2>2. IWin(w)
      BY IAligned
    <2> DEFINE top == IFirst(p, w, self)
    <2>7. top \in SUBSET nodes
      BY DEF IFirst, IMine, IKids
    <2>3. H = {x \in Io!Derived(top) : x.attr \cap r # {}}
      BY <2>2, IDemoted
    <2> HIDE DEF H, top
    <2>4. H \subseteq nodes /\ \A x \in nodes, y \in H : IPar(x, y) /\ x.attr \cap r # {} => x \in H
      BY <2>3, <2>7, IDerived DEF IClosed
    <2>5. IShape(L) /\ IAcyclic(L) /\ IBits(L, Io!update(H, r))
      BY <2>4, IRevokes
    <2> HIDE DEF L
    <2>6. IShape(nodes') /\ IAcyclic(nodes') /\ IBits(nodes', bmp')
      BY <2>1, <2>5
    <2> QED
      BY <2>6 DEF IoInv
  <1> QED
    BY <1>1, <1>2, <1>3 DEF Io!Next

\* What the properties say, from the invariant.
LEMMA IPortsHeld ==
    ASSUME Io!PortAssumption, IoInv
    PROVE  Io!PortsHeld
  <1>1. IShape(nodes) /\ IBits(nodes, bmp)
    BY DEF IoInv
  <1>2. ASSUME NEW p \in PDs, NEW s \in {"host", "guest"}
        PROVE  bmp[p][s] = Io!Held({n \in nodes : s \in n.sub}, p)
    <2>1. \A q : q \in bmp[p][s] <=> \E x \in nodes : x.space = p /\ s \in x.sub /\ q \in Io!Span(x)
      BY <1>1 DEF IBits
    <2>2. \A q : q \in Io!Held({n \in nodes : s \in n.sub}, p)
                <=> \E x \in {n \in nodes : s \in n.sub} : x.space = p /\ q \in Io!Span(x)
      BY IHeld
    <2> QED
      BY <2>1, <2>2
  <1>3. ASSUME NEW n \in nodes, n.space # Kern
        PROVE  /\ n.attr # {} /\ \E m \in nodes : Io!prnt(n) = {m}
               /\ \A m \in Io!prnt(n) : Io!Span(n) \subseteq Io!Span(m) /\ n.attr \subseteq m.attr
    <2>1. n.attr # {} /\ \E y \in nodes : IPart(n, y)
      BY <1>1, <1>3 DEF IShape
    <2>2. PICK y \in nodes : IPart(n, y)
      BY <2>1
    <2>3. \A z \in nodes : IPar(n, z) => z = y
      BY <1>1, <2>2, IParent DEF IPart
    <2>4. Io!prnt(n) = {z \in nodes : IPar(n, z)}
      BY DEF Io!prnt, IPar
    <2>5. Io!prnt(n) = {y}
      BY <2>2, <2>3, <2>4 DEF IPart
    <2> QED
      BY <2>1, <2>2, <2>5 DEF IPart
  <1> QED
    BY <1>2, <1>3 DEF Io!PortsHeld

\* Delegation, revocation and translation, in every state of the invariant.
LEMMA IDelegationExact ==
    ASSUME Io!PortAssumption, IoInv
    PROVE  Io!DelegationExact
  <1> SUFFICES ASSUME NEW snd \in PDs \cup {Kern}, NEW rcv \in PDs, NEW w \in Io!Aligned, NEW a \in Masks
               PROVE  LET N    == Io!delegate(snd, rcv, w, a, {})
                          need == {q \in Io!Span(w) : \E n \in Io!tree_lookup(snd, q) : n.attr \cap a # {}}
                      IN  /\ Io!Held(N, rcv) \subseteq need \ Io!Held(nodes, rcv)
                          /\ need \cap Io!Held(nodes, rcv) = {} => Io!Held(N, rcv) = need
    BY DEF Io!DelegationExact
  <1> DEFINE Make(m) == IMake(m, snd, rcv, w, a, {})
             A == Io!delegate(snd, rcv, w, a, {})
             need == {q \in Io!Span(w) : \E n \in Io!tree_lookup(snd, q) : n.attr \cap a # {}}
  <1>1. IWin(w) /\ IShape(nodes)
    BY IAligned DEF IoInv
  <1>2. ITaken(A, snd, rcv, w, a, {})
    BY <1>1, IDelegate
  <1>3. \A x : x \in A <=>
               \E m \in nodes :
                   /\ m.space = snd /\ Io!Span(m) \cap Io!Span(w) # {}
                   /\ x = Make(m) /\ m.attr \cap a # {}
                   /\ \A y \in nodes : y.space = rcv => Io!Span(y) \cap Io!Span(x) = {}
    BY <1>2 DEF ITaken
  <1>4. \A m \in nodes : Io!Span(m) \cap Io!Span(w) # {} => Io!Span(Make(m)) = Io!Span(m) \cap Io!Span(w)
    <2>1. \A m \in nodes : Io!Span(m) \cap Io!Span(w) # {} => IFits(m, w, Make(m))
      BY <1>1, IMade
    <2> QED
      BY <2>1 DEF IFits
  <1>5. \A m : Make(m).space = rcv
    BY DEF IMake
  <1>6. \A q : q \in need <=> q \in Io!Span(w) /\ \E m \in nodes : /\ m.space = snd /\ q \in Io!Span(m)
                                                               /\ m.attr \cap a # {}
    BY DEF Io!tree_lookup
  <1>7. \A q : q \in Io!Held(nodes, rcv) <=> \E x \in nodes : x.space = rcv /\ q \in Io!Span(x)
    BY IHeld
  <1>8. \A q : q \in Io!Held(A, rcv) <=> \E x \in A : x.space = rcv /\ q \in Io!Span(x)
    BY IHeld
  <1> HIDE DEF Make, A, need
  <1>9. ASSUME NEW q \in Io!Held(A, rcv) PROVE q \in need /\ q \notin Io!Held(nodes, rcv)
    <2>1. PICK x \in A : q \in Io!Span(x)
      BY <1>8
    <2>2. PICK m \in nodes :
                   /\ m.space = snd /\ Io!Span(m) \cap Io!Span(w) # {}
                   /\ x = Make(m) /\ m.attr \cap a # {}
                   /\ \A y \in nodes : y.space = rcv => Io!Span(y) \cap Io!Span(x) = {}
      BY <1>3
    <2>3. q \in Io!Span(m) /\ q \in Io!Span(w)
      BY <1>4, <2>1, <2>2
    <2> QED
      BY <1>6, <1>7, <2>1, <2>2, <2>3
  <1>10. ASSUME need \cap Io!Held(nodes, rcv) = {}, NEW q \in need PROVE q \in Io!Held(A, rcv)
    <2>1. PICK m \in nodes : m.space = snd /\ q \in Io!Span(m) /\ m.attr \cap a # {} /\ q \in Io!Span(w)
      BY <1>6
    <2>2. Io!Span(m) \cap Io!Span(w) \subseteq need
      BY <1>6, <2>1
    <2>3. Io!Span(Make(m)) = Io!Span(m) \cap Io!Span(w)
      BY <1>4, <2>1
    <2>4. \A y \in nodes : y.space = rcv => Io!Span(y) \cap Io!Span(Make(m)) = {}
      BY <1>7, <1>10, <2>2, <2>3
    <2>5. Make(m) \in A
      BY <1>3, <2>1, <2>4
    <2> QED
      BY <1>5, <1>8, <2>1, <2>3, <2>5
  <1> QED
    BY <1>9, <1>10 DEF A, need

LEMMA IRevocationExact ==
    ASSUME Io!PortAssumption, IoInv
    PROVE  Io!RevocationExact
  <1> SUFFICES ASSUME NEW p \in PDs, NEW w \in Io!Aligned, NEW r \in Masks, NEW self \in BOOLEAN,
                      NEW mine, mine = {n \in nodes : n.space = p /\ Io!Span(n) \cap Io!Span(w) # {}},
                      NEW H, H = Io!Demoted(p, w, r, self)
               PROVE  LET got == {n \in Io!Derived(mine) : self \/ n \notin mine}
                          left == (nodes \ H) \cup Io!Kept(H, r)
                      IN  /\ H \subseteq got
                          /\ \A n \in got : Io!Span(n) \cap Io!Span(w) # {} =>
                                 ~\E m \in left : /\ m.space = n.space /\ m.attr \cap r # {}
                                                  /\ Io!Span(m) \cap Io!Span(n) \cap Io!Span(w) # {}
    BY DEF Io!RevocationExact
  <1> DEFINE top == IFirst(p, w, self)
  <1>1. IWin(w) /\ IShape(nodes) /\ IAcyclic(nodes) /\ nodes \subseteq INodes
    BY IAligned DEF IoInv, IShape
  <1>2. H = {x \in Io!Derived(top) : x.attr \cap r # {}}
    BY <1>1, IDemoted
  <1>3. /\ mine \in SUBSET nodes /\ top \in SUBSET nodes
        /\ self => top = mine
        /\ ~ self => top = {x \in nodes : Io!Span(x) \cap Io!Span(w) # {} /\ \E y \in mine : IPar(x, y)}
    BY DEF IFirst, IMine, IKids
  <1> HIDE DEF top
  <1>4. \A x, y \in nodes : IPar(x, y) => Io!Span(x) \subseteq Io!Span(y)
    BY <1>1, IParent DEF IPart
  <1>5. IClosed(nodes, Io!Derived(mine)) /\ mine \subseteq Io!Derived(mine)
    BY <1>3, IDerived
  <1>6. IClosed(nodes, Io!Derived(top)) /\ top \subseteq Io!Derived(top)
    BY <1>3, IDerived
  <1>7. Io!Derived(top) \subseteq Io!Derived(mine)
    <2>1. top \subseteq Io!Derived(mine)
      <3>1. CASE self
        BY <1>3, <1>5, <3>1
      <3>2. CASE ~ self
        <4>1. \A x \in top : x \in nodes /\ \E y \in mine : IPar(x, y)
          BY <1>3, <3>2
        <4> QED
          BY <1>5, <4>1 DEF IClosed
      <3> QED
        BY <3>1, <3>2
    <2> QED
      BY <1>3, <1>5, <2>1, IDerived DEF IClosed
  <1>8. ASSUME ~ self, NEW n \in mine, n \in Io!Derived(top) PROVE FALSE
    <2> DEFINE Below(m) == {c \in nodes : IPar(c, m)}
               K == {x \in nodes : \E m \in mine : Io!Span(x) \subseteq Io!Span(m)
                                                  /\ x \in Io!Derived(Below(m))}
    <2>1. \A m \in nodes : IClosed(nodes, Io!Derived(Below(m))) /\ Below(m) \subseteq Io!Derived(Below(m))
      BY IDerived
    <2>2. ASSUME NEW x \in nodes, NEW y \in K, IPar(x, y) PROVE x \in K
      <3>1. PICK m \in mine : Io!Span(y) \subseteq Io!Span(m) /\ y \in Io!Derived(Below(m))
        OBVIOUS
      <3>2. x \in Io!Derived(Below(m))
        BY <1>3, <2>1, <2>2, <3>1 DEF IClosed
      <3>3. Io!Span(x) \subseteq Io!Span(m)
        BY <1>4, <2>2, <3>1
      <3> QED
        BY <3>2, <3>3
    <2>3. ASSUME NEW x \in top PROVE x \in K
      <3>1. PICK y \in mine : x \in nodes /\ IPar(x, y)
        BY <1>3, <1>8
      <3>2. x \in Below(y)
        BY <3>1
      <3> QED
        BY <1>3, <1>4, <2>1, <3>1, <3>2
    <2>4. K \in SUBSET nodes /\ IClosed(nodes, K) /\ top \subseteq K
      BY <2>2, <2>3 DEF IClosed
    <2>5. n \in K
      <3> HIDE DEF K
      <3> QED
        BY <1>3, <1>8, <2>4, IDerived
    <2>6. PICK m \in mine : Io!Span(n) \subseteq Io!Span(m) /\ n \in Io!Derived(Below(m))
      BY <2>5
    <2>7. n = m
      <3>1. n.base \in Io!Span(n)
        BY <1>1, <1>3, ISpan DEF IShape
      <3> QED
        BY <1>1, <1>3, <2>6, <3>1 DEF IShape, IApart
    <2>8. PICK J \in SUBSET nodes : IApex(nodes, n, J)
      BY <1>1, <1>3 DEF IAcyclic
    <2>9. Below(n) \in SUBSET nodes /\ Below(n) \subseteq J /\ IClosed(nodes, J) /\ n \notin J
      BY <2>8 DEF IApex
    <2> HIDE DEF Below
    <2>10. Io!Derived(Below(n)) \subseteq J
      BY <2>9, IDerived
    <2> QED
      BY <2>6, <2>7, <2>9, <2>10
  <1>9. ASSUME ~ self, NEW n \in Io!Derived(mine), n \notin mine, Io!Span(n) \cap Io!Span(w) # {}
        PROVE  n \in Io!Derived(top)
    <2> DEFINE K == mine \cup Io!Derived(top) \cup {x \in nodes : Io!Span(x) \cap Io!Span(w) = {}}
    <2>1. ASSUME NEW x \in nodes, NEW y \in K, IPar(x, y) PROVE x \in K
      <3>1. CASE y \in mine
        BY <1>3, <1>6, <1>9, <2>1, <3>1
      <3>2. CASE y \in Io!Derived(top)
        BY <1>6, <2>1, <3>2 DEF IClosed
      <3>3. CASE y \in nodes /\ Io!Span(y) \cap Io!Span(w) = {}
        BY <1>4, <2>1, <3>3
      <3> QED
        BY <3>1, <3>2, <3>3
    <2>2. K \in SUBSET nodes /\ IClosed(nodes, K) /\ mine \subseteq K
      BY <1>3, <1>6, <2>1 DEF IClosed
    <2>3. n \in K
      <3> HIDE DEF K
      <3> QED
        BY <1>3, <2>2, IDerived
    <2> QED
      BY <1>9, <2>3
  <1>10. ASSUME NEW n \in H PROVE n \in Io!Derived(mine) /\ (self \/ n \notin mine)
    BY <1>2, <1>7, <1>8
  <1>11. ASSUME NEW n \in Io!Derived(mine), self \/ n \notin mine, Io!Span(n) \cap Io!Span(w) # {},
                NEW m \in (nodes \ H) \cup Io!Kept(H, r), m.space = n.space, m.attr \cap r # {},
                Io!Span(m) \cap Io!Span(n) # {}
         PROVE  FALSE
    <2>1. n \in Io!Derived(top)
      BY <1>3, <1>9, <1>11
    <2>2. n \in nodes /\ H \subseteq nodes
      BY <1>2, <1>5, <1>6 DEF IClosed
    <2>3. m \in nodes \ H
      <3> SUFFICES ASSUME m \in Io!Kept(H, r) PROVE FALSE
        BY <1>11
      <3>1. PICK x \in H : m = [x EXCEPT !.attr = @ \ r]
        BY DEF Io!Kept
      <3>2. x \in INodes
        BY <1>1, <2>2
      <3>3. m.attr = x.attr \ r
        BY <3>1, <3>2 DEF INodes
      <3> QED
        BY <1>11, <3>3
    <2>4. m = n
      BY <1>1, <1>11, <2>2, <2>3 DEF IShape, IApart
    <2> QED
      BY <1>2, <1>11, <2>1, <2>3, <2>4
  <1> QED
    BY <1>10, <1>11

\* What Pd::xlt_crd returns, if it returns something.
IResult(D, B, win, w) ==
    IF B = {} THEN Io!Crd0
    ELSE LET m == CHOOSE n \in D : TRUE
             v == Io!clamp(Io!clamp(m, w), Io!clamp(CHOOSE n \in B : TRUE, win))
         IN  IF v = Io!Failed THEN Io!Crd0 ELSE [base |-> v.base, order |-> v.order, attr |-> m.attr]

LEMMA IResultIs ==
    ASSUME NEW D, NEW B, NEW win, NEW w, IResult(D, B, win, w) # Io!Crd0, D # {}
    PROVE  \E m \in D, u \in B :
               LET v == Io!clamp(Io!clamp(m, w), Io!clamp(u, win))
               IN  v # Io!Failed /\ IResult(D, B, win, w) = [base |-> v.base, order |-> v.order, attr |-> m.attr]
  <1> DEFINE m == CHOOSE n \in D : TRUE
             u == CHOOSE n \in B : TRUE
             v == Io!clamp(Io!clamp(m, w), Io!clamp(u, win))
  <1>1. m \in D
    OBVIOUS
  <1>2. IResult(D, B, win, w) = IF B = {} THEN Io!Crd0
            ELSE IF v = Io!Failed THEN Io!Crd0 ELSE [base |-> v.base, order |-> v.order, attr |-> m.attr]
    BY DEF IResult
  <1>3. B # {} => u \in B
    OBVIOUS
  <1> HIDE DEF m, u
  <1> QED
    BY <1>1, <1>2, <1>3

LEMMA IXlt ==
    ASSUME NEW snd, NEW rcv, NEW win, NEW w
    PROVE  Io!xlt_crd(snd, rcv, win, w) =
               LET D == Io!tree_lookup(snd, w.base) IN IResult(D, Io!Above(D, snd, rcv, win), win, w)
  BY DEF Io!xlt_crd, IResult

LEMMA ITranslationExact ==
    ASSUME Io!PortAssumption, IoInv
    PROVE  Io!TranslationExact
  <1> SUFFICES ASSUME NEW snd \in PDs, NEW rcv \in PDs, NEW win \in Io!Aligned, NEW w \in Io!Aligned,
                      Io!xlt_crd(snd, rcv, win, w) # Io!Crd0
               PROVE  LET x == Io!xlt_crd(snd, rcv, win, w)
                      IN  /\ x.base % 2^x.order = 0
                          /\ Io!Span(x) \subseteq Io!Span(win) \cap Io!Span(w)
                          /\ \A q \in Io!Span(x) :
                                 \E n \in Io!tree_lookup(snd, q), m \in Io!tree_lookup(rcv, q) :
                                     x.attr = n.attr /\ n \in Io!Derived({m})
    BY DEF Io!TranslationExact
  <1> DEFINE x == Io!xlt_crd(snd, rcv, win, w)
             mdb == Io!tree_lookup(snd, w.base)
             above == Io!Above(mdb, snd, rcv, win)
  <1>1. IShape(nodes) /\ IWin(win) /\ IWin(w) /\ \A n \in nodes : IWin(n)
    BY IAligned DEF IoInv, IShape
  <1>2. x = IResult(mdb, above, win, w)
    BY IXlt
  <1>3. x # Io!Crd0
    OBVIOUS
  <1>4. \A n \in above : /\ n \in nodes /\ n.space = rcv /\ Io!clamp(n, win) # Io!Failed
                         /\ \E z \in mdb : z \in Io!Derived({n})
    BY DEF Io!Above
  <1>5. above = {} => x = Io!Crd0
    BY <1>2 DEF IResult
  <1> HIDE DEF x, mdb, above
  <1>6. mdb # {}
    BY <1>3, <1>4, <1>5
  <1>7. PICK m \in mdb : \E u \in above :
               LET v == Io!clamp(Io!clamp(m, w), Io!clamp(u, win))
               IN  v # Io!Failed /\ x = [base |-> v.base, order |-> v.order, attr |-> m.attr]
    BY <1>2, <1>3, <1>6, IResultIs
  <1>8. PICK u \in above :
               LET v == Io!clamp(Io!clamp(m, w), Io!clamp(u, win))
               IN  v # Io!Failed /\ x = [base |-> v.base, order |-> v.order, attr |-> m.attr]
    BY <1>7
  <1> DEFINE v == Io!clamp(Io!clamp(m, w), Io!clamp(u, win))
  <1>9. v # Io!Failed /\ x.base = v.base /\ x.order = v.order /\ x.attr = m.attr
    BY <1>8
  <1>10. PICK z \in mdb : z \in Io!Derived({u})
    BY <1>4
  <1> HIDE DEF v
  <1>11. /\ m \in nodes /\ m.space = snd /\ w.base \in Io!Span(m)
        /\ z \in nodes /\ z.space = snd /\ w.base \in Io!Span(z)
    BY <1>10 DEF mdb, Io!tree_lookup
  <1>12. z = m
    BY <1>1, <1>11 DEF IShape, IApart
  <1>13. u \in nodes /\ u.space = rcv /\ Io!clamp(u, win) # Io!Failed
    BY <1>4
  <1>14. m \in Io!Derived({u})
    BY <1>10, <1>12
  <1>15. Io!Span(m) \subseteq Io!Span(u)
    <2> DEFINE K == {y \in nodes : Io!Span(y) \subseteq Io!Span(u)}
    <2>1. \A y, k \in nodes : IPar(y, k) => Io!Span(y) \subseteq Io!Span(k)
      BY <1>1, IParent DEF IPart
    <2>2. IClosed(nodes, K)
      BY <2>1 DEF IClosed
    <2>3. K \in SUBSET nodes /\ {u} \subseteq K /\ {u} \in SUBSET nodes
      BY <1>13
    <2> HIDE DEF K
    <2>4. m \in K
      BY <1>14, <2>2, <2>3, IDerived
    <2> QED
      BY <2>4 DEF K
  <1>16. IWin(Io!clamp(m, w)) /\ Io!Span(Io!clamp(m, w)) = Io!Span(m) \cap Io!Span(w)
    <2>1. w.base \in Io!Span(w)
      BY <1>1, ISpan
    <2>2. Io!Span(m) \cap Io!Span(w) # {} /\ IWin(m)
      BY <1>1, <1>11, <2>1
    <2> QED
      BY <1>1, <2>2, IClamp
  <1>17. IWin(Io!clamp(u, win)) /\ Io!Span(Io!clamp(u, win)) = Io!Span(u) \cap Io!Span(win)
    BY <1>1, <1>13, IClamp
  <1>18. IWin(v) /\ Io!Span(v) = Io!Span(Io!clamp(m, w)) \cap Io!Span(Io!clamp(u, win))
    BY <1>16, <1>17, <1>9, IClamp DEF v
  <1>19. Io!Span(x) = Io!Span(v)
    BY <1>9 DEF Io!Span
  <1>20. x.base % 2^x.order = 0
    BY <1>9, <1>18 DEF IWin
  <1>21. Io!Span(x) \subseteq Io!Span(win) \cap Io!Span(w)
    BY <1>16, <1>17, <1>18, <1>19
  <1>22. ASSUME NEW q \in Io!Span(x)
         PROVE  \E n \in Io!tree_lookup(snd, q), k \in Io!tree_lookup(rcv, q) :
                    x.attr = n.attr /\ n \in Io!Derived({k})
    <2>1. q \in Io!Span(m) /\ q \in Io!Span(u)
      BY <1>16, <1>17, <1>18, <1>19, <1>22
    <2>2. m \in Io!tree_lookup(snd, q) /\ u \in Io!tree_lookup(rcv, q)
      BY <1>11, <1>13, <2>1 DEF Io!tree_lookup
    <2> QED
      BY <1>9, <1>14, <2>2
  <1> QED
    BY <1>20, <1>21, <1>22 DEF x

\* PortsExact holds of Ports for every number of domains and ports and all masks,
\* windows and subspaces: the bitmaps are what the trees say, every port leads
\* back to the kernel with rights that only shrink on the way, and in every
\* state Pd::delegate, Pd::revoke and Pd::xlt_crd would give, take and return
\* exactly what they should.
THEOREM PortsAreExact ==
    ASSUME Io!PortAssumption
    PROVE  Io!Spec => []PortsExact
  <1>1. Io!Init => IoInv
    BY IoInit
  <1>2. IoInv /\ [Io!Next]_Io!vars => IoInv'
    BY IoStep
  <1>3. IoInv => PortsExact
    BY IPortsHeld, IDelegationExact, IRevocationExact, ITranslationExact DEF PortsExact, Io!TransferExact
  <1> QED
    BY <1>1, <1>2, <1>3, PTL DEF Io!Spec
=============================================================================

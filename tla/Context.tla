------------------------------ MODULE Context ------------------------------
(***************************************************************************)
(* The registers that the kernel switches by hand: FPU and FS/GS bases     *)
(* between ECs (Ec::make_current, Ec::transfer_fpu), and FPU, XCR0,        *)
(* IA32_SPEC_CTRL, CR2 and the debug registers around VM entry             *)
(* (Vcpu::run, Vcpu::handle_vmx).  One CPU; a step is a whole switch.      *)
(*                                                                         *)
(* Register contents are small numbers, 0 is what a reset leaves.  seen[x] *)
(* is what EC or vCPU x left in its registers or was given by the VMM:     *)
(* what it must find again.                                                *)
(***************************************************************************)
EXTENDS Naturals

CONSTANTS ECs,    \* ECs with user code
          Idle,   \* the idle EC
          VCPUs,  \* vCPUs
          None,   \* no vCPU, no EC
          Vals,   \* register contents
          Bad,    \* an FPU state that XRSTOR refuses
          Xcr0s,  \* values of XCR0 that the VMM tries
          Scb     \* Fpu::config.xsave_scb: what the host enables

VARIABLES mode,    \* "user", "kernel" or "guest"
          cur,     \* Ec::current()
          vcpu,    \* the vCPU in the guest
          hw,      \* the registers of the CPU
          host_dr, \* Vcpu::host_dr
          area,    \* FPU save areas; Bad is one on which XRSTOR faults
          bases,   \* saved FS/GS bases of ECs
          regs,    \* Vcpu::regs
          seen,    \* see above
          lent     \* the EC whose FPU state an exception handler works on

vars == <<mode, cur, vcpu, hw, host_dr, area, bases, regs, seen, lent>>

Init ==
    /\ mode = "kernel" /\ cur = Idle /\ vcpu = None
    /\ hw = [fpu |-> 0, fs |-> 0, dr |-> 0, cr2 |-> 0, spec |-> 0, xcr0 |-> Scb]
    /\ host_dr = 0
    /\ area = [x \in ECs \cup VCPUs |-> 0] /\ bases = [e \in ECs \cup {Idle} |-> 0]
    /\ regs = [w \in VCPUs |-> [dr |-> 0, cr2 |-> 0, spec |-> 0, xcr0 |-> {"X87"}]]
    /\ seen = [x \in ECs \cup VCPUs |-> IF x \in ECs THEN [fpu |-> 0, fs |-> 0]
                                       ELSE [fpu |-> 0, dr |-> 0, cr2 |-> 0, spec |-> 0]]
    /\ lent = [e \in ECs |-> None]

-----------------------------------------------------------------------------
(* Fpu and Ec: saving and loading the FPU state.                           *)

\* is_valid_xcr0: XCR0 as a set of state components.
AVX512 == {"OP", "LO", "HI"}
is_valid_xcr0(scb, x) ==
    x = (x \cap scb) \cup {"X87"}
        \cup (IF "AVX" \in x THEN {"SSE"} ELSE {})
        \cup (IF x \cap AVX512 # {} THEN {"AVX"} \cup AVX512 ELSE {})

\* The host's own XCR0 is a legal one, and a VMM asks for AVX-512 only where the
\* host enables it: is_valid_xcr0 adds its components to what it compares with.
ContextAssumption ==
    /\ ECs \cap VCPUs = {} /\ Idle \notin ECs \cup VCPUs
    /\ is_valid_xcr0(Scb, Scb)
    /\ \A x \in Xcr0s : x \cap AVX512 # {} => AVX512 \subseteq Scb

\* Ec::save_fpu of e, given the contents of the FPU.  The idle EC has none.
save_fpu(e, fpu) == IF e = Idle THEN area ELSE [area EXCEPT ![e] = fpu]

\* Ec::load_fpu of e: the contents of the FPU afterwards.
load_fpu(e, a, fpu) == IF e = Idle THEN fpu ELSE a[e]

\* Ec::transfer_fpu: to takes the FPU over from from.
transfer_fpu(to, from) ==
    IF to = from
    THEN [area |-> area, fpu |-> hw.fpu]
    ELSE LET a == save_fpu(from, hw.fpu) IN [area |-> a, fpu |-> load_fpu(to, a, hw.fpu)]

-----------------------------------------------------------------------------
(* Faulty variants, against which the properties are tried.                *)

\* The debug registers are cached by load_dr, not by save_dr.
StaleDrCache(w) ==
    /\ regs' = [regs EXCEPT ![w].dr = hw.dr, ![w].spec = hw.spec, ![w].cr2 = hw.cr2]
    /\ UNCHANGED host_dr

-----------------------------------------------------------------------------
(* User space and switching between ECs.                                   *)

UserRuns(x) ==
    /\ mode = "user"
    /\ hw' = [hw EXCEPT !.fpu = x, !.fs = x]
    /\ seen' = [seen EXCEPT ![cur].fpu = x, ![cur].fs = x]
    /\ UNCHANGED <<mode, cur, vcpu, host_dr, area, bases, regs, lent>>

Enter ==
    /\ mode = "user" /\ mode' = "kernel"
    /\ UNCHANGED <<cur, vcpu, hw, host_dr, area, bases, regs, seen, lent>>

\* Ec::return_to_user without a switch.
ReturnToUser ==
    /\ mode = "kernel" /\ cur # Idle /\ mode' = "user"
    /\ UNCHANGED <<cur, vcpu, hw, host_dr, area, bases, regs, seen, lent>>

\* An exception handler that is switched away from keeps the state it has.
make_current(e) ==
    /\ mode = "kernel" /\ e # cur
    /\ LET t == transfer_fpu(e, cur)
       IN  /\ hw' = [hw EXCEPT !.fpu = t.fpu, !.fs = bases[e]]
           /\ area' = t.area
    /\ bases' = [bases EXCEPT ![cur] = hw.fs]
    /\ cur' = e
    /\ UNCHANGED <<mode, vcpu, host_dr, regs, seen, lent>>

\* recv_kern with Mtd::FPU: handler cur works on the FPU state of e.
recv_kern(e) ==
    /\ mode = "kernel" /\ cur \in ECs /\ e # cur /\ lent[cur] = None
    /\ \A h \in ECs : lent[h] # e
    /\ lent[e] = None
    /\ LET t == transfer_fpu(e, cur)
       IN  hw' = [hw EXCEPT !.fpu = t.fpu] /\ area' = t.area
    /\ lent' = [lent EXCEPT ![cur] = e]
    /\ seen' = [seen EXCEPT ![cur].fpu = seen[e].fpu]
    /\ UNCHANGED <<mode, cur, vcpu, host_dr, bases, regs>>

\* sys_reply with Mtd::FPU: e gets what the handler made of it; the handler
\* finds in the FPU what its save area holds.
sys_reply ==
    /\ mode = "kernel" /\ cur \in ECs /\ lent[cur] # None
    /\ LET e == lent[cur]
           t == transfer_fpu(cur, e)
       IN  /\ hw' = [hw EXCEPT !.fpu = t.fpu] /\ area' = t.area
           /\ seen' = [seen EXCEPT ![e].fpu = seen[cur].fpu, ![cur].fpu = t.fpu]
    /\ lent' = [lent EXCEPT ![cur] = None]
    /\ UNCHANGED <<mode, cur, vcpu, host_dr, bases, regs>>

-----------------------------------------------------------------------------
(* Virtual CPUs.                                                           *)

\* The VMM writes the FPU page, CR2, XCR0 and SPEC_CTRL of a vCPU.
VmmWrites(w, x, c) ==
    /\ mode = "user"
    /\ area' = [area EXCEPT ![w] = x]
    /\ LET y == IF x = Bad THEN 0 ELSE x
       IN  /\ regs' = [regs EXCEPT ![w].cr2 = y, ![w].spec = y, ![w].xcr0 = c]
           /\ seen' = [seen EXCEPT ![w] = [@ EXCEPT !.fpu = x, !.cr2 = y, !.spec = y]]
    /\ UNCHANGED <<mode, cur, vcpu, hw, host_dr, bases, lent>>

\* Vcpu::save_dr, and what else handle_vmx keeps of the guest.
save_dr(w) ==
    /\ host_dr' = hw.dr
    /\ regs' = [regs EXCEPT ![w].dr = hw.dr, ![w].spec = hw.spec, ![w].cr2 = hw.cr2]

\* Vcpu::run: registers of the guest, one after the other.
run(w) ==
    /\ mode = "kernel" /\ cur \in ECs
    /\ area[w] # Bad /\ is_valid_xcr0(Scb, regs[w].xcr0)
    /\ area' = save_fpu(cur, hw.fpu)
    /\ hw' = [hw EXCEPT !.fpu = area'[w], !.xcr0 = regs[w].xcr0, !.cr2 = regs[w].cr2,
                        !.dr = IF host_dr # regs[w].dr THEN regs[w].dr ELSE @,
                        !.spec = IF regs[w].spec # 0 THEN regs[w].spec ELSE @]
    /\ mode' = "guest" /\ vcpu' = w
    /\ UNCHANGED <<cur, host_dr, bases, regs, seen, lent>>

\* Vcpu::run refuses to enter: FPU state or XCR0 invalid.  handle_vmx then
\* saves what the registers hold although not all of it is the guest's.
RefuseEntry(w) ==
    /\ mode = "kernel" /\ cur \in ECs
    /\ area[w] = Bad \/ ~is_valid_xcr0(Scb, regs[w].xcr0)
    /\ area' = LET a == save_fpu(cur, hw.fpu)
               IN  [a EXCEPT ![w] = IF @ = Bad THEN hw.fpu ELSE @]
    /\ hw' = [hw EXCEPT !.fpu = area'[cur], !.cr2 = regs[w].cr2]
    /\ host_dr' = hw.dr
    /\ regs' = [regs EXCEPT ![w].dr = hw.dr, ![w].spec = hw.spec]
    /\ seen' = [seen EXCEPT ![w] = [fpu |-> area'[w], dr |-> hw.dr, cr2 |-> @.cr2, spec |-> hw.spec]]
    /\ UNCHANGED <<mode, cur, vcpu, bases, lent>>

GuestRuns(x) ==
    /\ mode = "guest"
    /\ hw' = [hw EXCEPT !.fpu = x, !.dr = x, !.cr2 = x, !.spec = x]
    /\ seen' = [seen EXCEPT ![vcpu] = [fpu |-> x, dr |-> x, cr2 |-> x, spec |-> x]]
    /\ UNCHANGED <<mode, cur, vcpu, host_dr, area, bases, regs, lent>>

\* Vcpu::handle_vmx, after a VM exit or an entry that failed.
handle_vmx ==
    /\ mode = "guest"
    /\ area' = [area EXCEPT ![vcpu] = hw.fpu]
    /\ hw' = [hw EXCEPT !.spec = 0, !.xcr0 = Scb, !.fpu = load_fpu(cur, area', @)]
    /\ save_dr(vcpu)
    /\ mode' = "kernel" /\ vcpu' = None
    /\ UNCHANGED <<cur, bases, seen, lent>>

\* Suspend::prepare_cpu_for_suspend, and Cpu::init after the machine came back:
\* Vcpu::init caches the debug registers, Fpu::init sets XCR0.
Suspend ==
    /\ mode = "kernel" /\ cur # Idle
    /\ area' = transfer_fpu(Idle, cur).area
    /\ bases' = [bases EXCEPT ![cur] = hw.fs]
    /\ cur' = Idle
    /\ hw' = [fpu |-> 0, fs |-> 0, dr |-> 0, cr2 |-> 0, spec |-> 0, xcr0 |-> Scb]
    /\ host_dr' = 0
    /\ UNCHANGED <<mode, vcpu, regs, seen, lent>>

Next ==
    \/ Enter \/ ReturnToUser \/ sys_reply \/ handle_vmx \/ Suspend
    \/ \E x \in Vals : UserRuns(x) \/ GuestRuns(x)
    \/ \E e \in ECs \cup {Idle} : make_current(e)
    \/ \E e \in ECs : recv_kern(e)
    \/ \E w \in VCPUs : \/ run(w) \/ RefuseEntry(w)
                        \/ \E x \in Vals \cup {Bad}, c \in Xcr0s : VmmWrites(w, x, c)

Spec == Init /\ [][Next]_vars

-----------------------------------------------------------------------------
(* Properties.                                                             *)

\* Neither the host nor its user code ever runs with XCR0 or SPEC_CTRL of a
\* guest.
HostClean ==
    mode # "guest" => hw.xcr0 = Scb /\ hw.spec = 0

\* The assertions in load_dr: outside the guest the cache is what the debug
\* registers hold, although nobody reads them on entry.
DrCacheExact ==
    mode # "guest" => host_dr = hw.dr

\* An EC finds its FPU and bases as it left them, after any switches, through
\* the idle EC too, and after running vCPUs or sleeping.
EcKept ==
    mode = "user" => hw.fpu = seen[cur].fpu /\ hw.fs = seen[cur].fs

\* A guest finds its FPU, CR2, DR0-3, DR6 and SPEC_CTRL as it left them or as the
\* VMM set them, and XCR0 has a value that the CPU accepts.
GuestKept ==
    mode = "guest" =>
        /\ \A f \in {"fpu", "dr", "cr2", "spec"} : hw[f] = seen[vcpu][f]
        /\ LET x == hw.xcr0
           IN  /\ {"X87"} \subseteq x /\ x \subseteq Scb
               /\ "AVX" \in x => "SSE" \in x
               /\ x \cap AVX512 # {} => AVX512 \cup {"AVX"} \subseteq x

\* All of the above: what Vcpu::run, handle_vmx and make_current are for.
ContextKept == HostClean /\ DrCacheExact /\ EcKept /\ GuestKept
=============================================================================

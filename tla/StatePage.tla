----------------------------- MODULE StatePage -----------------------------
(***************************************************************************)
(* The transfer of register state between user space and the kernel: the   *)
(* state page of a vCPU (Utcb::save_vmx on VM entry, Utcb::load_vmx when   *)
(* vcpu_ctrl_run returns) and exception messages (Utcb::load_exc,          *)
(* Utcb::save_exc).  An MTD names the groups of registers (items) to copy. *)
(* Groups do not influence each other, except CTRL, INJ and the monitor    *)
(* trap flag, which meet in the execution controls: a behaviour follows    *)
(* one item, chosen at the start, together with the controls.              *)
(***************************************************************************)
EXTENDS Integers

CONSTANTS Items,       \* MTD items that are followed
          Passthrough, \* Vcpu::passthrough_vcpu
          CrBits,      \* bits of a control register, "PE" among them
          FixSet, FixClr, Mon, \* Vmcs::fix_cr0_set, fix_cr0_clr, fix_cr0_mon
          Allowed0, Allowed1,  \* Vmcs::ctrl_cpu()[i].clr
          Shift, TimerMax, MaxTicks, \* the preemption timer and its page field
          MaxRuns      \* bound on system calls and exceptions

VARIABLES item, at,
          page,     \* state page or UTCB: value of the item, ctrl[0], ctrl[1]
          hw,       \* VMCS, register frame and MSR area: item and controls
          mtd,      \* regs.mtd; in an exception message, utcb->mtd
          entered,  \* Vcpu::has_entered
          mtf,      \* Vcpu::has_pending_mtf_trap
          told,     \* the item was announced and the guest has not run since
          want,     \* what user space last found or put in the page, and who
          last,     \* the item as it was when the guest or EC last stopped
          runs

vars == <<item, at, page, hw, mtd, entered, mtf, told, want, last, runs>>

\* Bits of CR0 are forced to one or to zero, PE is not (unrestricted guests), and
\* the CPU has the controls that Hedron insists on.  FPU state is in Context.
PageAssumption ==
    /\ "FPU" \notin Items
    /\ FixSet \subseteq CrBits /\ FixSet \cap FixClr = {} /\ "PE" \notin FixSet \cup FixClr
    /\ {"IO", "SECONDARY", "HLT", "MTF"} \subseteq Allowed0 /\ {"EPT", "URG"} \subseteq Allowed1
    /\ 2^Shift \in Nat \ {0} /\ TimerMax \in Nat /\ MaxTicks \in Nat

SegItems == {"DS_ES", "FS_GS", "CS_SS", "TR", "LDTR"}
ExcItems == {"GPR_ACDB", "GPR_BSD", "GPR_R8_R15", "RSP", "RIP_LEN", "RFLAGS", "QUAL"}
NotSaved == {"QUAL", "FPU"}
NotReturned == {"CTRL", "EOI", "TPR", "TLB", "FPU"}
----------------------------------------------------------------------------
(* What an item looks like on either side.                                 *)

\* Access rights are sets of bit numbers: bits 12-16 of the VMCS field are
\* bits 8-12 of the page (Utcb_segment::set_vmx).
set_vmx(a) == {b \in a : b < 8} \cup {b - 4 : b \in {c \in a : c \in 12..16}}
ar_to_vmcs(a) == {b \in a : b < 8} \cup {b + 4 : b \in {c \in a : c \in 8..12}}

\* Control registers: the guest runs with g, reads s where it does not own the
\* bit.
cr_msk(mon) == FixClr \cup FixSet \cup mon
get_cr(h) == (h.g \ cr_msk({})) \cup (h.s \cap cr_msk({}))
set_cr(v) == [g |-> (v \cap ((CrBits \ cr_msk({})) \cup {"PE"})) \cup (FixSet \ {"PE"}), s |-> v]

\* vmx_timer::calc_timeout, rounded up and saturating, and vmx_timer::get.
calc_timeout(ticks) ==
    LET t == (ticks + 2^Shift - 1) \div 2^Shift IN IF t > TimerMax THEN TimerMax ELSE t

\* Values of the item in the page.
PageValues ==
    CASE item \in SegItems -> SUBSET {7, 8, 12}
      [] item = "CR" -> SUBSET CrBits
      [] item = "INJ" -> [ev : 0..1, win : SUBSET {"INTR_WINDOW", "NMI_WINDOW"}]
      [] item = "RIP_LEN" -> [ip : 0..1, len : 0..1]
      [] item = "TSC_TIMEOUT" -> 0..MaxTicks
      [] item = "RFLAGS" -> SUBSET {"ZF", "IOPL", "VM"}
      [] OTHER -> 0..1

\* save_vmx, one item: the VMCS (h) after it took v from the page.
save(v, h) ==
    CASE item \in SegItems -> ar_to_vmcs(v)
      [] item = "CR" -> set_cr(v)
      [] item = "INJ" -> [h EXCEPT !.ent = v.ev]
      [] item = "RIP_LEN" -> [h EXCEPT !.ip = v.ip, !.ent = v.len]
      [] item = "TSC_TIMEOUT" -> calc_timeout(v)
      [] OTHER -> v

\* load_vmx, one item.  What caused the exit is read from other fields than
\* what was to be injected, unless the guest did not run (fail).
load(h, fail) ==
    CASE item \in SegItems -> set_vmx(h)
      [] item = "CR" -> get_cr(h)
      [] item = "INJ" -> IF fail THEN [ev |-> h.ent, win |-> {}] ELSE h.exi
      [] item = "RIP_LEN" -> [ip |-> h.ip, len |-> h.exi]
      [] item = "TSC_TIMEOUT" -> h * 2^Shift
      [] OTHER -> h

\* What the guest, or the CPU on its behalf, can make of the item: guest-owned
\* bits of a control register only; the bitmaps and thresholds never.
GuestMakes(h) ==
    CASE item \in SegItems -> SUBSET {7, 12, 16}
      [] item = "CR" -> {[h EXCEPT !.g = (h.g \cap cr_msk(Mon)) \cup b] : b \in SUBSET (CrBits \ cr_msk(Mon))}
      [] item = "INJ" -> [ent : {0}, exi : [ev : 0..1, win : {{}, {"INTR_WINDOW"}}]]
      [] item = "RIP_LEN" -> [ip : 0..1, ent : {h.ent}, exi : 0..1]
      [] item = "TSC_TIMEOUT" -> 0..h
      [] item = "RFLAGS" -> SUBSET {"ZF", "IOPL", "VM"}
      [] item \in {"EOI", "TPR", "CTRL", "TLB"} -> {h}
      [] OTHER -> 0..1

\* What the guest sees of the item, and what a page asks for.
Seen(h) ==
    CASE item = "INJ" -> h.ent
      [] item = "RIP_LEN" -> <<h.ip, h.ent>>
      [] OTHER -> load(h, FALSE)
Asked(v) ==
    CASE item = "INJ" -> v.ev
      [] item = "RIP_LEN" -> <<v.ip, v.len>>
      [] OTHER -> v
----------------------------------------------------------------------------
(* Execution controls.                                                     *)

vmx_set_cpu_ctrl0(val) ==
    LET v == (val \cup {"IO", "SECONDARY"} \cup (IF Passthrough THEN {} ELSE {"HLT"})) \cap Allowed0
    IN  IF "TPR_SHADOW" \in v THEN v ELSE v \cup {"CR8"}
vmx_set_cpu_ctrl1(val) == (val \cup {"EPT", "VPID", "URG"}) \cap Allowed1

\* CTRL comes before INJ, and the monitor trap flag after both.
Controls(m, trap) ==
    LET c == IF "CTRL" \in m THEN vmx_set_cpu_ctrl0(page.c0) ELSE hw.cpu0
        i == IF "INJ" \in m
             THEN vmx_set_cpu_ctrl0((c \ {"INTR_WINDOW", "NMI_WINDOW"}) \cup IF item = "INJ" THEN page.v.win ELSE {})
             ELSE c
    IN  IF trap THEN vmx_set_cpu_ctrl0(page.c0 \cup {"MTF"}) ELSE i

\* Utcb::save_vmx, which does nothing for an empty MTD.
save_vmx(m, trap) ==
    hw' = [v    |-> IF item \in m \ NotSaved THEN save(page.v, hw.v) ELSE hw.v,
           cpu0 |-> Controls(m, trap),
           cpu1 |-> IF "CTRL" \in m THEN vmx_set_cpu_ctrl1(page.c1) ELSE hw.cpu1]

\* Any contents of the page; the constructor (nst_ctrl) forces the controls.
Init ==
    /\ item \in Items
    /\ at \in IF item \in ExcItems THEN {"vmm", "ec"} ELSE {"vmm"}
    /\ page \in [v : PageValues, c0 : {{}}, c1 : {{}}]
    /\ hw = [v |-> CASE item \in SegItems -> {}
                     [] item = "CR" -> set_cr({})
                     [] item = "INJ" -> [ent |-> 0, exi |-> [ev |-> 0, win |-> {}]]
                     [] item = "RIP_LEN" -> [ip |-> 0, ent |-> 0, exi |-> 0]
                     [] item = "TSC_TIMEOUT" -> TimerMax
                     [] item = "RFLAGS" -> {}
                     [] OTHER -> 0,
             cpu0 |-> vmx_set_cpu_ctrl0({}), cpu1 |-> vmx_set_cpu_ctrl1({})]
    /\ mtd = {} /\ entered = FALSE /\ mtf = FALSE /\ told = FALSE /\ runs = 0
    /\ want = [v |-> page.v, by |-> "user"] /\ last = Seen(hw.v)
----------------------------------------------------------------------------
(* Running a vCPU.                                                         *)

UserWrites(v, c0, c1) ==
    /\ at \in {"vmm", "handler"}
    /\ page' = [v |-> v, c0 |-> c0, c1 |-> c1]
    /\ want' = [v |-> v, by |-> "user"]
    /\ UNCHANGED <<item, at, hw, mtd, entered, mtf, told, last, runs>>

\* Mutant: only the MTD of the last call counts.
MtdReplaced(m) == mtd' = m

\* Vcpu::mtd: what was announced stays announced until it is applied.
Vcpu_mtd(m) == mtd' = mtd \cup m

sys_vcpu_ctrl_run(m) ==
    /\ at = "vmm" /\ runs < MaxRuns
    /\ Vcpu_mtd(m)
    /\ at' = "run" /\ runs' = runs + 1 /\ told' = (told \/ item \in m)
    /\ UNCHANGED <<item, page, hw, entered, mtf, want, last>>

\* Vcpu::return_to_vmm.  Virtual interrupts are reported if the page's own
\* controls ask for their delivery.
return_to_vmm(fail) ==
    LET vint == "SECONDARY" \in page.c0 /\ "VINT" \in page.c1
        moved == entered /\ item \notin NotReturned /\ (item = "VINTR" => vint)
    IN  /\ page' = IF moved THEN [page EXCEPT !.v = load(hw.v, fail)] ELSE page
        /\ want' = IF moved THEN [v |-> page'.v, by |-> "kernel"] ELSE want
        /\ mtd' = IF entered THEN {} ELSE mtd
        /\ entered' = FALSE /\ at' = "vmm" /\ mtf' = FALSE

\* Vcpu::run returns before VM entry: the vCPU was poked and has nothing to
\* inject.
ReturnEarly ==
    /\ at = "run"
    /\ return_to_vmm(TRUE)
    /\ UNCHANGED <<item, hw, told, last, runs>>

\* Vcpu::run enters.  A poked vCPU with an event to inject gets the monitor
\* trap flag.
run(trap) ==
    /\ at = "run" /\ (trap => ~ entered)
    /\ save_vmx(mtd, trap)
    /\ mtd' = {} /\ entered' = TRUE /\ mtf' = trap /\ at' = "guest"
    /\ told' = FALSE
    /\ UNCHANGED <<item, page, want, last, runs>>

GuestRuns ==
    /\ at = "guest"
    /\ \E h \in GuestMakes(hw.v) : hw' = [hw EXCEPT !.v = h]
    /\ UNCHANGED <<item, at, page, mtd, entered, mtf, told, want, last, runs>>

\* Vcpu::handle_vmx: the monitor trap flag is taken back, unless user space
\* wants it; then the vCPU goes on or returns.
handle_vmx(fail) ==
    /\ at = "guest"
    /\ hw' = IF mtf /\ "MTF" \notin page.c0 THEN [hw EXCEPT !.cpu0 = vmx_set_cpu_ctrl0(page.c0)] ELSE hw
    /\ last' = Seen(hw.v)
    /\ \/ return_to_vmm(fail)
       \/ /\ at' = "run" /\ mtf' = FALSE
          /\ UNCHANGED <<page, mtd, entered, want>>
    /\ UNCHANGED <<item, told, runs>>
----------------------------------------------------------------------------
(* Exception messages.                                                     *)

EcRuns(h) ==
    /\ at = "ec"
    /\ hw' = [hw EXCEPT !.v = h]
    /\ UNCHANGED <<item, at, page, mtd, entered, mtf, told, want, last, runs>>

\* Utcb::load_exc, with the MTD of the portal.
load_exc(m) ==
    /\ at = "ec" /\ runs < MaxRuns
    /\ page' = IF item \notin m THEN page
               ELSE [page EXCEPT !.v = IF item = "RIP_LEN" THEN [@ EXCEPT !.ip = hw.v.ip] ELSE hw.v]
    /\ mtd' = m /\ at' = "handler" /\ runs' = runs + 1 /\ last' = hw.v
    /\ want' = [v |-> page'.v, by |-> IF item \in m THEN "kernel" ELSE "user"]
    /\ UNCHANGED <<item, hw, entered, mtf, told>>

\* Mutant: the flags are taken as they are.
SaveFlags(v) == v

\* What save_exc makes of the flags.
user_flags(v) == v \ {"IOPL", "VM"}

\* The handler replies with an MTD of its own; Utcb::save_exc applies it.
save_exc(m) ==
    /\ at = "handler"
    /\ hw' = IF item \notin m \/ item = "QUAL" THEN hw
             ELSE [hw EXCEPT !.v = CASE item = "RIP_LEN" -> [@ EXCEPT !.ip = page.v.ip]
                                     [] item = "RFLAGS" -> user_flags(page.v)
                                     [] OTHER -> page.v]
    /\ told' = (item \in m) /\ mtd' = m /\ at' = "ec"
    /\ UNCHANGED <<item, page, entered, mtf, want, last, runs>>

\* The page's controls matter to some items only.
Ctrls == IF item \in {"INJ", "CTRL"} THEN {{}, {"TPR_SHADOW", "MTF"}} \X {{}}
         ELSE IF item = "VINTR" THEN {<<{}, {}>>, <<{"SECONDARY"}, {"VINT"}>>} ELSE {<<{}, {}>>}
Mtds == IF item \in {"INJ", "CTRL"} THEN SUBSET {"INJ", "CTRL"} ELSE {{}, {item}}

Next ==
    \/ \E v \in PageValues, c \in Ctrls : UserWrites(v, c[1], c[2])
    \/ \E m \in Mtds : sys_vcpu_ctrl_run(m) \/ load_exc(m) \/ save_exc(m)
    \/ ReturnEarly \/ GuestRuns
    \/ \E b \in BOOLEAN : run(b) \/ handle_vmx(b)
    \/ \E h \in IF item = "RFLAGS" THEN SUBSET {"ZF"} ELSE GuestMakes(hw.v) : EcRuns(h)

Spec == Init /\ [][Next]_vars
----------------------------------------------------------------------------
\* What the page holds after a return is what the guest had; not what made it
\* exit, and not a rounded timeout.
TwoSided == item \notin {"INJ", "RIP_LEN", "TSC_TIMEOUT", "QUAL"}

\* When the guest goes on, it has what user space announced, however many
\* runs returned before it was entered; otherwise what it had.  Announcing
\* what the kernel wrote to the page, unmodified, changes nothing, neither for
\* a guest nor for an EC whose exception message is answered.  The
\* preemption timer never fires earlier than asked for, unless it saturates.
EntryExact ==
    [][/\ at = "run" /\ at' = "guest" =>
        /\ ~ told \/ item = "QUAL" => Seen(hw'.v) = last
        /\ told /\ want.by = "user" /\ item # "QUAL" =>
               \/ Seen(hw'.v) = Asked(want.v)
               \/ item = "TSC_TIMEOUT" /\ (hw'.v = TimerMax \/ hw'.v * 2^Shift \in want.v..(want.v + 2^Shift - 1))
        /\ want.by = "kernel" /\ TwoSided => Seen(hw'.v) = last
       /\ at = "handler" /\ at' = "ec" /\ want.by = "kernel" => hw'.v = last]_vars

\* No page makes the guest run without the exits and the control register bits
\* that the kernel forces, with a reserved bit, or with CR8 unguarded; no reply
\* gives an EC flags that user code must not have.
StateLegal ==
    /\ at = "guest" =>
        /\ {"IO", "SECONDARY"} \subseteq hw.cpu0 /\ (Passthrough \/ "HLT" \in hw.cpu0)
        /\ {"EPT", "URG"} \subseteq hw.cpu1 /\ {"TPR_SHADOW", "CR8"} \cap hw.cpu0 # {}
        /\ mtf => "MTF" \in hw.cpu0
        /\ item = "CR" => FixSet \subseteq hw.v.g /\ hw.v.g \cap FixClr = {}
    /\ at = "ec" /\ item = "RFLAGS" => hw.v \cap {"IOPL", "VM"} = {}
=============================================================================

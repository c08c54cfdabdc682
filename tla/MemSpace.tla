------------------------------ MODULE MemSpace ------------------------------
(***************************************************************************)
(* Who may touch which frame: delegation and revocation of memory between  *)
(* the host and guest page tables of protection domains (Space_mem), and   *)
(* the pages of hypervisor memory that are mapped to user space: UTCBs,    *)
(* kernel pages and the APIC access page.  The page tables are the maps    *)
(* that PageTable implements.  tlb holds the host translations that some   *)
(* CPU may have cached; a shootdown is one step here (see TlbShootdown).   *)
(* Attributes are sets of the bits of a page table entry; addresses count  *)
(* pages.                                                                  *)
(***************************************************************************)
EXTENDS Naturals, FiniteSets, FiniteSetsExt

CONSTANTS PDs,        \* protection domains of user space
          Kern,       \* Pd::kern, whose table lists the memory user space may have
          PageOrder,  \* there are 2^PageOrder pages of memory and of user space
          ReadOnly,   \* frames that are inserted with MEM_R only (the HIP)
          Claimed,    \* frames that the kernel claims exclusively
          Phys,       \* the first frame beyond MAXPHYADDR
          UtcbFrame, KpFrame, ApicFrame, \* hypervisor memory
          Offers,     \* rights and subspaces that callers name: <<attributes, tables>>
          NoPd, NoWindow,
          MaxOps,     \* bound on the operations
          MaxCached   \* bound on the cached translations

Pages == 0..(2^PageOrder - 1)
Kernel == {UtcbFrame, KpFrame, ApicFrame}

\* Hypervisor memory is not in the golden table.  The second line is what a power
\* of two is.
ASSUME SpaceAssumption ==
    /\ PageOrder \in Nat
    /\ 2^0 = 1 /\ \A o \in 0..PageOrder : 2^(o + 1) = 2 * 2^o
    /\ Kern \notin PDs /\ NoWindow \notin [pd : PDs, p : Pages]
    /\ UtcbFrame # KpFrame /\ ApicFrame \notin {UtcbFrame, KpFrame} /\ Kernel \cap Pages = {}
    /\ Offers \subseteq (SUBSET {"r", "w", "x"}) \X (SUBSET {"host", "guest"})
    /\ Phys \in Nat /\ MaxOps \in Nat /\ MaxCached \in Nat

VARIABLES host, guest, \* page tables: PD -> page -> mapping
          tlb,         \* host translations <<pd, page, frame>> a CPU may use
          lost,        \* those of them that a change of a UTCB mapping left behind
          free,        \* hypervisor frames that are back in the allocator
          utcb, kp,    \* where the UTCB and the kernel page are mapped
          op,          \* the last operation
          ops

vars == <<host, guest, tlb, lost, free, utcb, kp, op, ops>>
----------------------------------------------------------------------------
Mapping(f, a) == [f |-> f, a |-> a]
NoMapping == Mapping(0, {})
present(m) == "P" \in m.a

\* Hpt::hw_attr: any right makes a page present.
hw_attr(a) ==
    IF a = {} THEN {}
    ELSE {"P", "U", "A", "D"} \cup (IF "w" \in a THEN {"W"} ELSE {}) \cup (IF "x" \in a THEN {} ELSE {"NX"})

Flip(a, bit) == IF bit \in a THEN a \ {bit} ELSE a \cup {bit}

\* Mutant: NX is combined like the other bits.
MergeNxAsIs(source, desired) ==
    IF ~ ("P" \in source \cap desired) THEN {}
    ELSE (source \ {"P", "W", "NX"}) \cup (source \cap desired \cap {"P", "W", "NX"})

\* Hpt::merge_hw_attr: NX is turned into a positive right and back.
merge_hw_attr(source, desired) ==
    LET s == Flip(source, "NX")
        d == Flip(desired, "NX")
        changeable == {"P", "W", "NX"}
    IN  IF ~ ("P" \in source \cap desired) THEN {}
        ELSE Flip((s \ changeable) \cup (s \cap d \cap changeable), "NX")

\* Ept::convert_mapping, attr_from_hpt: U and NODELEG have no counterpart.
convert_mapping(m) ==
    IF ~ present(m) THEN NoMapping
    ELSE Mapping(m.f, {"P", "U"} \cup (m.a \cap {"W", "NX", "UC"}))

max_order(base, size) ==
    LET log == Max({o \in 0..(PageOrder + 1) : 2^o <= size})
    IN  IF base = 0 THEN log ELSE Min({log, Max({o \in 0..PageOrder : base % 2^o = 0})})
Block(b, o) == b..(b + 2^o - 1)

is_valid_user_mapping(v, o) == v \in Pages /\ o <= max_order(v, 2^PageOrder) /\ v % 2^o = 0
----------------------------------------------------------------------------
\* A page that its owner may not pass on.
Refused(m) == present(m) /\ ("NODELEG" \in m.a \/ "U" \notin m.a)

\* lookup_and_adjust_rights: what page p of the sender becomes.  The empty
\* mapping that stands for a refused page has the order of its address, which
\* may be larger than that of the page.
lookup_and_adjust_rights(snd, p, base, o, hw) ==
    IF hw = {} \/ \E r \in Block(base, o) : Refused(host[snd][r]) /\ p \in Block(r, max_order(r, base + 2^o))
    THEN NoMapping
    ELSE LET a == merge_hw_attr(host[snd][p].a, hw) IN IF a = {} THEN NoMapping ELSE Mapping(host[snd][p].f, a)

\* The receiver's tables after the first n (host) and g (guest) pages.
Target(snd, w, hw, p) == lookup_and_adjust_rights(snd, w.sb + (p - w.rb), w.sb, w.o, hw)
Beyond(m) == present(m) /\ m.f >= Phys

\* Mutant: only an update that is complete asks for a flush.
FlushIfComplete(rcv, rb, n, g, sub) ==
    g = n /\ "host" \in sub /\ present(host[rcv][rb])

\* A shootdown for the host TLBs of pd, if there is need.
Flush(pd, need) ==
    /\ tlb' = IF need THEN {t \in tlb : t[1] # pd} ELSE tlb
    /\ lost' = IF need THEN {t \in lost : t[1] # pd} ELSE lost

\* Something present was overwritten, in either table.
need_tlb_flush(rcv, rb, n, g, sub) ==
    \/ "host" \in sub /\ \E p \in rb..(rb + n - 1) : present(host[rcv][p])
    \/ "guest" \in sub /\ \E p \in rb..(rb + g - 1) : present(guest[rcv][p])

\* Space_mem::delegate.  It stops early when memory runs out or when a frame
\* lies beyond MAXPHYADDR; the guest table is written before the host table.
delegate(snd, rcv, w, attr, sub) ==
    LET hw == hw_attr(attr)
        T == [p \in Block(w.rb, w.o) |-> Target(snd, w, hw, p)]
    IN  IF ~ (is_valid_user_mapping(w.sb, w.o) /\ is_valid_user_mapping(w.rb, w.o))
        THEN UNCHANGED <<host, guest, tlb, lost>>
        ELSE \E n \in 0..2^w.o :
             /\ \A p \in w.rb..(w.rb + n - 1) : ~ Beyond(T[p])
             /\ \E g \in {n, Min({n + 1, 2^w.o})} :
                 /\ \A p \in w.rb..(w.rb + g - 1) : ~ Beyond(T[p])
                 /\ host' = IF "host" \in sub
                            THEN [host EXCEPT ![rcv] = [p \in Pages |-> IF p \in w.rb..(w.rb + n - 1) THEN T[p] ELSE @[p]]]
                            ELSE host
                 /\ guest' = IF "guest" \in sub
                             THEN [guest EXCEPT ![rcv] = [p \in Pages |-> IF p \in w.rb..(w.rb + g - 1)
                                                                         THEN convert_mapping(T[p]) ELSE @[p]]]
                             ELSE guest
                 /\ Flush(rcv, need_tlb_flush(rcv, w.rb, n, g, sub) /\ "host" \in sub)
----------------------------------------------------------------------------
NoOp == [kind |-> "none", pd |-> NoPd, pages |-> {}]

\* insert_root, then claim: the golden table of Pd::kern.
golden == [f \in Pages |->
    IF f \in Claimed THEN NoMapping ELSE Mapping(f, hw_attr(IF f \in ReadOnly THEN {"r"} ELSE {"r", "w", "x"}))]

Init ==
    /\ host = [pd \in PDs \cup {Kern} |-> IF pd = Kern THEN golden ELSE [p \in Pages |-> NoMapping]]
    /\ guest = [pd \in PDs |-> [p \in Pages |-> NoMapping]]
    /\ tlb = {} /\ lost = {} /\ free = {UtcbFrame}
    /\ utcb = NoWindow /\ kp = NoWindow
    /\ op = NoOp /\ ops = 0

\* op remembers what the last step was about, where a property needs it.
Did(kind, pd, P) ==
    /\ ops < MaxOps /\ ops' = ops + 1
    /\ op' = IF kind \in {"delegate", "revoke"} THEN [kind |-> kind, pd |-> pd, pages |-> P] ELSE NoOp

\* pd_ctrl_delegate or a typed item: xfer_item and del_crd for memory, with the
\* windows that clamp() yields (see clamp in Ports).  Only a privileged domain may
\* name the kernel as the source.
Windows == {[sb |-> sb, rb |-> rb, o |-> o] : sb, rb \in Pages, o \in 0..PageOrder}
del_crd(snd, rcv) ==
    \E w \in {v \in Windows : v.sb % 2^v.o = 0 /\ v.rb % 2^v.o = 0}, offer \in Offers :
        /\ Did("delegate", rcv, Block(w.rb, w.o))
        /\ delegate(snd, rcv, w, offer[1], offer[2])
        /\ UNCHANGED <<free, utcb, kp>>

\* revoke of memory: all rights, both tables, always.
revoke(pd) ==
    \E b \in Pages, o \in 0..PageOrder :
        /\ b % 2^o = 0
        /\ Did("revoke", pd, Block(b, o))
        /\ host' = [host EXCEPT ![pd] = [p \in Pages |-> IF p \in Block(b, o) THEN NoMapping ELSE @[p]]]
        /\ guest' = [guest EXCEPT ![pd] = [p \in Pages |-> IF p \in Block(b, o) THEN NoMapping ELSE @[p]]]
        /\ Flush(pd, \E p \in Block(b, o) : present(host[pd][p]) \/ present(guest[pd][p]))
        /\ UNCHANGED <<free, utcb, kp>>

insert(pd, p, m) == host' = [host EXCEPT ![pd][p] = m]
KernelPage(f) == Mapping(f, {"P", "W", "U", "NX", "NODELEG"})

\* The mapping of page p is replaced and nothing is flushed.
NoFlush(pd, p) ==
    /\ tlb' = tlb
    /\ lost' = lost \cup {t \in tlb : t[1] = pd /\ t[2] = p}

\* The constructor of an EC maps its UTCB; nothing is flushed.
create_ec(pd, p) ==
    /\ utcb = NoWindow /\ UtcbFrame \in free
    /\ Did("utcb", pd, {p})
    /\ insert(pd, p, KernelPage(UtcbFrame))
    /\ utcb' = [pd |-> pd, p |-> p] /\ free' = free \ {UtcbFrame}
    /\ NoFlush(pd, p)
    /\ UNCHANGED <<guest, kp>>

\* Ec::pre_free unmaps it, and the destructor gives the page back.
Ec_pre_free ==
    /\ utcb # NoWindow
    /\ Did("utcb", utcb.pd, {utcb.p})
    /\ insert(utcb.pd, utcb.p, NoMapping)
    /\ utcb' = NoWindow /\ free' = free \cup {UtcbFrame}
    /\ NoFlush(utcb.pd, utcb.p)
    /\ UNCHANGED <<guest, kp>>

\* Mutant: the page is returned with its mapping in place.
FreeMapped ==
    /\ kp # NoWindow
    /\ Did("kp", kp.pd, {kp.p})
    /\ kp' = NoWindow /\ free' = free \cup {KpFrame}
    /\ UNCHANGED <<host, guest, utcb, tlb, lost>>

\* Kp::add_user_mapping and Kp::remove_user_mapping flush what they replace.
add_user_mapping(pd, p) ==
    /\ kp = NoWindow /\ KpFrame \notin free
    /\ Did("kp", pd, {p})
    /\ insert(pd, p, KernelPage(KpFrame))
    /\ kp' = [pd |-> pd, p |-> p]
    /\ Flush(pd, present(host[pd][p]))
    /\ UNCHANGED <<guest, free, utcb>>

remove_user_mapping(destroy) ==
    /\ kp # NoWindow
    /\ Did("kp", kp.pd, {kp.p})
    /\ insert(kp.pd, kp.p, NoMapping)
    /\ kp' = NoWindow
    /\ Flush(kp.pd, present(host[kp.pd][kp.p]))
    /\ free' = IF destroy THEN free \cup {KpFrame} ELSE free
    /\ UNCHANGED <<guest, utcb>>

\* ~Kp: unmap, flush, and give the page back.
Kp_free == remove_user_mapping(TRUE)

\* The APIC access page goes into the guest table only.
map_access_page(pd, p) ==
    /\ Did("access_page", pd, {p})
    /\ guest' = [guest EXCEPT ![pd][p] = Mapping(ApicFrame, {"P", "U", "W", "NX"})]
    /\ UNCHANGED <<host, tlb, lost, free, utcb, kp>>

\* User space of pd uses a page.
Access(pd, p) ==
    /\ present(host[pd][p]) /\ Cardinality(tlb) < MaxCached
    /\ tlb' = tlb \cup {<<pd, p, host[pd][p].f>>}
    /\ op' = NoOp
    /\ UNCHANGED <<host, guest, lost, free, utcb, kp, ops>>

Next ==
    \/ \E snd \in PDs \cup {Kern}, rcv \in PDs : del_crd(snd, rcv)
    \/ \E pd \in PDs : revoke(pd)
    \/ \E pd \in PDs, p \in Pages : create_ec(pd, p) \/ add_user_mapping(pd, p) \/ map_access_page(pd, p) \/ Access(pd, p)
    \/ Ec_pre_free \/ remove_user_mapping(FALSE) \/ Kp_free

Spec == Init /\ [][Next]_vars
----------------------------------------------------------------------------
Rights(m) == (m.a \cap {"W"}) \cup (IF "NX" \in m.a THEN {} ELSE {"X"})

\* However memory was passed on, user space and guests hold at most the rights
\* that the golden table gives, never a claimed frame and none beyond
\* MAXPHYADDR; hypervisor memory stays where the kernel mapped it.
RightsBounded ==
    \A pd \in PDs, p \in Pages :
        /\ \A m \in {host[pd][p], guest[pd][p]} :
            present(m) /\ m.f \notin Kernel =>
                m.f \in Pages \ Claimed /\ m.f < Phys /\ Rights(m) \subseteq Rights(golden[m.f]) /\ "U" \in m.a
        /\ host[pd][p].f = UtcbFrame => utcb = [pd |-> pd, p |-> p]
        /\ host[pd][p].f = KpFrame => kp = [pd |-> pd, p |-> p]
        /\ guest[pd][p].f \notin {UtcbFrame, KpFrame}

\* A delegation or revocation changes the receiver's tables alone, within the
\* receive window, and no CPU keeps a translation that it replaced.
ConfinedStep ==
    op'.kind \in {"delegate", "revoke"} =>
        /\ \A pd \in PDs, p \in Pages :
            host'[pd][p] # host[pd][p] \/ guest'[pd][p] # guest[pd][p] => pd = op'.pd /\ p \in op'.pages
        /\ \A t \in tlb' : LET m == host[t[1]][t[2]] IN
                              present(m) /\ m.f = t[3] => host'[t[1]][t[2]] = m
DelegationConfined == [][ConfinedStep]_vars

\* Every translation that a CPU may have cached is still in the page table,
\* whatever was delegated, revoked and unmapped since, except those that an
\* Ec or its end replaced by or from its UTCB.
TlbCurrent ==
    \A t \in tlb \ lost : present(host[t[1]][t[2]]) /\ host[t[1]][t[2]].f = t[3]

\* A page of hypervisor memory that was shared with user space through a
\* kernel page is neither mapped nor, with the same exception, cached when it is
\* freed.
KpFreedClean == KpFrame \in free =>
    /\ \A t \in tlb \ lost : t[3] # KpFrame
    /\ \A pd \in PDs, p \in Pages : host[pd][p].f # KpFrame

\* What user space can reach, through the page tables and through the TLBs.
MemoryBounded == RightsBounded /\ TlbCurrent /\ KpFreedClean

\* "Pages that might still be referenced by other cores until the next TLB
\* flush ... have to be handled by the initiator of page table modifications":
\* no CPU caches a translation to a frame that is back in the allocator.
NoFreedCached == \A t \in tlb : t[3] \notin free
=============================================================================

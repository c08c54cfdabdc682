-------------------------------- MODULE Mtrr --------------------------------
(***************************************************************************)
(* Memory types: Generic_mtrr_state (include/generic_mtrr.hpp) and the     *)
(* walk over it that gives the memory of the machine to the kernel's       *)
(* domain (Space_mem::insert_root, map_typed_range in src/space_mem.cpp).  *)
(*                                                                         *)
(* Addresses are page numbers.  The fixed-range registers are read one     *)
(* byte at a time as the code does; fixed[i] is the type of the i-th of    *)
(* the 88 fixed ranges (8 of 64 KiB, 16 of 16 KiB, 64 of 4 KiB).  A        *)
(* variable-range register is a naturally aligned block with a type.       *)
(***************************************************************************)
EXTENDS Integers

CONSTANTS Banks,       \* sets of variable-range MTRRs that firmware may leave, as sequences
          Fixed,       \* types of the fixed ranges that firmware may leave
          Regions,     \* regions <<start, end>> that are inserted
          DefaultType, \* type of memory that no MTRR names
          MaxOrder,    \* largest order the page tables can map
          AddrBits,    \* bits of a page number
          Top          \* a page number above all of memory, for ~0

VARIABLES msr,      \* variable-range registers
          fixed,    \* fixed-range registers
          var_mtrr, \* the valid ones, copied at boot; their order does not matter
          region,   \* arguments of insert_root
          pc, cur,  \* insert_root: where it is; map_typed_range moves cur too
          to,       \* end of the range that has one type
          next,     \* where insert_root goes on
          t,        \* that type
          typed     \* page table: <<page, type>>

vars == <<msr, fixed, var_mtrr, region, pc, cur, to, next, t, typed>>

Min2(a, b) == IF a < b THEN a ELSE b

\* Mtrr::size, from the lowest bit of the mask.
size(m) == 2^m.order

\* Firmware leaves naturally aligned ranges below the end of memory, and types that
\* are smaller than ~0U.  What regions there are is up to the boot loader.
MtrrAssumption ==
    /\ AddrBits \in Nat /\ Top \in Nat /\ Top < 2^AddrBits /\ MaxOrder \in Nat
    /\ 2^0 = 1 /\ \A o \in 0..AddrBits : 2^(o + 1) = 2 * 2^o
    /\ \A b \in Banks : \A i \in DOMAIN b :
         /\ b[i].base \in Nat /\ b[i].order \in 0..AddrBits /\ b[i].type \in 0..(Top - 1)
         /\ b[i].base % size(b[i]) = 0 /\ b[i].base + size(b[i]) <= Top
    /\ \A r \in Regions : r[1] \in Nat /\ r[2] \in 0..Top

\* min over the types of matching registers; Top stands for ~0U.
MinType(types) == IF types = {} THEN Top ELSE CHOOSE x \in types : \A y \in types : x <= y

\* Does variable-range register m match the address?
Matches(m, phys) == phys \div size(m) = m.base \div size(m)

\* bit_scan_reverse, bit_scan_forward and max_order.
Log(n) == CHOOSE o \in 0..AddrBits : 2^o <= n /\ n < 2^(o + 1)
Trailing(n) == CHOOSE o \in 0..AddrBits : n % 2^o = 0 /\ n % 2^(o + 1) # 0
max_order(base, n) == IF base = 0 THEN Log(n) ELSE Min2(Trailing(base), Log(n))

-----------------------------------------------------------------------------
(* Faulty variants, against which the properties are tried.                *)

\* A register that starts above the address does not end the range.
SkipHigher(phys) ==
    LET hit == {m \in var_mtrr : phys >= m.base /\ Matches(m, phys)}
    IN  [type |-> MinType({m.type : m \in hit}),
         next |-> MinType({m.base + size(m) : m \in hit})]

-----------------------------------------------------------------------------
(* Generic_mtrr_state.                                                     *)

Init ==
    /\ msr \in Banks /\ fixed \in Fixed /\ region \in Regions
    /\ var_mtrr = {} /\ pc = "init"
    /\ cur = 0 /\ to = 0 /\ next = 0 /\ t = 0 /\ typed = {}

\* Generic_mtrr_state::init.
init ==
    /\ pc = "init"
    /\ var_mtrr' = {msr[i] : i \in {j \in DOMAIN msr : msr[j].valid}}
    /\ pc' = "memtype" /\ cur' = region[1]
    /\ UNCHANGED <<msr, fixed, region, to, next, t, typed>>

\* The variable ranges: the loop of memtype.
Variable(phys) ==
    LET above == {m \in var_mtrr : phys < m.base}
        hit   == {m \in var_mtrr \ above : Matches(m, phys)}
    IN  [type |-> MinType({m.type : m \in hit}),
         next |-> MinType({m.base : m \in above} \cup {m.base + size(m) : m \in hit})]

\* Generic_mtrr_state::memtype: 0x80000, 0xc0000 and 0x100000 are pages 128,
\* 192 and 256; a register holds the types of eight ranges.
memtype(phys) ==
    IF phys < 128
    THEN [type |-> fixed[(phys \div 16) % 8], next |-> phys - (phys % 16) + 16]
    ELSE IF phys < 192
    THEN [type |-> fixed[8 + 8 * ((phys \div 32) % 2) + ((phys \div 4) % 8)],
          next |-> phys - (phys % 4) + 4]
    ELSE IF phys < 256
    THEN [type |-> fixed[24 + 8 * ((phys \div 8) % 8) + (phys % 8)], next |-> phys + 1]
    ELSE LET v == Variable(phys)
         IN  [v EXCEPT !.type = IF @ = Top THEN DefaultType ELSE @]

-----------------------------------------------------------------------------
(* Space_mem.                                                              *)

\* The loop of insert_root: the next range of one type.
insert_root ==
    /\ pc = "memtype" /\ cur < region[2]
    /\ LET r == memtype(cur)
       IN  /\ t' = r.type /\ next' = r.next /\ to' = Min2(r.next, region[2])
    /\ pc' = "map"
    /\ UNCHANGED <<msr, fixed, var_mtrr, region, cur, typed>>

\* One block of map_typed_range.
map_typed_range ==
    /\ pc = "map"
    /\ IF cur < to
         THEN LET n == 2^Min2(MaxOrder, max_order(cur, to - cur))
                  block == cur .. (cur + n - 1)
              IN  /\ typed' = {x \in typed : x[1] \notin block} \cup {<<p, t>> : p \in block}
                  /\ cur' = cur + n /\ UNCHANGED pc
         ELSE /\ cur' = next /\ pc' = "memtype" /\ UNCHANGED typed
    /\ UNCHANGED <<msr, fixed, var_mtrr, region, to, next, t>>

Next == init \/ insert_root \/ map_typed_range

Spec == Init /\ [][Next]_vars

-----------------------------------------------------------------------------
(* Properties.                                                             *)

\* What the architecture says: a fixed range below 1 MiB, above it the
\* variable ranges that contain the page, of which the lowest type wins.
TypeOf(p) ==
    IF p < 256
    THEN fixed[CASE p < 128 -> p \div 16 [] p >= 192 -> p - 192 + 24 [] OTHER -> (p - 128) \div 4 + 8]
    ELSE LET hit == {i \in DOMAIN msr : /\ msr[i].valid
                                        /\ p \in msr[i].base .. (msr[i].base + size(msr[i]) - 1)}
         IN  IF hit = {} THEN DefaultType ELSE MinType({msr[i].type : i \in hit})

\* Walking memory in steps of constant type gives every page of the region,
\* and no other, the type that the MTRRs give it: the end that memtype reports
\* never jumps over a register that begins or ends before it.
MemoryTyped ==
    /\ \A x \in typed : x[1] \in region[1] .. (region[2] - 1) /\ x[2] = TypeOf(x[1])
    /\ pc = "memtype" /\ cur >= region[2] =>
           \A p \in region[1] .. (region[2] - 1) : <<p, TypeOf(p)>> \in typed
=============================================================================

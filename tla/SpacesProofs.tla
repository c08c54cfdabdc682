---------------------------- MODULE SpacesProofs ----------------------------
(***************************************************************************)
(* Proofs about the parts that MCSpaces checks side by side: MemSpace, for *)
(* every number of domains and pages and every sequence of delegations and *)
(* revocations, and Context, for every number of ECs and vCPUs.            *)
(***************************************************************************)
EXTENDS Spaces, WellFoundedInduction, TLAPS

Attr == {"P", "U", "A", "D", "W", "NX", "NODELEG", "UC"}
Frames == Pages \cup Kernel
Mappings == [f : Frames, a : SUBSET Attr]

\* What a domain may have: a mapping of memory that is not the hypervisor's,
\* with no more rights than the golden table gives.
Safe(m) ==
    /\ m \in Mappings /\ m.f \in Pages
    /\ present(m) => m.f \notin Claimed /\ Rights(m) \subseteq Rights(golden[m.f]) /\ "U" \in m.a

Types ==
    /\ host \in [PDs \cup {Kern} -> [Pages -> Mappings]] /\ host[Kern] = golden
    /\ guest \in [PDs -> [Pages -> Mappings]]
    /\ tlb \subseteq PDs \X Pages \X Frames
    /\ utcb \in [pd : PDs, p : Pages] \cup {NoWindow}
    /\ kp \in [pd : PDs, p : Pages] \cup {NoWindow}

\* Hypervisor memory is mapped so that it cannot be passed on.
Kept ==
    /\ \A pd \in PDs, p \in Pages :
           host[pd][p].f \in Kernel => host[pd][p] \in {KernelPage(UtcbFrame), KernelPage(KpFrame)}
    /\ KpFrame \in free => kp = NoWindow

IInv == Types /\ Kept /\ MemoryBounded

-----------------------------------------------------------------------------
(* Numbers.                                                                *)

LEMMA Smallest ==
    ASSUME NEW S, S \subseteq Nat, S # {}
    PROVE  \E n \in S : \A m \in S : n <= m
  <1> DEFINE Less == {ss \in Nat \X Nat : ss[1] < ss[2]}
  <1>1. IsWellFoundedOn(Less, Nat)
    BY NatLessThanWellFounded DEF OpToRel
  <1> HIDE DEF Less
  <1>2. \E n \in S : \A m \in S : ~ (<<m, n>> \in Less)
    BY <1>1, WFMin
  <1>3. ASSUME NEW m \in Nat, NEW n \in Nat, m < n PROVE <<m, n>> \in Less
    BY <1>3 DEF Less
  <1>4. \A m \in Nat, n \in Nat : ~(m < n) => n <= m
    OBVIOUS
  <1> QED
    BY <1>2, <1>3, <1>4

LEMMA Largest ==
    ASSUME NEW S, S \subseteq Nat, S # {}, NEW b \in Nat, \A n \in S : n <= b
    PROVE  Max(S) \in S
  <1> DEFINE Gap == {d \in 0..b : b - d \in S}
  <1>1. Gap \subseteq Nat /\ \A n \in S : b - n \in Gap
    OBVIOUS
  <1>2. PICK d \in Gap : \A e \in Gap : d <= e
    BY <1>1, Smallest
  <1>3. \E n \in S : \A m \in S : n >= m
    BY <1>1, <1>2
  <1> QED
    BY <1>3 DEF Max

LEMMA SmallerOfTwo ==
    ASSUME NEW a \in Nat, NEW b \in Nat
    PROVE  Min({a, b}) \in {a, b} /\ Min({a, b}) <= a /\ Min({a, b}) <= b
  <1>1. \E n \in {a, b} : \A m \in {a, b} : n <= m
    OBVIOUS
  <1> QED
    BY <1>1 DEF Min

LEMMA Powers == \A o \in 0..(PageOrder + 1) : 2^o \in Nat \ {0}
  <1> USE SpaceAssumption
  <1> DEFINE Wrong == {o \in 0..(PageOrder + 1) : 2^o \notin Nat \ {0}}
  <1> SUFFICES ASSUME Wrong # {} PROVE FALSE
    OBVIOUS
  <1>1. PICK n \in Wrong : \A m \in Wrong : n <= m
    BY Smallest, Wrong \subseteq Nat
  <1>2. 0 \notin Wrong
    <2>1. 2^0 \in Nat \ {0}
      BY 2^0 = 1
    <2> QED
      BY <2>1
  <1>3. n - 1 \in 0..PageOrder
    <2>1. n # 0 /\ n \in 0..(PageOrder + 1)
      BY <1>2
    <2> QED
      BY <2>1
  <1>4. n - 1 \notin Wrong
    BY <1>1, <1>3
  <1>5. 2^(n - 1) \in Nat \ {0} /\ 2^n = 2 * 2^(n - 1)
    BY <1>3, <1>4
  <1> QED
    BY <1>5

\* A smaller power of two divides a larger one.
LEMMA Divides == \A o \in 0..PageOrder : \E q \in Nat : 2^PageOrder = q * 2^o
  <1> USE SpaceAssumption
  <1> DEFINE Wrong == {k \in 0..PageOrder : ~ \E q \in Nat : 2^PageOrder = q * 2^(PageOrder - k)}
  <1>1. Wrong = {}
    <2> SUFFICES ASSUME Wrong # {} PROVE FALSE
      OBVIOUS
    <2>1. PICK n \in Wrong : \A m \in Wrong : n <= m
      BY Smallest, Wrong \subseteq Nat
    <2>2. n # 0
      <3>1. 2^PageOrder = 1 * 2^(PageOrder - 0)
        BY Powers
      <3> QED
        BY <3>1
    <2>3. n - 1 \in 0..PageOrder /\ n - 1 \notin Wrong
      <3>1. n \in 0..PageOrder
        OBVIOUS
      <3>2. n - 1 \in 0..PageOrder /\ ~ (n <= n - 1)
        BY <2>2, <3>1
      <3> QED
        BY <2>1, <3>2
    <2>4. PICK q \in Nat : 2^PageOrder = q * 2^(PageOrder - (n - 1))
      BY <2>3
    <2>5. 2^(PageOrder - (n - 1)) = 2 * 2^(PageOrder - n)
      <3>1. PageOrder - n \in 0..PageOrder /\ PageOrder - (n - 1) = (PageOrder - n) + 1
        BY <2>3
      <3> QED
        BY <3>1
    <2>6. 2^PageOrder = (2 * q) * 2^(PageOrder - n)
      <3>1. 2^(PageOrder - n) \in Nat
        BY Powers
      <3>2. ASSUME NEW x \in Nat PROVE q * (2 * x) = (2 * q) * x
        OBVIOUS
      <3> QED
        BY <2>4, <2>5, <3>1, <3>2
    <2> QED
      BY <2>6, SMTT(30)
  <1>2. ASSUME NEW o \in 0..PageOrder PROVE \E q \in Nat : 2^PageOrder = q * 2^o
    <2>1. PageOrder - o \in 0..PageOrder /\ PageOrder - (PageOrder - o) = o
      OBVIOUS
    <2> QED
      BY <1>1, <2>1
  <1> QED
    BY <1>2

\* An aligned block that begins in user space ends there.
LEMMA BlockInside ==
    ASSUME NEW o \in 0..PageOrder, NEW b \in Pages, b % 2^o = 0
    PROVE  2^o \in Nat \ {0} /\ b + 2^o <= 2^PageOrder /\ Block(b, o) \subseteq Pages
  <1>1. 2^o \in Nat \ {0} /\ 2^PageOrder \in Nat \ {0} /\ b \in Nat /\ b < 2^PageOrder
    BY SpaceAssumption, Powers DEF Pages
  <1>2. PICK q \in Nat : 2^PageOrder = q * 2^o
    BY Divides
  <1>3. PICK k \in Nat : b = k * 2^o
    BY <1>1
  <1>4. k < q
    BY <1>1, <1>2, <1>3
  <1>5. (k + 1) * 2^o <= q * 2^o
    BY <1>1, <1>4
  <1>6. b + 2^o <= 2^PageOrder
    BY <1>1, <1>2, <1>3, <1>5
  <1> QED
    BY <1>1, <1>6 DEF Block, Pages

\* The block that starts at an address contains the address.
LEMMA OwnBlock ==
    ASSUME NEW p \in Pages, NEW size \in Nat \ {0}
    PROVE  p \in Block(p, max_order(p, size))
  <1> USE SpaceAssumption
  <1> DEFINE L == {o \in 0..(PageOrder + 1) : 2^o <= size}
             A == {o \in 0..PageOrder : p % 2^o = 0}
  <1>1. 0 \in L /\ 0 \in A
    <2>1. 2^0 = 1 /\ p \in Nat
      BY Powers DEF Pages
    <2> QED
      BY <2>1
  <1>2. Max(L) \in L /\ Max(A) \in A
    <2>1. L \subseteq Nat /\ A \subseteq Nat /\ \A o \in L \cup A : o <= PageOrder + 1
      OBVIOUS
    <2>2. PageOrder + 1 \in Nat
      OBVIOUS
    <2> HIDE DEF L, A
    <2> QED
      BY <1>1, <2>1, <2>2, Largest
  <1>3. max_order(p, size) \in 0..(PageOrder + 1)
    <2>1. Min({Max(L), Max(A)}) \in {Max(L), Max(A)}
      BY <1>2, SmallerOfTwo
    <2> QED
      BY <1>2, <2>1 DEF max_order
  <1>4. 2^max_order(p, size) \in Nat \ {0}
    BY <1>3, Powers
  <1> QED
    BY <1>4 DEF Block, Pages
-----------------------------------------------------------------------------
(* Rights.                                                                 *)

LEMMA ZeroPage == 0 \in Pages /\ Pages \subseteq Nat /\ NoMapping \in Mappings
  BY SpaceAssumption, Powers DEF Pages, NoMapping, Mapping, Mappings, Frames

LEMMA NoMappingSafe == Safe(NoMapping)
  BY ZeroPage DEF Safe, NoMapping, Mapping, present

LEMMA HwAttr ==
    ASSUME NEW a
    PROVE  hw_attr(a) \in SUBSET Attr /\ (hw_attr(a) # {} => {"P", "U"} \subseteq hw_attr(a))
  BY DEF hw_attr, Attr

LEMMA GoldenSafe == golden \in [Pages -> Mappings] /\ \A p \in Pages : Safe(golden[p])
  <1> SUFFICES ASSUME NEW p \in Pages PROVE golden[p] \in Mappings /\ Safe(golden[p])
    BY DEF golden
  <1>1. CASE p \in Claimed
    BY <1>1, NoMappingSafe, ZeroPage DEF golden
  <1>2. CASE p \notin Claimed
    <2>1. \E a \in SUBSET Attr : golden[p] = Mapping(p, a) /\ {"P", "U"} \subseteq a
      BY <1>2, HwAttr DEF golden, hw_attr
    <2> QED
      BY <1>2, <2>1 DEF Mapping, Mappings, Frames, Safe
  <1> QED
    BY <1>1, <1>2

\* Combining attributes never adds a right.
LEMMA MergeRestricts ==
    ASSUME NEW s \in SUBSET Attr, NEW d \in SUBSET Attr
    PROVE  LET a == merge_hw_attr(s, d)
           IN  /\ a \in SUBSET Attr
               /\ a # {} => "P" \in s
               /\ "U" \in s /\ a # {} => "U" \in a
               /\ "W" \in a => "W" \in s
               /\ a # {} /\ "NX" \in s => "NX" \in a
  <1> DEFINE a == merge_hw_attr(s, d)
  <1>1. CASE ~ ("P" \in s \cap d)
    BY <1>1 DEF merge_hw_attr
  <1>2. CASE "P" \in s \cap d
    <2> DEFINE x == (Flip(s, "NX") \ {"P", "W", "NX"}) \cup (Flip(s, "NX") \cap Flip(d, "NX") \cap {"P", "W", "NX"})
    <2>1. a = Flip(x, "NX")
      BY <1>2 DEF merge_hw_attr
    <2>2. Flip(s, "NX") \subseteq Attr /\ ("NX" \in Flip(s, "NX") <=> "NX" \notin s)
          /\ \A b \in Attr : b # "NX" => (b \in Flip(s, "NX") <=> b \in s)
      BY DEF Flip, Attr
    <2>3. x \subseteq Attr /\ ("NX" \in s => "NX" \notin x) /\ ("U" \in s => "U" \in x) /\ ("W" \in x => "W" \in s)
      BY <2>2 DEF Attr
    <2>4. a \subseteq Attr /\ ("NX" \in a <=> "NX" \notin x) /\ \A b \in Attr : b # "NX" => (b \in a <=> b \in x)
      BY <2>1, <2>3 DEF Flip, Attr
    <2> QED
      BY <1>2, <2>3, <2>4 DEF Attr
  <1> QED
    BY <1>1, <1>2

LEMMA TargetSafe ==
    ASSUME IInv, NEW snd \in PDs \cup {Kern}, NEW base \in Pages, NEW o \in 0..PageOrder, base % 2^o = 0,
           NEW p \in Block(base, o), NEW attrs \in SUBSET Attr
    PROVE  Safe(lookup_and_adjust_rights(snd, p, base, o, attrs))
  <1> DEFINE m == host[snd][p]
             t == lookup_and_adjust_rights(snd, p, base, o, attrs)
  <1>1. p \in Pages /\ base + 2^o \in Nat \ {0} /\ m \in Mappings
    <2>1. p \in Pages /\ base + 2^o \in Nat \ {0}
      BY BlockInside, ZeroPage
    <2> QED
      BY <2>1 DEF IInv, Types
  <1>2. CASE Refused(m) \/ attrs = {} \/ t = NoMapping
    <2>1. p \in Block(p, max_order(p, base + 2^o))
      BY <1>1, OwnBlock
    <2>2. t = NoMapping
      BY <1>2, <2>1 DEF lookup_and_adjust_rights
    <2> QED
      BY <2>2, NoMappingSafe
  <1>3. CASE ~ Refused(m) /\ t # NoMapping
    <2>1. t = Mapping(m.f, merge_hw_attr(m.a, attrs)) /\ merge_hw_attr(m.a, attrs) # {}
      BY <1>3 DEF lookup_and_adjust_rights
    <2>2. /\ t.f = m.f /\ t.a \in SUBSET Attr /\ present(m)
          /\ ("W" \in t.a => "W" \in m.a) /\ ("NX" \in m.a => "NX" \in t.a) /\ ("U" \in m.a => "U" \in t.a)
      <3> HIDE DEF m, t
      <3>1. m.a \in SUBSET Attr /\ t.f = m.f /\ t.a = merge_hw_attr(m.a, attrs)
        BY <1>1, <2>1 DEF Mapping, Mappings
      <3> QED
        BY <2>1, <3>1, MergeRestricts DEF present
    <2>3. Rights(t) \subseteq Rights(m)
      BY <2>2 DEF Rights
    <2>4. m.f \in Pages /\ m.f \notin Claimed /\ Rights(m) \subseteq Rights(golden[m.f]) /\ "U" \in m.a
      <3>1. CASE snd = Kern
        BY <1>1, <2>2, <3>1, GoldenSafe DEF IInv, Types, Safe
      <3>2. CASE snd \in PDs
        <4>1. m.f \notin Kernel
          BY <1>1, <1>3, <3>2 DEF IInv, Kept, KernelPage, Mapping, Refused, present
        <4> QED
          BY <1>1, <1>3, <2>2, <3>2, <4>1 DEF IInv, MemoryBounded, RightsBounded
      <3> QED
        BY <3>1, <3>2
    <2>5. t \in Mappings
      BY <1>1, <2>1, <2>2 DEF Mapping, Mappings
    <2> QED
      BY <2>2, <2>3, <2>4, <2>5 DEF Safe
  <1> QED
    BY <1>2, <1>3

LEMMA ConvertSafe ==
    ASSUME NEW m, Safe(m)
    PROVE  Safe(convert_mapping(m)) /\ (~ Beyond(m) => ~ Beyond(convert_mapping(m)))
  <1>1. CASE ~ present(m)
    BY <1>1, NoMappingSafe DEF convert_mapping, Beyond, NoMapping, Mapping, present
  <1>2. CASE present(m)
    <2>1. PICK a \in SUBSET Attr : /\ convert_mapping(m) = Mapping(m.f, a) /\ "U" \in a
                                   /\ ("W" \in a <=> "W" \in m.a) /\ ("NX" \in a <=> "NX" \in m.a)
      BY <1>2 DEF convert_mapping, Attr
    <2> QED
      BY <1>2, <2>1 DEF Safe, Mapping, Mappings, Rights, Beyond, present
  <1> QED
    BY <1>1, <1>2

-----------------------------------------------------------------------------
(* Delegation.                                                             *)

\* A window is a block of user space on both sides.
LEMMA WindowInside ==
    ASSUME NEW w \in Windows, w.sb % 2^w.o = 0, w.rb % 2^w.o = 0
    PROVE  /\ w.sb \in Pages /\ w.rb \in Pages /\ w.o \in 0..PageOrder /\ 2^w.o \in Nat \ {0}
           /\ Block(w.rb, w.o) \subseteq Pages
           /\ \A p \in Block(w.rb, w.o) : w.sb + (p - w.rb) \in Block(w.sb, w.o)
  <1>1. w.sb \in Pages /\ w.rb \in Pages /\ w.o \in 0..PageOrder
    BY DEF Windows
  <1>2. 2^w.o \in Nat \ {0} /\ Block(w.rb, w.o) \subseteq Pages
    BY <1>1, BlockInside
  <1>3. ASSUME NEW p \in Block(w.rb, w.o) PROVE w.sb + (p - w.rb) \in Block(w.sb, w.o)
    <2>1. w.sb \in Nat /\ w.rb \in Nat
      BY <1>1, ZeroPage
    <2> QED
      BY <1>2, <2>1 DEF Block
  <1> QED
    BY <1>1, <1>2, <1>3

\* A delegation replaces mappings of the receiver, inside the window, by safe
\* ones, and flushes if it replaced a host mapping that was present.
Replaced(old, new, pd, P) ==
    /\ new \in [DOMAIN old -> [Pages -> Mappings]]
    /\ \A q \in DOMAIN old, p \in Pages :
           IF q = pd /\ p \in P THEN Safe(new[q][p]) /\ ~ Beyond(new[q][p]) ELSE new[q][p] = old[q][p]

LEMMA DelegateEffect ==
    ASSUME IInv, NEW snd \in PDs \cup {Kern}, NEW rcv \in PDs,
           NEW w \in Windows, w.sb % 2^w.o = 0, w.rb % 2^w.o = 0,
           NEW attr, NEW sub, delegate(snd, rcv, w, attr, sub)
    PROVE  \E H \in SUBSET Block(w.rb, w.o), G \in SUBSET Block(w.rb, w.o) :
               /\ Replaced(host, host', rcv, H) /\ Replaced(guest, guest', rcv, G)
               /\ \E need \in BOOLEAN : Flush(rcv, need) /\ ((\E p \in H : present(host[rcv][p])) => need)
  <1> DEFINE attrs == hw_attr(attr)
             T == [p \in Block(w.rb, w.o) |-> Target(snd, w, attrs, p)]
  <1>1. /\ w.sb \in Pages /\ w.rb \in Pages /\ w.rb \in Nat /\ w.o \in 0..PageOrder /\ 2^w.o \in Nat \ {0}
        /\ Block(w.rb, w.o) \subseteq Pages
    BY WindowInside, ZeroPage
  <1>2. ASSUME NEW p \in Block(w.rb, w.o) PROVE Safe(T[p])
    BY <1>1, WindowInside, TargetSafe, HwAttr DEF Target
  <1>3. /\ DOMAIN host = PDs \cup {Kern} /\ host \in [PDs \cup {Kern} -> [Pages -> Mappings]]
        /\ DOMAIN guest = PDs /\ guest \in [PDs -> [Pages -> Mappings]]
    BY DEF IInv, Types
  <1>4. CASE UNCHANGED <<host, guest, tlb, lost>>
    <2>1. Replaced(host, host', rcv, {}) /\ Replaced(guest, guest', rcv, {})
      BY <1>3, <1>4 DEF Replaced
    <2>2. Flush(rcv, FALSE)
      BY <1>4 DEF Flush
    <2>3. {} \in SUBSET Block(w.rb, w.o) /\ ~ \E p \in {} : present(host[rcv][p])
      OBVIOUS
    <2> QED
      BY <2>1, <2>2, <2>3, Zenon
  <1>5. CASE ~ UNCHANGED <<host, guest, tlb, lost>>
    <2>1. PICK n \in 0..2^w.o :
             /\ \A p \in w.rb..(w.rb + n - 1) : ~ Beyond(T[p])
             /\ \E g \in {n, Min({n + 1, 2^w.o})} :
                 /\ \A p \in w.rb..(w.rb + g - 1) : ~ Beyond(T[p])
                 /\ host' = IF "host" \in sub
                            THEN [host EXCEPT ![rcv] = [p \in Pages |-> IF p \in w.rb..(w.rb + n - 1) THEN T[p] ELSE @[p]]]
                            ELSE host
                 /\ guest' = IF "guest" \in sub
                             THEN [guest EXCEPT ![rcv] = [p \in Pages |-> IF p \in w.rb..(w.rb + g - 1)
                                                                         THEN convert_mapping(T[p]) ELSE @[p]]]
                             ELSE guest
                 /\ Flush(rcv, need_tlb_flush(rcv, w.rb, n, g, sub) /\ "host" \in sub)
      BY <1>5 DEF delegate
    <2>2. PICK g \in {n, Min({n + 1, 2^w.o})} :
                 /\ \A p \in w.rb..(w.rb + g - 1) : ~ Beyond(T[p])
                 /\ host' = IF "host" \in sub
                            THEN [host EXCEPT ![rcv] = [p \in Pages |-> IF p \in w.rb..(w.rb + n - 1) THEN T[p] ELSE @[p]]]
                            ELSE host
                 /\ guest' = IF "guest" \in sub
                             THEN [guest EXCEPT ![rcv] = [p \in Pages |-> IF p \in w.rb..(w.rb + g - 1)
                                                                         THEN convert_mapping(T[p]) ELSE @[p]]]
                             ELSE guest
                 /\ Flush(rcv, need_tlb_flush(rcv, w.rb, n, g, sub) /\ "host" \in sub)
      BY <2>1
    <2>3. n \in Nat /\ g \in Nat /\ n <= 2^w.o /\ g <= 2^w.o
      <3>1. n \in Nat /\ n + 1 \in Nat /\ n <= 2^w.o
        BY <1>1
      <3> QED
        BY <1>1, <3>1, SmallerOfTwo
    <2> DEFINE H == IF "host" \in sub THEN w.rb..(w.rb + n - 1) ELSE {}
               G == IF "guest" \in sub THEN w.rb..(w.rb + g - 1) ELSE {}
               need == need_tlb_flush(rcv, w.rb, n, g, sub) /\ "host" \in sub
    <2>4. H \in SUBSET Block(w.rb, w.o) /\ G \in SUBSET Block(w.rb, w.o)
      BY <1>1, <2>3 DEF Block
    <2> HIDE DEF T
    <2>5. Replaced(host, host', rcv, H)
      BY <1>1, <1>2, <1>3, <2>1, <2>2, <2>4 DEF Replaced, Safe
    <2>6. Replaced(guest, guest', rcv, G)
      <3>1. \A p \in G : Safe(convert_mapping(T[p])) /\ ~ Beyond(convert_mapping(T[p]))
        BY <1>2, <2>2, <2>4, ConvertSafe
      <3> QED
        BY <1>1, <1>3, <2>2, <2>4, <3>1 DEF Replaced, Safe
    <2>7. Flush(rcv, need) /\ need \in BOOLEAN /\ ((\E p \in H : present(host[rcv][p])) => need)
      BY <2>2 DEF need_tlb_flush
    <2> HIDE DEF H, G, need
    <2> QED
      BY <2>4, <2>5, <2>6, <2>7
  <1> QED
    BY <1>4, <1>5

-----------------------------------------------------------------------------
(* Steps.                                                                  *)

\* Every cached translation belongs to a page of a domain.
LEMMA Cached ==
    ASSUME Types, NEW t \in tlb
    PROVE  t[1] \in PDs /\ t[2] \in Pages /\ t[3] \in Frames
  BY DEF Types

\* What delegations and revocations have in common.
LEMMA ReplaceStep ==
    ASSUME IInv, NEW pd \in PDs, NEW H \in SUBSET Pages, NEW G \in SUBSET Pages,
           Replaced(host, host', pd, H), Replaced(guest, guest', pd, G),
           NEW need \in BOOLEAN, Flush(pd, need), (\E p \in H : present(host[pd][p])) => need,
           UNCHANGED <<free, utcb, kp>>
    PROVE  /\ IInv'
           /\ \A q \in PDs, p \in Pages :
                  /\ host'[q][p] # host[q][p] => q = pd /\ p \in H
                  /\ guest'[q][p] # guest[q][p] => q = pd /\ p \in G
           /\ \A t \in tlb' : present(host[t[1]][t[2]]) => host'[t[1]][t[2]] = host[t[1]][t[2]]
  <1>1. /\ DOMAIN host = PDs \cup {Kern} /\ DOMAIN guest = PDs
        /\ \A q \in PDs, p \in Pages : host[q][p] \in Mappings /\ guest[q][p] \in Mappings
    BY DEF IInv, Types
  <1>2. tlb' \subseteq tlb /\ tlb' \ lost' \subseteq tlb \ lost /\ (need => \A t \in tlb' : t[1] # pd)
    BY DEF Flush
  <1>3. Types'
    <2>1. host'[Kern] = host[Kern]
      <3>1. Kern \in DOMAIN host /\ Kern # pd
        BY <1>1, SpaceAssumption
      <3>2. host' \in [PDs \cup {Kern} -> [Pages -> Mappings]] /\ host \in [PDs \cup {Kern} -> [Pages -> Mappings]]
        BY <1>1 DEF Replaced, IInv, Types
      <3>3. \A p \in Pages : host'[Kern][p] = host[Kern][p]
        BY <3>1 DEF Replaced
      <3> QED
        BY <3>1, <3>2, <3>3
    <2> QED
      BY <1>1, <1>2, <2>1 DEF IInv, Types, Replaced
  <1>4. \A q \in PDs, p \in Pages :
           /\ host'[q][p] = host[q][p] \/ (q = pd /\ p \in H /\ Safe(host'[q][p]) /\ ~ Beyond(host'[q][p]))
           /\ guest'[q][p] = guest[q][p] \/ (q = pd /\ p \in G /\ Safe(guest'[q][p]) /\ ~ Beyond(guest'[q][p]))
    BY <1>1 DEF Replaced
  <1>5. \A m : Safe(m) /\ ~ Beyond(m) => m.f \notin Kernel /\ (present(m) => m.f < Phys)
    BY SpaceAssumption, ZeroPage DEF Safe, Beyond
  <1>6. Kept'
    BY <1>4, <1>5 DEF IInv, Kept
  <1>7. RightsBounded'
    <2> SUFFICES ASSUME NEW q \in PDs, NEW p \in Pages
                 PROVE  /\ \A m \in {host'[q][p], guest'[q][p]} :
                             present(m) /\ m.f \notin Kernel =>
                                 m.f \in Pages \ Claimed /\ m.f < Phys /\ Rights(m) \subseteq Rights(golden[m.f]) /\ "U" \in m.a
                        /\ host'[q][p].f = UtcbFrame => utcb = [pd |-> q, p |-> p]
                        /\ host'[q][p].f = KpFrame => kp = [pd |-> q, p |-> p]
                        /\ guest'[q][p].f \notin {UtcbFrame, KpFrame}
      BY DEF RightsBounded
    <2>1. ASSUME NEW m, Safe(m), ~ Beyond(m)
          PROVE  /\ present(m) => m.f \in Pages \ Claimed /\ m.f < Phys /\ Rights(m) \subseteq Rights(golden[m.f]) /\ "U" \in m.a
                 /\ m.f \notin {UtcbFrame, KpFrame}
      BY <1>5, <2>1 DEF Safe, Kernel
    <2> DEFINE Good(m) == present(m) /\ m.f \notin Kernel =>
                   m.f \in Pages \ Claimed /\ m.f < Phys /\ Rights(m) \subseteq Rights(golden[m.f]) /\ "U" \in m.a
    <2>2. Good(host[q][p]) /\ Good(guest[q][p])
      BY DEF IInv, MemoryBounded, RightsBounded
    <2>3. Good(host'[q][p])
      BY <1>4, <2>1, <2>2
    <2>4. Good(guest'[q][p])
      BY <1>4, <2>1, <2>2
    <2>5. /\ host'[q][p].f = UtcbFrame => utcb = [pd |-> q, p |-> p]
          /\ host'[q][p].f = KpFrame => kp = [pd |-> q, p |-> p]
          /\ guest'[q][p].f \notin {UtcbFrame, KpFrame}
      BY <1>4, <2>1 DEF IInv, MemoryBounded, RightsBounded
    <2> QED
      BY <2>3, <2>4, <2>5
  <1>8. \A t \in tlb' : present(host[t[1]][t[2]]) => host'[t[1]][t[2]] = host[t[1]][t[2]]
    <2> SUFFICES ASSUME NEW t \in tlb', present(host[t[1]][t[2]]), host'[t[1]][t[2]] # host[t[1]][t[2]]
                 PROVE  FALSE
      OBVIOUS
    <2>1. t[1] \in PDs /\ t[2] \in Pages
      BY <1>2, Cached DEF IInv
    <2>2. t[1] = pd /\ t[2] \in H
      BY <1>4, <2>1
    <2> QED
      BY <1>2, <2>2
  <1>9. TlbCurrent' /\ KpFreedClean'
    <2>1. TlbCurrent'
      BY <1>2, <1>8 DEF IInv, MemoryBounded, TlbCurrent
    <2>2. KpFreedClean'
      BY <1>2, <1>4, <1>5 DEF IInv, MemoryBounded, KpFreedClean, Kernel
    <2> QED
      BY <2>1, <2>2
  <1> QED
    BY <1>3, <1>4, <1>6, <1>7, <1>8, <1>9 DEF IInv, MemoryBounded

LEMMA DelegateStep ==
    ASSUME IInv, NEW snd \in PDs \cup {Kern}, NEW rcv \in PDs, del_crd(snd, rcv)
    PROVE  IInv' /\ ConfinedStep
  <1>1. PICK w \in {v \in Windows : v.sb % 2^v.o = 0 /\ v.rb % 2^v.o = 0}, offer \in Offers :
            /\ Did("delegate", rcv, Block(w.rb, w.o))
            /\ delegate(snd, rcv, w, offer[1], offer[2])
            /\ UNCHANGED <<free, utcb, kp>>
    BY DEF del_crd
  <1>2. op'.pd = rcv /\ op'.pages = Block(w.rb, w.o) /\ Block(w.rb, w.o) \subseteq Pages
    BY <1>1, WindowInside DEF Did
  <1>3. PICK H \in SUBSET Block(w.rb, w.o), G \in SUBSET Block(w.rb, w.o) :
            /\ Replaced(host, host', rcv, H) /\ Replaced(guest, guest', rcv, G)
            /\ \E need \in BOOLEAN : Flush(rcv, need) /\ ((\E p \in H : present(host[rcv][p])) => need)
    BY <1>1, DelegateEffect
  <1>4. H \in SUBSET Pages /\ G \in SUBSET Pages
    BY <1>2
  <1>5. /\ IInv'
        /\ \A q \in PDs, p \in Pages :
               /\ host'[q][p] # host[q][p] => q = rcv /\ p \in H
               /\ guest'[q][p] # guest[q][p] => q = rcv /\ p \in G
        /\ \A t \in tlb' : present(host[t[1]][t[2]]) => host'[t[1]][t[2]] = host[t[1]][t[2]]
    BY <1>1, <1>3, <1>4, ReplaceStep
  <1> QED
    BY <1>2, <1>5 DEF ConfinedStep

LEMMA RevokeStep ==
    ASSUME IInv, NEW pd \in PDs, revoke(pd)
    PROVE  IInv' /\ ConfinedStep
  <1>1. PICK b \in Pages, o \in 0..PageOrder :
            /\ b % 2^o = 0
            /\ Did("revoke", pd, Block(b, o))
            /\ host' = [host EXCEPT ![pd] = [p \in Pages |-> IF p \in Block(b, o) THEN NoMapping ELSE @[p]]]
            /\ guest' = [guest EXCEPT ![pd] = [p \in Pages |-> IF p \in Block(b, o) THEN NoMapping ELSE @[p]]]
            /\ Flush(pd, \E p \in Block(b, o) : present(host[pd][p]) \/ present(guest[pd][p]))
            /\ UNCHANGED <<free, utcb, kp>>
    BY DEF revoke
  <1> DEFINE B == Block(b, o)
             need == \E p \in B : present(host[pd][p]) \/ present(guest[pd][p])
  <1>2. op'.pd = pd /\ op'.pages = B /\ B \in SUBSET Pages
    BY <1>1, BlockInside DEF Did
  <1>3. Safe(NoMapping) /\ ~ Beyond(NoMapping) /\ NoMapping \in Mappings
    BY NoMappingSafe, ZeroPage DEF Beyond, NoMapping, Mapping, present
  <1>4. host \in [PDs \cup {Kern} -> [Pages -> Mappings]] /\ guest \in [PDs -> [Pages -> Mappings]]
    BY DEF IInv, Types
  <1>5. Replaced(host, host', pd, B) /\ Replaced(guest, guest', pd, B)
    BY <1>1, <1>2, <1>3, <1>4 DEF Replaced
  <1>6. \E x \in BOOLEAN : Flush(pd, x) /\ ((\E p \in B : present(host[pd][p])) => x)
    <2>1. need \in BOOLEAN /\ Flush(pd, need) /\ ((\E p \in B : present(host[pd][p])) => need)
      BY <1>1
    <2> HIDE DEF need
    <2> QED
      BY <2>1
  <1> HIDE DEF B, need
  <1>7. UNCHANGED <<free, utcb, kp>> /\ B \in SUBSET Pages
    BY <1>1, <1>2
  <1>8. PICK x \in BOOLEAN : Flush(pd, x) /\ ((\E p \in B : present(host[pd][p])) => x)
    BY <1>6
  <1>9. /\ IInv'
        /\ \A q \in PDs, p \in Pages :
               /\ host'[q][p] # host[q][p] => q = pd /\ p \in B
               /\ guest'[q][p] # guest[q][p] => q = pd /\ p \in B
        /\ \A t \in tlb' : present(host[t[1]][t[2]]) => host'[t[1]][t[2]] = host[t[1]][t[2]]
    BY <1>5, <1>7, <1>8, ReplaceStep
  <1> QED
    BY <1>2, <1>9 DEF ConfinedStep

\* One entry of a host table is replaced by a page of the hypervisor or by
\* nothing, and what was cached of it is flushed or known to be lost.
LEMMA InsertStep ==
    ASSUME IInv, NEW pd \in PDs, NEW p \in Pages,
           NEW m \in {NoMapping, KernelPage(UtcbFrame), KernelPage(KpFrame)},
           insert(pd, p, m), guest' = guest,
           utcb' \in [pd : PDs, p : Pages] \cup {NoWindow}, kp' \in [pd : PDs, p : Pages] \cup {NoWindow},
           tlb' \subseteq tlb, tlb' \ lost' \subseteq {t \in tlb \ lost : ~ (t[1] = pd /\ t[2] = p)},
           m.f = UtcbFrame => utcb' = [pd |-> pd, p |-> p],
           m.f = KpFrame => kp' = [pd |-> pd, p |-> p],
           \A q \in PDs, r \in Pages : q # pd \/ r # p =>
               /\ host[q][r].f = UtcbFrame => utcb' = [pd |-> q, p |-> r]
               /\ host[q][r].f = KpFrame => kp' = [pd |-> q, p |-> r],
           KpFrame \in free' => kp' = NoWindow /\ \A t \in tlb' \ lost' : t[3] # KpFrame
    PROVE  IInv'
  <1>1. m \in Mappings /\ (m.f \in Kernel => m \in {KernelPage(UtcbFrame), KernelPage(KpFrame)})
        /\ (m.f \notin Kernel => ~ present(m))
    <2>1. NoMapping.f \notin Kernel /\ ~ present(NoMapping) /\ NoMapping \in Mappings
      BY SpaceAssumption, ZeroPage DEF NoMapping, Mapping, present
    <2>2. \A f \in {UtcbFrame, KpFrame} : KernelPage(f) \in Mappings /\ KernelPage(f).f \in Kernel
      BY DEF KernelPage, Mapping, Mappings, Kernel, Frames, Attr
    <2> QED
      BY <2>1, <2>2
  <1>2. host \in [PDs \cup {Kern} -> [Pages -> Mappings]] /\ Kern # pd
    BY SpaceAssumption DEF IInv, Types
  <1>3. /\ host' \in [PDs \cup {Kern} -> [Pages -> Mappings]] /\ host'[Kern] = host[Kern]
        /\ host'[pd][p] = m
        /\ \A q \in PDs, r \in Pages : q # pd \/ r # p => host'[q][r] = host[q][r]
    BY <1>1, <1>2 DEF insert
  <1>4. Types'
    BY <1>3 DEF IInv, Types
  <1>5. Kept'
    <2>1. ASSUME NEW q \in PDs, NEW r \in Pages, host'[q][r].f \in Kernel
          PROVE  host'[q][r] \in {KernelPage(UtcbFrame), KernelPage(KpFrame)}
      BY <1>1, <1>3, <2>1 DEF IInv, Kept
    <2> QED
      BY <2>1 DEF Kept
  <1>6. RightsBounded'
    <2> DEFINE Good(n) == present(n) /\ n.f \notin Kernel =>
                   n.f \in Pages \ Claimed /\ n.f < Phys /\ Rights(n) \subseteq Rights(golden[n.f]) /\ "U" \in n.a
    <2> SUFFICES ASSUME NEW q \in PDs, NEW r \in Pages
                 PROVE  /\ Good(host'[q][r]) /\ Good(guest'[q][r])
                        /\ host'[q][r].f = UtcbFrame => utcb' = [pd |-> q, p |-> r]
                        /\ host'[q][r].f = KpFrame => kp' = [pd |-> q, p |-> r]
                        /\ guest'[q][r].f \notin {UtcbFrame, KpFrame}
      BY DEF RightsBounded
    <2>1. Good(host[q][r]) /\ Good(guest'[q][r]) /\ guest'[q][r].f \notin {UtcbFrame, KpFrame}
      BY DEF IInv, MemoryBounded, RightsBounded
    <2>2. Good(m)
      BY <1>1
    <2>3. CASE q = pd /\ r = p
      <3>1. host'[q][r] = m
        BY <1>3, <2>3
      <3> QED
        BY <2>1, <2>2, <2>3, <3>1
    <2>4. CASE q # pd \/ r # p
      <3>1. host'[q][r] = host[q][r]
        BY <1>3, <2>4
      <3> QED
        BY <2>1, <2>4, <3>1
    <2> QED
      BY <2>3, <2>4
  <1>7. TlbCurrent'
    <2> SUFFICES ASSUME NEW t \in tlb' \ lost'
                 PROVE  present(host'[t[1]][t[2]]) /\ host'[t[1]][t[2]].f = t[3]
      BY DEF TlbCurrent
    <2>1. t \in tlb \ lost /\ (t[1] # pd \/ t[2] # p) /\ t[1] \in PDs /\ t[2] \in Pages
      BY Cached DEF IInv
    <2>2. host'[t[1]][t[2]] = host[t[1]][t[2]]
      BY <1>3, <2>1
    <2> QED
      BY <2>1, <2>2 DEF IInv, MemoryBounded, TlbCurrent
  <1>8. KpFreedClean'
    <2> SUFFICES ASSUME KpFrame \in free', NEW q \in PDs, NEW r \in Pages PROVE host'[q][r].f # KpFrame
      BY DEF KpFreedClean
    <2>1. host'[q][r].f = KpFrame => kp' = [pd |-> q, p |-> r]
      BY <1>6 DEF RightsBounded
    <2>2. [pd |-> q, p |-> r] # NoWindow
      BY SpaceAssumption
    <2> QED
      BY <2>1, <2>2
  <1> QED
    BY <1>4, <1>5, <1>6, <1>7, <1>8 DEF IInv, MemoryBounded

\* No window is the window of a page.
LEMMA WindowsDiffer ==
    ASSUME NEW q \in PDs, NEW r \in Pages, NEW pd \in PDs, NEW p \in Pages
    PROVE  /\ [pd |-> q, p |-> r] # NoWindow
           /\ [pd |-> q, p |-> r] = [pd |-> pd, p |-> p] => q = pd /\ r = p
  BY SpaceAssumption

\* Where hypervisor memory is mapped, told from the variables.
LEMMA Whereabouts ==
    ASSUME IInv, NEW q \in PDs, NEW r \in Pages
    PROVE  /\ host[q][r].f = UtcbFrame => utcb = [pd |-> q, p |-> r]
           /\ host[q][r].f = KpFrame => kp = [pd |-> q, p |-> r]
  BY DEF IInv, MemoryBounded, RightsBounded

LEMMA KernelPageFrame == \A f : KernelPage(f).f = f /\ present(KernelPage(f))
  BY DEF KernelPage, Mapping, present

LEMMA CreateStep ==
    ASSUME IInv, NEW pd \in PDs, NEW p \in Pages, create_ec(pd, p)
    PROVE  IInv'
  <1>1. /\ utcb = NoWindow /\ insert(pd, p, KernelPage(UtcbFrame)) /\ utcb' = [pd |-> pd, p |-> p]
        /\ free' = free \ {UtcbFrame} /\ guest' = guest /\ kp' = kp
        /\ tlb' = tlb /\ lost' = lost \cup {t \in tlb : t[1] = pd /\ t[2] = p}
    BY DEF create_ec, NoFlush
  <1>2. \A q \in PDs, r \in Pages : q # pd \/ r # p =>
            /\ host[q][r].f = UtcbFrame => utcb' = [pd |-> q, p |-> r]
            /\ host[q][r].f = KpFrame => kp' = [pd |-> q, p |-> r]
    BY <1>1, Whereabouts, WindowsDiffer
  <1>3. KpFrame \in free' => kp' = NoWindow /\ \A t \in tlb' \ lost' : t[3] # KpFrame
    BY <1>1 DEF IInv, Kept, MemoryBounded, KpFreedClean
  <1>4. utcb' \in [pd : PDs, p : Pages] \cup {NoWindow} /\ kp' \in [pd : PDs, p : Pages] \cup {NoWindow}
    BY <1>1 DEF IInv, Types
  <1>5. tlb' \subseteq tlb /\ tlb' \ lost' \subseteq {t \in tlb \ lost : ~ (t[1] = pd /\ t[2] = p)}
    BY <1>1
  <1>6. KernelPage(UtcbFrame).f = UtcbFrame /\ UtcbFrame # KpFrame
    BY KernelPageFrame, SpaceAssumption
  <1> QED
    BY <1>1, <1>2, <1>3, <1>4, <1>5, <1>6, InsertStep

LEMMA PreFreeStep ==
    ASSUME IInv, Ec_pre_free
    PROVE  IInv'
  <1>1. /\ utcb # NoWindow /\ insert(utcb.pd, utcb.p, NoMapping) /\ utcb' = NoWindow
        /\ free' = free \cup {UtcbFrame} /\ guest' = guest /\ kp' = kp
        /\ tlb' = tlb /\ lost' = lost \cup {t \in tlb : t[1] = utcb.pd /\ t[2] = utcb.p}
    BY DEF Ec_pre_free, NoFlush
  <1>2. PICK pd \in PDs, p \in Pages : utcb = [pd |-> pd, p |-> p]
    BY <1>1 DEF IInv, Types
  <1>3. utcb.pd = pd /\ utcb.p = p
    BY <1>2
  <1>4. \A q \in PDs, r \in Pages : q # pd \/ r # p =>
            /\ host[q][r].f = UtcbFrame => utcb' = [pd |-> q, p |-> r]
            /\ host[q][r].f = KpFrame => kp' = [pd |-> q, p |-> r]
    BY <1>1, <1>2, Whereabouts, WindowsDiffer
  <1>5. KpFrame \in free' => kp' = NoWindow /\ \A t \in tlb' \ lost' : t[3] # KpFrame
    BY <1>1, SpaceAssumption DEF IInv, Kept, MemoryBounded, KpFreedClean
  <1>6. utcb' \in [pd : PDs, p : Pages] \cup {NoWindow} /\ kp' \in [pd : PDs, p : Pages] \cup {NoWindow}
    BY <1>1 DEF IInv, Types
  <1>7. tlb' \subseteq tlb /\ tlb' \ lost' \subseteq {t \in tlb \ lost : ~ (t[1] = pd /\ t[2] = p)}
    BY <1>1, <1>3
  <1>8. NoMapping.f # UtcbFrame /\ NoMapping.f # KpFrame
    BY SpaceAssumption, ZeroPage DEF NoMapping, Mapping, Kernel
  <1>9. insert(pd, p, NoMapping)
    BY <1>1, <1>3
  <1> QED
    BY <1>1, <1>4, <1>5, <1>6, <1>7, <1>8, <1>9, InsertStep

\* A flush that is asked for when the page was present leaves nothing of it.
LEMMA Flushed ==
    ASSUME IInv, NEW pd \in PDs, NEW p \in Pages, Flush(pd, present(host[pd][p]))
    PROVE  tlb' \subseteq tlb /\ tlb' \ lost' \subseteq {t \in tlb \ lost : ~ (t[1] = pd /\ t[2] = p)}
  <1>1. CASE present(host[pd][p])
    BY <1>1 DEF Flush
  <1>2. CASE ~ present(host[pd][p])
    <2>1. tlb' = tlb /\ lost' = lost
      BY <1>2 DEF Flush
    <2>2. \A t \in tlb \ lost : ~ (t[1] = pd /\ t[2] = p)
      BY <1>2 DEF IInv, MemoryBounded, TlbCurrent
    <2> QED
      BY <2>1, <2>2
  <1> QED
    BY <1>1, <1>2

LEMMA AddMappingStep ==
    ASSUME IInv, NEW pd \in PDs, NEW p \in Pages, add_user_mapping(pd, p)
    PROVE  IInv'
  <1>1. /\ kp = NoWindow /\ KpFrame \notin free /\ insert(pd, p, KernelPage(KpFrame)) /\ kp' = [pd |-> pd, p |-> p]
        /\ free' = free /\ guest' = guest /\ utcb' = utcb /\ Flush(pd, present(host[pd][p]))
    BY DEF add_user_mapping
  <1>2. \A q \in PDs, r \in Pages : q # pd \/ r # p =>
            /\ host[q][r].f = UtcbFrame => utcb' = [pd |-> q, p |-> r]
            /\ host[q][r].f = KpFrame => kp' = [pd |-> q, p |-> r]
    BY <1>1, Whereabouts, WindowsDiffer
  <1>3. utcb' \in [pd : PDs, p : Pages] \cup {NoWindow} /\ kp' \in [pd : PDs, p : Pages] \cup {NoWindow}
    BY <1>1 DEF IInv, Types
  <1>4. tlb' \subseteq tlb /\ tlb' \ lost' \subseteq {t \in tlb \ lost : ~ (t[1] = pd /\ t[2] = p)}
    BY <1>1, Flushed
  <1>5. KernelPage(KpFrame).f = KpFrame /\ UtcbFrame # KpFrame
    BY KernelPageFrame, SpaceAssumption
  <1> QED
    BY <1>1, <1>2, <1>3, <1>4, <1>5, InsertStep

LEMMA RemoveMappingStep ==
    ASSUME IInv, NEW destroy \in BOOLEAN, remove_user_mapping(destroy)
    PROVE  IInv'
  <1>1. /\ kp # NoWindow /\ insert(kp.pd, kp.p, NoMapping) /\ kp' = NoWindow
        /\ guest' = guest /\ utcb' = utcb /\ Flush(kp.pd, present(host[kp.pd][kp.p]))
    BY DEF remove_user_mapping
  <1>2. PICK pd \in PDs, p \in Pages : kp = [pd |-> pd, p |-> p]
    BY <1>1 DEF IInv, Types
  <1>3. insert(pd, p, NoMapping) /\ Flush(pd, present(host[pd][p]))
    BY <1>1, <1>2
  <1>4. \A q \in PDs, r \in Pages : q # pd \/ r # p =>
            /\ host[q][r].f = UtcbFrame => utcb' = [pd |-> q, p |-> r]
            /\ host[q][r].f = KpFrame => kp' = [pd |-> q, p |-> r]
    BY <1>1, <1>2, Whereabouts, WindowsDiffer
  <1>5. utcb' \in [pd : PDs, p : Pages] \cup {NoWindow} /\ kp' \in [pd : PDs, p : Pages] \cup {NoWindow}
    BY <1>1 DEF IInv, Types
  <1>6. tlb' \subseteq tlb /\ tlb' \ lost' \subseteq {t \in tlb \ lost : ~ (t[1] = pd /\ t[2] = p)}
    BY <1>3, Flushed
  <1>7. ASSUME NEW t \in tlb' \ lost' PROVE t[3] # KpFrame
    <2>1. t \in tlb \ lost /\ ~ (t[1] = pd /\ t[2] = p) /\ t[1] \in PDs /\ t[2] \in Pages
      BY <1>6, Cached DEF IInv
    <2>2. host[t[1]][t[2]].f = t[3]
      BY <2>1 DEF IInv, MemoryBounded, TlbCurrent
    <2>3. t[3] = KpFrame => kp = [pd |-> t[1], p |-> t[2]]
      BY <2>1, <2>2, Whereabouts
    <2>4. [pd |-> t[1], p |-> t[2]] # [pd |-> pd, p |-> p]
      BY <2>1, WindowsDiffer
    <2> QED
      BY <1>2, <2>3, <2>4
  <1>8. NoMapping.f # UtcbFrame /\ NoMapping.f # KpFrame
    BY SpaceAssumption, ZeroPage DEF NoMapping, Mapping, Kernel
  <1> QED
    BY <1>1, <1>3, <1>4, <1>5, <1>6, <1>7, <1>8, InsertStep

LEMMA AccessPageStep ==
    ASSUME IInv, NEW pd \in PDs, NEW p \in Pages, map_access_page(pd, p)
    PROVE  IInv'
  <1> DEFINE m == Mapping(ApicFrame, {"P", "U", "W", "NX"})
  <1>1. guest' = [guest EXCEPT ![pd][p] = m] /\ UNCHANGED <<host, tlb, lost, free, utcb, kp>>
    BY DEF map_access_page
  <1>2. m \in Mappings /\ m.f \in Kernel \ {UtcbFrame, KpFrame}
    BY SpaceAssumption DEF Mapping, Mappings, Frames, Kernel, Attr
  <1> HIDE DEF m
  <1>3. /\ guest' \in [PDs -> [Pages -> Mappings]]
        /\ \A q \in PDs, r \in Pages : guest'[q][r] \in {m, guest[q][r]}
    BY <1>1, <1>2 DEF IInv, Types
  <1>4. Types' /\ Kept' /\ TlbCurrent' /\ KpFreedClean'
    BY <1>1, <1>3 DEF IInv, Types, Kept, MemoryBounded, TlbCurrent, KpFreedClean
  <1>5. RightsBounded'
    <2> DEFINE Good(n) == present(n) /\ n.f \notin Kernel =>
                   n.f \in Pages \ Claimed /\ n.f < Phys /\ Rights(n) \subseteq Rights(golden[n.f]) /\ "U" \in n.a
    <2> SUFFICES ASSUME NEW q \in PDs, NEW r \in Pages
                 PROVE  /\ Good(host'[q][r]) /\ Good(guest'[q][r])
                        /\ host'[q][r].f = UtcbFrame => utcb' = [pd |-> q, p |-> r]
                        /\ host'[q][r].f = KpFrame => kp' = [pd |-> q, p |-> r]
                        /\ guest'[q][r].f \notin {UtcbFrame, KpFrame}
      BY DEF RightsBounded
    <2>1. host' = host /\ utcb' = utcb /\ kp' = kp
      BY <1>1
    <2>2. Good(host[q][r]) /\ Good(guest[q][r]) /\ guest[q][r].f \notin {UtcbFrame, KpFrame}
      BY DEF IInv, MemoryBounded, RightsBounded
    <2>3. Good(m)
      BY <1>2
    <2> QED
      BY <1>2, <1>3, <2>1, <2>2, <2>3, Whereabouts
  <1> QED
    BY <1>4, <1>5 DEF IInv, MemoryBounded

LEMMA AccessStep ==
    ASSUME IInv, NEW pd \in PDs, NEW p \in Pages, Access(pd, p)
    PROVE  IInv'
  <1>1. /\ present(host[pd][p]) /\ tlb' = tlb \cup {<<pd, p, host[pd][p].f>>}
        /\ UNCHANGED <<host, guest, lost, free, utcb, kp>>
    BY DEF Access
  <1>2. Types'
    <2>1. host[pd][p].f \in Frames
      BY DEF IInv, Types, Mappings
    <2> QED
      BY <1>1, <2>1 DEF IInv, Types
  <1>3. Kept' /\ RightsBounded'
    BY <1>1 DEF IInv, Kept, MemoryBounded, RightsBounded
  <1>4. TlbCurrent' /\ KpFreedClean'
    BY <1>1 DEF IInv, MemoryBounded, TlbCurrent, KpFreedClean
  <1> QED
    BY <1>2, <1>3, <1>4 DEF IInv, MemoryBounded

-----------------------------------------------------------------------------
(* The theorems.                                                           *)

LEMMA Start == Init => IInv
  <1> SUFFICES ASSUME Init PROVE IInv
    OBVIOUS
  <1>1. /\ \A pd \in PDs, p \in Pages : host[pd][p] = NoMapping /\ guest[pd][p] = NoMapping
        /\ host[Kern] = golden
    BY SpaceAssumption DEF Init
  <1>2. Types
    <2>1. golden \in [Pages -> Mappings] /\ [p \in Pages |-> NoMapping] \in [Pages -> Mappings]
      BY GoldenSafe, ZeroPage
    <2>2. host \in [PDs \cup {Kern} -> [Pages -> Mappings]] /\ guest \in [PDs -> [Pages -> Mappings]]
      BY <2>1 DEF Init
    <2> QED
      BY <1>1, <2>2 DEF Init, Types
  <1>3. NoMapping.f \notin Kernel /\ ~ present(NoMapping)
    BY SpaceAssumption, ZeroPage DEF NoMapping, Mapping, present
  <1>4. Kept /\ RightsBounded
    BY <1>1, <1>3, SpaceAssumption DEF Init, Kept, RightsBounded, Kernel
  <1>5. TlbCurrent /\ KpFreedClean
    BY SpaceAssumption DEF Init, TlbCurrent, KpFreedClean
  <1> QED
    BY <1>2, <1>4, <1>5 DEF IInv, MemoryBounded

LEMMA Step ==
    ASSUME IInv, [Next]_vars
    PROVE  IInv' /\ [ConfinedStep]_vars
  <1>1. CASE UNCHANGED vars
    BY <1>1 DEF vars, IInv, Types, Kept, MemoryBounded, RightsBounded, TlbCurrent, KpFreedClean
  <1>2. ASSUME NEW snd \in PDs \cup {Kern}, NEW rcv \in PDs, del_crd(snd, rcv) PROVE IInv' /\ ConfinedStep
    BY <1>2, DelegateStep
  <1>3. ASSUME NEW pd \in PDs, revoke(pd) PROVE IInv' /\ ConfinedStep
    BY <1>3, RevokeStep
  <1>4. ASSUME NEW pd \in PDs, NEW p \in Pages,
               create_ec(pd, p) \/ add_user_mapping(pd, p) \/ map_access_page(pd, p) \/ Access(pd, p)
        PROVE  IInv' /\ ConfinedStep
    <2>1. op' = NoOp
      BY <1>4 DEF create_ec, add_user_mapping, map_access_page, Access, Did
    <2> QED
      BY <1>4, <2>1, CreateStep, AddMappingStep, AccessPageStep, AccessStep DEF ConfinedStep, NoOp
  <1>5. ASSUME Ec_pre_free \/ remove_user_mapping(FALSE) \/ Kp_free PROVE IInv' /\ ConfinedStep
    <2>1. op' = NoOp
      BY <1>5 DEF Ec_pre_free, remove_user_mapping, Kp_free, Did
    <2> QED
      BY <1>5, <2>1, PreFreeStep, RemoveMappingStep DEF ConfinedStep, NoOp, Kp_free
  <1> QED
    BY <1>1, <1>2, <1>3, <1>4, <1>5 DEF Next

\* What user space can reach through the page tables and the TLBs stays within
\* what the golden table allows, and no stale translation survives a delegation,
\* a revocation or the end of a kernel page (Space_mem::delegate, revoke, Kp).
THEOREM MemoryIsBounded == Spec => []MemoryBounded
  <1>1. IInv /\ [Next]_vars => IInv'
    BY Step
  <1>2. IInv => MemoryBounded
    BY DEF IInv
  <1> QED
    BY Start, <1>1, <1>2, PTL DEF Spec

\* A delegation or a revocation changes the tables of one domain, within its
\* window, and shoots down what it replaced (Space_mem::delegate, revoke).
THEOREM DelegationIsConfined == Spec => DelegationConfined
  <1>1. IInv /\ [Next]_vars => IInv' /\ [ConfinedStep]_vars
    BY Step
  <1> QED
    BY Start, <1>1, PTL DEF Spec, DelegationConfined

-----------------------------------------------------------------------------
(* The registers that are switched by hand (Context).                      *)

\* What the proofs about Context range over: register values, XCR0 and what is saved.
XVal == Vals \cup {0, Bad}
XXcr == Xcr0s \cup {{"X87"}}
XRec == [dr : XVal, cr2 : XVal, spec : XVal, xcr0 : XXcr]
XPlaces ==
    /\ mode \in {"user", "kernel", "guest"}
    /\ ec \in ECs \cup {Idle} /\ (mode # "kernel" => ec \in ECs)
    /\ mode = "guest" => vcpu \in VCPUs
    /\ lent \in [ECs -> ECs \cup {None}]
XHw == hw \in [fpu : XVal, fs : XVal, dr : XVal, cr2 : XVal, spec : XVal, xcr0 : XXcr \cup {Scb}]
XSaved ==
    /\ area \in [ECs \cup VCPUs -> XVal]
    /\ bases \in [ECs \cup {Idle} -> XVal]
    /\ regs \in [VCPUs -> XRec]
XSeen ==
    /\ seen = [x \in ECs \cup VCPUs |-> seen[x]]
    /\ \A e \in ECs : seen[e] \in [fpu : XVal, fs : XVal]
    /\ \A w \in VCPUs : seen[w] \in [fpu : XVal, dr : XVal, cr2 : XVal, spec : XVal]
XTypes == XPlaces /\ XHw /\ XSaved /\ XSeen

\* What an EC must find is in the registers while it is current, FPU state in its
\* save area while a guest runs, and saved otherwise.
XEcs ==
    \A e \in ECs :
        /\ (IF e = ec /\ mode # "guest" THEN hw.fpu ELSE area[e]) = seen[e].fpu
        /\ (IF e = ec THEN hw.fs ELSE bases[e]) = seen[e].fs

\* What a guest must find is in the registers while it runs and saved otherwise.
XGuests ==
    \A w \in VCPUs :
        IF mode = "guest" /\ w = vcpu
        THEN /\ hw.fpu = seen[w].fpu /\ hw.dr = seen[w].dr
             /\ hw.cr2 = seen[w].cr2 /\ hw.spec = seen[w].spec
        ELSE /\ area[w] = seen[w].fpu /\ regs[w].dr = seen[w].dr
             /\ regs[w].cr2 = seen[w].cr2 /\ regs[w].spec = seen[w].spec

XHost ==
    /\ X!HostClean /\ X!DrCacheExact
    /\ mode = "guest" => X!is_valid_xcr0(Scb, hw.xcr0) /\ hw.xcr0 \in XXcr

XInv == XTypes /\ XEcs /\ XGuests /\ XHost

LEMMA XRecords ==
    ASSUME NEW r \in XRec, NEW u \in XVal, NEW v \in XVal, NEW z \in XVal
    PROVE  /\ \A c \in XXcr : [r EXCEPT !.cr2 = u, !.spec = v, !.xcr0 = c] \in XRec
           /\ [r EXCEPT !.dr = u, !.spec = v] \in XRec
           /\ [r EXCEPT !.dr = u, !.spec = v, !.cr2 = z] \in XRec
  <1> HIDE DEF XVal, XXcr
  <1> QED
    BY DEF XRec

LEMMA XInit == ASSUME X!ContextAssumption, X!Init PROVE XInv
  <1>1. DOMAIN seen = ECs \cup VCPUs /\ seen = [x \in ECs \cup VCPUs |-> seen[x]]
    BY DEF X!Init
  <1>2. \A e \in ECs : seen[e] = [fpu |-> 0, fs |-> 0]
    BY DEF X!Init
  <1>3. \A w \in VCPUs : seen[w] = [fpu |-> 0, dr |-> 0, cr2 |-> 0, spec |-> 0]
    BY DEF X!Init, X!ContextAssumption
  <1>4. XTypes
    BY <1>1, <1>2, <1>3 DEF X!Init, XTypes, XPlaces, XHw, XSaved, XSeen, XVal, XXcr, X!ContextAssumption, XRec
  <1>5. XEcs /\ XGuests
    BY <1>2, <1>3 DEF X!Init, XEcs, XGuests, X!ContextAssumption
  <1>6. XHost
    BY DEF X!Init, XHost, X!HostClean, X!DrCacheExact
  <1> QED
    BY <1>4, <1>5, <1>6 DEF XInv

LEMMA XUser ==
    ASSUME X!ContextAssumption, XInv, NEW x \in Vals, X!UserRuns(x) PROVE XInv'
  <1>1. XTypes'
    <2>1. XPlaces'
      BY DEF X!UserRuns, XInv, XTypes, XPlaces, XHw, XSaved, XSeen, XVal, XRec
    <2>2. XHw'
      BY DEF X!UserRuns, XInv, XTypes, XPlaces, XHw, XSaved, XSeen, XVal, XRec
    <2>3. XSaved'
      BY DEF X!UserRuns, XInv, XTypes, XPlaces, XHw, XSaved, XSeen, XVal, XRec
    <2>4. XSeen'
      <3>1. seen' = [y \in ECs \cup VCPUs |-> IF y = ec THEN [seen[y] EXCEPT !.fpu = x, !.fs = x] ELSE seen[y]]
        BY DEF X!UserRuns, XInv, XTypes, XPlaces, XHw, XSaved, XSeen, XVal, XRec
      <3>2. [seen[ec] EXCEPT !.fpu = x, !.fs = x] \in [fpu : XVal, fs : XVal] /\ ec \in ECs
        BY DEF X!UserRuns, XInv, XTypes, XPlaces, XHw, XSaved, XSeen, XVal, XRec
      <3> QED
        BY <3>1, <3>2 DEF XInv, XTypes, XPlaces, XHw, XSaved, XSeen, XVal, X!ContextAssumption, XRec
    <2> QED
      BY <2>1, <2>2, <2>3, <2>4 DEF XTypes, XRec
  <1>2. XEcs'
    BY ZenonT(60) DEF X!UserRuns, XInv, XTypes, XPlaces, XHw, XSaved, XSeen, XEcs, XRec
  <1>3. XGuests'
    BY DEF X!UserRuns, XInv, XTypes, XPlaces, XHw, XSaved, XSeen, XGuests, X!ContextAssumption, XRec
  <1>4. XHost'
    BY DEF X!UserRuns, XInv, XTypes, XPlaces, XHw, XSaved, XSeen, XHost, X!HostClean, X!DrCacheExact, XRec
  <1> QED
    BY <1>1, <1>2, <1>3, <1>4 DEF XInv

LEMMA XEnter ==
    ASSUME X!ContextAssumption, XInv, X!Enter PROVE XInv'
  <1>1. XTypes'
    <2>1. XPlaces'
      BY DEF X!Enter, XInv, XTypes, XPlaces, XHw, XSaved, XSeen, XVal, X!ContextAssumption, XRec
    <2>2. XHw'
      BY DEF X!Enter, XInv, XTypes, XPlaces, XHw, XSaved, XSeen, XVal, X!ContextAssumption, XRec
    <2>3. XSaved'
      BY DEF X!Enter, XInv, XTypes, XPlaces, XHw, XSaved, XSeen, XVal, X!ContextAssumption, XRec
    <2>4. XSeen'
      BY DEF X!Enter, XInv, XTypes, XPlaces, XHw, XSaved, XSeen, XVal, X!ContextAssumption, XRec
    <2> QED
      BY <2>1, <2>2, <2>3, <2>4 DEF XTypes, XRec
  <1>2. XEcs'
    BY DEF X!Enter, XInv, XTypes, XPlaces, XHw, XSaved, XSeen, XEcs, X!ContextAssumption, XRec
  <1>3. XGuests'
    BY DEF X!Enter, XInv, XTypes, XPlaces, XHw, XSaved, XSeen, XGuests, XHost, X!HostClean, X!DrCacheExact, X!ContextAssumption, XRec
  <1>4. XHost'
    BY DEF X!Enter, XInv, XTypes, XPlaces, XHw, XSaved, XSeen, XHost, X!HostClean, X!DrCacheExact, X!ContextAssumption, XRec
  <1> QED
    BY <1>1, <1>2, <1>3, <1>4 DEF XInv

LEMMA XReturn ==
    ASSUME X!ContextAssumption, XInv, X!ReturnToUser PROVE XInv'
  <1>1. XTypes'
    <2>1. XPlaces'
      BY DEF X!ReturnToUser, XInv, XTypes, XPlaces, XHw, XSaved, XSeen, XVal, X!ContextAssumption, XRec
    <2>2. XHw'
      BY DEF X!ReturnToUser, XInv, XTypes, XPlaces, XHw, XSaved, XSeen, XVal, X!ContextAssumption, XRec
    <2>3. XSaved'
      BY DEF X!ReturnToUser, XInv, XTypes, XPlaces, XHw, XSaved, XSeen, XVal, X!ContextAssumption, XRec
    <2>4. XSeen'
      BY DEF X!ReturnToUser, XInv, XTypes, XPlaces, XHw, XSaved, XSeen, XVal, X!ContextAssumption, XRec
    <2> QED
      BY <2>1, <2>2, <2>3, <2>4 DEF XTypes, XRec
  <1>2. XEcs'
    BY DEF X!ReturnToUser, XInv, XTypes, XPlaces, XHw, XSaved, XSeen, XEcs, X!ContextAssumption, XRec
  <1>3. XGuests'
    BY DEF X!ReturnToUser, XInv, XTypes, XPlaces, XHw, XSaved, XSeen, XGuests, XHost, X!HostClean, X!DrCacheExact, X!ContextAssumption, XRec
  <1>4. XHost'
    BY DEF X!ReturnToUser, XInv, XTypes, XPlaces, XHw, XSaved, XSeen, XHost, X!HostClean, X!DrCacheExact, X!ContextAssumption, XRec
  <1> QED
    BY <1>1, <1>2, <1>3, <1>4 DEF XInv

LEMMA XSwitch ==
    ASSUME X!ContextAssumption, XInv, NEW e \in ECs \cup {Idle}, X!make_current(e) PROVE XInv'
  <1>1. XTypes'
    <2>1. XPlaces'
      BY DEF X!make_current, X!transfer_fpu, X!save_fpu, X!load_fpu, XInv, XTypes, XPlaces, XHw, XSaved, XSeen, XVal, X!ContextAssumption, XRec
    <2>2. XHw'
      BY ZenonT(60) DEF X!make_current, X!transfer_fpu, X!save_fpu, X!load_fpu, XInv, XTypes, XPlaces, XHw, XSaved, XSeen, XVal, X!ContextAssumption, XRec
    <2>3. XSaved'
      BY DEF X!make_current, X!transfer_fpu, X!save_fpu, X!load_fpu, XInv, XTypes, XPlaces, XHw, XSaved, XSeen, XVal, X!ContextAssumption, XRec
    <2>4. XSeen'
      BY DEF X!make_current, X!transfer_fpu, X!save_fpu, X!load_fpu, XInv, XTypes, XPlaces, XHw, XSaved, XSeen, XVal, X!ContextAssumption, XRec
    <2> QED
      BY <2>1, <2>2, <2>3, <2>4 DEF XTypes, XRec
  <1>2. XEcs'
    BY DEF X!make_current, X!transfer_fpu, X!save_fpu, X!load_fpu, XInv, XTypes, XPlaces, XHw, XSaved, XSeen, XEcs, X!ContextAssumption, XRec
  <1>3. XGuests'
    BY DEF X!make_current, X!transfer_fpu, X!save_fpu, X!load_fpu, XInv, XTypes, XPlaces, XHw, XSaved, XSeen, XGuests, XHost, X!HostClean, X!DrCacheExact, X!ContextAssumption, XRec
  <1>4. XHost'
    BY DEF X!make_current, X!transfer_fpu, X!save_fpu, X!load_fpu, XInv, XTypes, XPlaces, XHw, XSaved, XSeen, XHost, X!HostClean, X!DrCacheExact, X!ContextAssumption, XRec
  <1> QED
    BY <1>1, <1>2, <1>3, <1>4 DEF XInv

LEMMA XRecv ==
    ASSUME X!ContextAssumption, XInv, NEW e \in ECs, X!recv_kern(e) PROVE XInv'
  <1>1. XTypes'
    <2>1. XPlaces'
      BY DEF X!recv_kern, X!transfer_fpu, X!save_fpu, X!load_fpu, XInv, XTypes, XPlaces, XHw, XSaved, XSeen, XVal, X!ContextAssumption, XRec
    <2>2. XHw'
      BY ZenonT(60) DEF X!recv_kern, X!transfer_fpu, X!save_fpu, X!load_fpu, XInv, XTypes, XPlaces, XHw, XSaved, XSeen, XVal, X!ContextAssumption, XRec
    <2>3. XSaved'
      BY DEF X!recv_kern, X!transfer_fpu, X!save_fpu, X!load_fpu, XInv, XTypes, XPlaces, XHw, XSaved, XSeen, XVal, X!ContextAssumption, XRec
    <2>4. XSeen'
      BY ZenonT(60) DEF X!recv_kern, X!transfer_fpu, X!save_fpu, X!load_fpu, XInv, XTypes, XPlaces, XHw, XSaved, XSeen, XVal, X!ContextAssumption, XRec
    <2> QED
      BY <2>1, <2>2, <2>3, <2>4 DEF XTypes, XRec
  <1>2. XEcs'
    BY DEF X!recv_kern, X!transfer_fpu, X!save_fpu, X!load_fpu, XInv, XTypes, XPlaces, XHw, XSaved, XSeen, XEcs, X!ContextAssumption, XRec
  <1>3. XGuests'
    BY DEF X!recv_kern, X!transfer_fpu, X!save_fpu, X!load_fpu, XInv, XTypes, XPlaces, XHw, XSaved, XSeen, XGuests, XHost, X!HostClean, X!DrCacheExact, X!ContextAssumption, XRec
  <1>4. XHost'
    BY DEF X!recv_kern, X!transfer_fpu, X!save_fpu, X!load_fpu, XInv, XTypes, XPlaces, XHw, XSaved, XSeen, XHost, X!HostClean, X!DrCacheExact, X!ContextAssumption, XRec
  <1> QED
    BY <1>1, <1>2, <1>3, <1>4 DEF XInv

LEMMA XReply ==
    ASSUME X!ContextAssumption, XInv, X!sys_reply PROVE XInv'
  <1>1. XTypes'
    <2>1. XPlaces'
      BY DEF X!sys_reply, X!transfer_fpu, X!save_fpu, X!load_fpu, XInv, XTypes, XPlaces, XHw, XSaved, XSeen, XVal, X!ContextAssumption, XRec
    <2>2. XHw'
      BY ZenonT(60) DEF X!sys_reply, X!transfer_fpu, X!save_fpu, X!load_fpu, XInv, XTypes, XPlaces, XHw, XSaved, XSeen, XVal, X!ContextAssumption, XRec
    <2>3. XSaved'
      BY DEF X!sys_reply, X!transfer_fpu, X!save_fpu, X!load_fpu, XInv, XTypes, XPlaces, XHw, XSaved, XSeen, XVal, X!ContextAssumption, XRec
    <2>4. XSeen'
      <3> DEFINE e == lent[ec]
                 f == X!transfer_fpu(ec, e).fpu
                 g == seen[ec].fpu
      <3>1. ec \in ECs /\ e \in ECs /\ f \in XVal /\ g \in XVal
        BY DEF X!sys_reply, X!transfer_fpu, X!save_fpu, X!load_fpu, XInv, XTypes, XPlaces, XHw, XSaved, XSeen, XVal, X!ContextAssumption, XRec
      <3>2. seen' = [seen EXCEPT ![e].fpu = g, ![ec].fpu = f]
        BY DEF X!sys_reply
      <3> HIDE DEF e, f, g
      <3> DEFINE s == [y \in ECs \cup VCPUs |-> IF y = e THEN [seen[y] EXCEPT !.fpu = g] ELSE seen[y]]
      <3>5. [seen EXCEPT ![e].fpu = g] = s
        BY <3>1 DEF XInv, XTypes, XSeen
      <3>6. seen' = [s EXCEPT ![ec].fpu = f]
        BY <3>2, <3>5
      <3>7. s[ec] \in [fpu : XVal, fs : XVal] /\ [s[ec] EXCEPT !.fpu = f] = [seen[ec] EXCEPT !.fpu = f]
        BY <3>1 DEF XInv, XTypes, XSeen
      <3>3. seen' = [y \in ECs \cup VCPUs |-> IF y = ec THEN [seen[y] EXCEPT !.fpu = f]
                                             ELSE IF y = e THEN [seen[y] EXCEPT !.fpu = g] ELSE seen[y]]
        BY <3>1, <3>6, <3>7
      <3>4. \A y \in ECs : [seen[y] EXCEPT !.fpu = f] \in [fpu : XVal, fs : XVal]
                          /\ [seen[y] EXCEPT !.fpu = g] \in [fpu : XVal, fs : XVal]
        BY <3>1 DEF XInv, XTypes, XPlaces, XHw, XSaved, XSeen, XVal, XRec
      <3> QED
        BY <3>1, <3>3, <3>4 DEF XInv, XTypes, XPlaces, XHw, XSaved, XSeen, XVal, X!ContextAssumption, XRec
    <2> QED
      BY <2>1, <2>2, <2>3, <2>4 DEF XTypes, XRec
  <1>2. XEcs'
    <2> DEFINE e == lent[ec]
               f == X!transfer_fpu(ec, e).fpu
               g == seen[ec].fpu
    <2>1. ec \in ECs /\ e \in ECs /\ g = hw.fpu /\ mode = "kernel" /\ mode' = mode /\ ec' = ec
      BY DEF X!sys_reply, XInv, XTypes, XPlaces, XHw, XSaved, XSeen, XVal, XEcs, X!ContextAssumption, XRec
    <2>2. seen' = [seen EXCEPT ![e].fpu = g, ![ec].fpu = f] /\ hw' = [hw EXCEPT !.fpu = f] /\ bases' = bases
      BY DEF X!sys_reply
    <2>3. e # ec => area' = [area EXCEPT ![e] = hw.fpu]
      BY <2>1 DEF X!sys_reply, X!transfer_fpu, X!save_fpu, X!ContextAssumption
    <2>4. e = ec => area' = area
      BY <2>1 DEF X!sys_reply, X!transfer_fpu
    <2> HIDE DEF e, f, g
    <2> DEFINE s == [y \in ECs \cup VCPUs |-> IF y = e THEN [seen[y] EXCEPT !.fpu = g] ELSE seen[y]]
    <2>9. [seen EXCEPT ![e].fpu = g] = s
      BY <2>1 DEF XInv, XTypes, XSeen
    <2>10. seen' = [s EXCEPT ![ec].fpu = f]
      BY <2>2, <2>9
    <2>11. [s[ec] EXCEPT !.fpu = f] = [seen[ec] EXCEPT !.fpu = f]
      BY <2>1 DEF XInv, XTypes, XSeen
    <2>5. seen' = [y \in ECs \cup VCPUs |-> IF y = ec THEN [seen[y] EXCEPT !.fpu = f]
                                           ELSE IF y = e THEN [seen[y] EXCEPT !.fpu = g] ELSE seen[y]]
      BY <2>1, <2>10, <2>11
    <2>6. \A y \in ECs : /\ seen'[y].fs = seen[y].fs
                         /\ seen'[y].fpu = IF y = ec THEN f ELSE IF y = e THEN g ELSE seen[y].fpu
      BY <2>1, <2>5 DEF XInv, XTypes, XPlaces, XHw, XSaved, XSeen, XVal, XRec
    <2>7. hw'.fpu = f /\ hw'.fs = hw.fs
      BY <2>2 DEF XInv, XTypes, XPlaces, XHw, XSaved, XSeen, XVal, XRec
    <2>8. \A y \in ECs \ {ec} : area'[y] = IF y = e THEN hw.fpu ELSE area[y]
      BY <2>1, <2>3, <2>4 DEF XInv, XTypes, XPlaces, XHw, XSaved, XSeen, XVal, XRec
    <2> SUFFICES ASSUME NEW y \in ECs
                 PROVE  /\ (IF y = ec THEN hw'.fpu ELSE area'[y]) = seen'[y].fpu
                        /\ (IF y = ec THEN hw'.fs ELSE bases'[y]) = seen'[y].fs
      BY <2>1 DEF XEcs
    <2>12. /\ (IF y = ec THEN hw.fpu ELSE area[y]) = seen[y].fpu
           /\ (IF y = ec THEN hw.fs ELSE bases[y]) = seen[y].fs
      BY <2>1 DEF XInv, XEcs
    <2> QED
      BY <2>1, <2>2, <2>6, <2>7, <2>8, <2>12
  <1>3. XGuests'
    <2>1. ec \in ECs /\ lent[ec] \in ECs /\ mode = "kernel" /\ mode' = mode /\ regs' = regs
      BY DEF X!sys_reply, XInv, XTypes, XPlaces
    <2>2. \A w \in VCPUs : seen'[w] = seen[w]
      BY <2>1 DEF X!sys_reply, XInv, XTypes, XSeen, X!ContextAssumption
    <2>3. \A w \in VCPUs : area'[w] = area[w]
      BY <2>1 DEF X!sys_reply, X!transfer_fpu, X!save_fpu, XInv, XTypes, XSaved, X!ContextAssumption
    <2> QED
      BY <2>1, <2>2, <2>3 DEF XInv, XGuests
  <1>4. XHost'
    BY DEF X!sys_reply, X!transfer_fpu, X!save_fpu, X!load_fpu, XInv, XTypes, XPlaces, XHw, XSaved, XSeen, XHost, X!HostClean, X!DrCacheExact, X!ContextAssumption, XRec
  <1> QED
    BY <1>1, <1>2, <1>3, <1>4 DEF XInv

LEMMA XVmm ==
    ASSUME X!ContextAssumption, XInv, NEW w \in VCPUs, NEW x \in Vals \cup {Bad}, NEW c \in Xcr0s, X!VmmWrites(w, x, c) PROVE XInv'
  <1>1. XTypes'
    <2>1. XPlaces'
      BY DEF X!VmmWrites, XInv, XTypes, XPlaces, XHw, XSaved, XSeen, XVal, X!ContextAssumption, XRec
    <2>2. XHw'
      BY DEF X!VmmWrites, XInv, XTypes, XPlaces, XHw, XSaved, XSeen, XVal, X!ContextAssumption, XRec
    <2>3. XSaved'
      <3> DEFINE y == IF x = Bad THEN 0 ELSE x
      <3>1. y \in XVal /\ c \in XXcr /\ regs' = [regs EXCEPT ![w].cr2 = y, ![w].spec = y, ![w].xcr0 = c]
        BY DEF X!VmmWrites, XVal, XXcr
      <3> HIDE DEF y
      <3>2. regs' = [u \in VCPUs |-> IF u = w THEN [regs[u] EXCEPT !.cr2 = y, !.spec = y, !.xcr0 = c] ELSE regs[u]]
        BY <3>1 DEF XInv, XTypes, XPlaces, XHw, XSaved, XSeen, XVal, XRec
      <3>3. [regs[w] EXCEPT !.cr2 = y, !.spec = y, !.xcr0 = c] \in XRec
        <4>1. hw.dr \in XVal /\ hw.spec \in XVal /\ hw.cr2 \in XVal
          BY DEF XInv, XTypes, XHw
        <4>2. regs[w] \in XRec
          BY <3>1 DEF XInv, XTypes, XSaved
        <4> QED
          BY <3>1, <4>1, <4>2, XRecords
      <3>4. area' \in [ECs \cup VCPUs -> XVal] /\ bases' = bases
        BY DEF X!VmmWrites, XInv, XTypes, XSaved, XVal
      <3> QED
        BY <3>2, <3>3, <3>4 DEF XInv, XTypes, XSaved
    <2>4. XSeen'
      <3> DEFINE y == IF x = Bad THEN 0 ELSE x
      <3>1. y \in XVal /\ seen' = [seen EXCEPT ![w] = [@ EXCEPT !.fpu = x, !.cr2 = y, !.spec = y]]
        BY DEF X!VmmWrites, XVal
      <3> HIDE DEF y
      <3>2. [seen[w] EXCEPT !.fpu = x, !.cr2 = y, !.spec = y] \in [fpu : XVal, dr : XVal, cr2 : XVal, spec : XVal]
        BY <3>1 DEF XInv, XTypes, XPlaces, XHw, XSaved, XSeen, XVal, XRec
      <3> QED
        BY <3>1, <3>2, ZenonT(60) DEF XInv, XTypes, XPlaces, XHw, XSaved, XSeen, XVal, X!ContextAssumption, XRec
    <2> QED
      BY <2>1, <2>2, <2>3, <2>4 DEF XTypes, XRec
  <1>2. XEcs'
    BY DEF X!VmmWrites, XInv, XTypes, XPlaces, XHw, XSaved, XSeen, XEcs, X!ContextAssumption, XRec
  <1>3. XGuests'
    BY DEF X!VmmWrites, XInv, XTypes, XPlaces, XHw, XSaved, XSeen, XGuests, XHost, X!HostClean, X!DrCacheExact, X!ContextAssumption, XRec
  <1>4. XHost'
    BY DEF X!VmmWrites, XInv, XTypes, XPlaces, XHw, XSaved, XSeen, XHost, X!HostClean, X!DrCacheExact, X!ContextAssumption, XRec
  <1> QED
    BY <1>1, <1>2, <1>3, <1>4 DEF XInv

LEMMA XRun ==
    ASSUME X!ContextAssumption, XInv, NEW w \in VCPUs, X!run(w) PROVE XInv'
  <1>1. XTypes'
    <2>1. XPlaces'
      BY DEF X!run, X!save_fpu, XInv, XTypes, XPlaces, XHw, XSaved, XSeen, XVal, X!ContextAssumption, XRec
    <2>2. XHw'
      <3>1. area'[w] \in XVal
        BY DEF X!run, X!save_fpu, XInv, XTypes, XPlaces, XHw, XSaved, XSeen, XVal, X!ContextAssumption, XRec
      <3>2. regs[w].xcr0 \in XXcr \cup {Scb} /\ regs[w].cr2 \in XVal /\ regs[w].dr \in XVal /\ regs[w].spec \in XVal
        BY DEF XInv, XTypes, XPlaces, XHw, XSaved, XSeen, XVal, XRec
      <3> QED
        BY <3>1, <3>2 DEF X!run, XInv, XTypes, XPlaces, XHw, XSaved, XSeen, XVal, XRec
    <2>3. XSaved'
      BY DEF X!run, X!save_fpu, XInv, XTypes, XPlaces, XHw, XSaved, XSeen, XVal, X!ContextAssumption, XRec
    <2>4. XSeen'
      BY DEF X!run, X!save_fpu, XInv, XTypes, XPlaces, XHw, XSaved, XSeen, XVal, X!ContextAssumption, XRec
    <2> QED
      BY <2>1, <2>2, <2>3, <2>4 DEF XTypes, XRec
  <1>2. XEcs'
    BY DEF X!run, X!save_fpu, XInv, XTypes, XPlaces, XHw, XSaved, XSeen, XEcs, X!ContextAssumption, XRec
  <1>3. XGuests'
    BY DEF X!run, X!save_fpu, XInv, XTypes, XPlaces, XHw, XSaved, XSeen, XGuests, XHost, X!HostClean, X!DrCacheExact, X!ContextAssumption, XRec
  <1>4. XHost'
    BY DEF X!run, X!save_fpu, XInv, XTypes, XPlaces, XHw, XSaved, XSeen, XHost, X!HostClean, X!DrCacheExact, X!ContextAssumption, XRec
  <1> QED
    BY <1>1, <1>2, <1>3, <1>4 DEF XInv

LEMMA XRefuse ==
    ASSUME X!ContextAssumption, XInv, NEW w \in VCPUs, X!RefuseEntry(w) PROVE XInv'
  <1>1. XTypes'
    <2>1. XPlaces'
      BY DEF X!RefuseEntry, X!save_fpu, XInv, XTypes, XPlaces, XHw, XSaved, XSeen, XVal, X!ContextAssumption, XRec
    <2>2. XHw'
      BY DEF X!RefuseEntry, X!save_fpu, XInv, XTypes, XPlaces, XHw, XSaved, XSeen, XVal, X!ContextAssumption, XRec
    <2>3. XSaved'
      <3>1. w \in VCPUs /\ regs' = [regs EXCEPT ![w].dr = hw.dr, ![w].spec = hw.spec]
        BY DEF X!RefuseEntry, X!save_dr, XInv, XTypes, XPlaces, XHw, XSaved, XSeen, XVal, XRec
      <3>2. regs' = [u \in VCPUs |-> IF u = w THEN [regs[u] EXCEPT !.dr = hw.dr, !.spec = hw.spec] ELSE regs[u]]
        BY <3>1 DEF XInv, XTypes, XPlaces, XHw, XSaved, XSeen, XVal, XRec
      <3>3. [regs[w] EXCEPT !.dr = hw.dr, !.spec = hw.spec] \in XRec
        <4>1. hw.dr \in XVal /\ hw.spec \in XVal /\ hw.cr2 \in XVal
          BY DEF XInv, XTypes, XHw
        <4>2. regs[w] \in XRec
          BY <3>1 DEF XInv, XTypes, XSaved
        <4> QED
          BY <3>1, <4>1, <4>2, XRecords
      <3>4. area' \in [ECs \cup VCPUs -> XVal] /\ bases' = bases
        BY DEF X!RefuseEntry, X!save_fpu, XInv, XTypes, XPlaces, XHw, XSaved, XSeen, XVal, XRec
      <3> QED
        BY <3>1, <3>2, <3>3, <3>4 DEF XInv, XTypes, XPlaces, XHw, XSaved, XSeen, XVal, XRec
    <2>4. XSeen'
      BY ZenonT(60) DEF X!RefuseEntry, X!save_fpu, XInv, XTypes, XPlaces, XHw, XSaved, XSeen, XVal, X!ContextAssumption, XRec
    <2> QED
      BY <2>1, <2>2, <2>3, <2>4 DEF XTypes, XRec
  <1>2. XEcs'
    BY DEF X!RefuseEntry, X!save_fpu, XInv, XTypes, XPlaces, XHw, XSaved, XSeen, XEcs, X!ContextAssumption, XRec
  <1>3. XGuests'
    BY DEF X!RefuseEntry, X!save_fpu, XInv, XTypes, XPlaces, XHw, XSaved, XSeen, XGuests, XHost, X!HostClean, X!DrCacheExact, X!ContextAssumption, XRec
  <1>4. XHost'
    BY DEF X!RefuseEntry, X!save_fpu, XInv, XTypes, XPlaces, XHw, XSaved, XSeen, XHost, X!HostClean, X!DrCacheExact, X!ContextAssumption, XRec
  <1> QED
    BY <1>1, <1>2, <1>3, <1>4 DEF XInv

LEMMA XGuest ==
    ASSUME X!ContextAssumption, XInv, NEW x \in Vals, X!GuestRuns(x) PROVE XInv'
  <1>1. XTypes'
    <2>1. XPlaces'
      BY DEF X!GuestRuns, XInv, XTypes, XPlaces, XHw, XSaved, XSeen, XVal, X!ContextAssumption, XRec
    <2>2. XHw'
      BY DEF X!GuestRuns, XInv, XTypes, XPlaces, XHw, XSaved, XSeen, XVal, X!ContextAssumption, XRec
    <2>3. XSaved'
      BY DEF X!GuestRuns, XInv, XTypes, XPlaces, XHw, XSaved, XSeen, XVal, X!ContextAssumption, XRec
    <2>4. XSeen'
      BY DEF X!GuestRuns, XInv, XTypes, XPlaces, XHw, XSaved, XSeen, XVal, X!ContextAssumption, XRec
    <2> QED
      BY <2>1, <2>2, <2>3, <2>4 DEF XTypes, XRec
  <1>2. XEcs'
    BY DEF X!GuestRuns, XInv, XTypes, XPlaces, XHw, XSaved, XSeen, XEcs, X!ContextAssumption, XRec
  <1>3. XGuests'
    BY DEF X!GuestRuns, XInv, XTypes, XPlaces, XHw, XSaved, XSeen, XGuests, XHost, X!HostClean, X!DrCacheExact, X!ContextAssumption, XRec
  <1>4. XHost'
    BY DEF X!GuestRuns, XInv, XTypes, XPlaces, XHw, XSaved, XSeen, XHost, X!HostClean, X!DrCacheExact, X!ContextAssumption, XRec
  <1> QED
    BY <1>1, <1>2, <1>3, <1>4 DEF XInv

LEMMA XExit ==
    ASSUME X!ContextAssumption, XInv, X!handle_vmx PROVE XInv'
  <1>1. XTypes'
    <2>1. XPlaces'
      BY DEF X!handle_vmx, X!save_dr, X!load_fpu, XInv, XTypes, XPlaces, XHw, XSaved, XSeen, XVal, X!ContextAssumption, XRec
    <2>2. XHw'
      BY ZenonT(60) DEF X!handle_vmx, X!save_dr, X!load_fpu, XInv, XTypes, XPlaces, XHw, XSaved, XSeen, XVal, X!ContextAssumption, XRec
    <2>3. XSaved'
      <3>1. vcpu \in VCPUs /\ regs' = [regs EXCEPT ![vcpu].dr = hw.dr, ![vcpu].spec = hw.spec, ![vcpu].cr2 = hw.cr2]
        BY DEF X!handle_vmx, X!save_dr, XInv, XTypes, XPlaces, XHw, XSaved, XSeen, XVal, XRec
      <3>2. regs' = [u \in VCPUs |-> IF u = vcpu THEN [regs[u] EXCEPT !.dr = hw.dr, !.spec = hw.spec, !.cr2 = hw.cr2] ELSE regs[u]]
        BY <3>1 DEF XInv, XTypes, XPlaces, XHw, XSaved, XSeen, XVal, XRec
      <3>3. [regs[vcpu] EXCEPT !.dr = hw.dr, !.spec = hw.spec, !.cr2 = hw.cr2] \in XRec
        <4>1. hw.dr \in XVal /\ hw.spec \in XVal /\ hw.cr2 \in XVal
          BY DEF XInv, XTypes, XHw
        <4>2. regs[vcpu] \in XRec
          BY <3>1 DEF XInv, XTypes, XSaved
        <4> QED
          BY <3>1, <4>1, <4>2, XRecords
      <3>4. area' \in [ECs \cup VCPUs -> XVal] /\ bases' = bases
        BY DEF X!handle_vmx, X!save_fpu, XInv, XTypes, XPlaces, XHw, XSaved, XSeen, XVal, XRec
      <3> QED
        BY <3>1, <3>2, <3>3, <3>4, ZenonT(60) DEF XInv, XTypes, XPlaces, XHw, XSaved, XSeen, XVal, XRec
    <2>4. XSeen'
      BY DEF X!handle_vmx, X!save_dr, X!load_fpu, XInv, XTypes, XPlaces, XHw, XSaved, XSeen, XVal, X!ContextAssumption, XRec
    <2> QED
      BY <2>1, <2>2, <2>3, <2>4 DEF XTypes, XRec
  <1>2. XEcs'
    BY DEF X!handle_vmx, X!save_dr, X!load_fpu, XInv, XTypes, XPlaces, XHw, XSaved, XSeen, XEcs, X!ContextAssumption, XRec
  <1>3. XGuests'
    BY DEF X!handle_vmx, X!save_dr, X!load_fpu, XInv, XTypes, XPlaces, XHw, XSaved, XSeen, XGuests, XHost, X!HostClean, X!DrCacheExact, X!ContextAssumption, XRec
  <1>4. XHost'
    BY DEF X!handle_vmx, X!save_dr, X!load_fpu, XInv, XTypes, XPlaces, XHw, XSaved, XSeen, XHost, X!HostClean, X!DrCacheExact, X!ContextAssumption, XRec
  <1> QED
    BY <1>1, <1>2, <1>3, <1>4 DEF XInv

LEMMA XSuspend ==
    ASSUME X!ContextAssumption, XInv, X!Suspend PROVE XInv'
  <1>1. XTypes'
    <2>1. XPlaces'
      BY DEF X!Suspend, X!transfer_fpu, X!save_fpu, X!load_fpu, XInv, XTypes, XPlaces, XHw, XSaved, XSeen, XVal, X!ContextAssumption, XRec
    <2>2. XHw'
      BY DEF X!Suspend, X!transfer_fpu, X!save_fpu, X!load_fpu, XInv, XTypes, XPlaces, XHw, XSaved, XSeen, XVal, X!ContextAssumption, XRec
    <2>3. XSaved'
      BY DEF X!Suspend, X!transfer_fpu, X!save_fpu, X!load_fpu, XInv, XTypes, XPlaces, XHw, XSaved, XSeen, XVal, X!ContextAssumption, XRec
    <2>4. XSeen'
      BY DEF X!Suspend, X!transfer_fpu, X!save_fpu, X!load_fpu, XInv, XTypes, XPlaces, XHw, XSaved, XSeen, XVal, X!ContextAssumption, XRec
    <2> QED
      BY <2>1, <2>2, <2>3, <2>4 DEF XTypes, XRec
  <1>2. XEcs'
    BY DEF X!Suspend, X!transfer_fpu, X!save_fpu, X!load_fpu, XInv, XTypes, XPlaces, XHw, XSaved, XSeen, XEcs, X!ContextAssumption, XRec
  <1>3. XGuests'
    BY DEF X!Suspend, X!transfer_fpu, X!save_fpu, X!load_fpu, XInv, XTypes, XPlaces, XHw, XSaved, XSeen, XGuests, XHost, X!HostClean, X!DrCacheExact, X!ContextAssumption, XRec
  <1>4. XHost'
    BY DEF X!Suspend, X!transfer_fpu, X!save_fpu, X!load_fpu, XInv, XTypes, XPlaces, XHw, XSaved, XSeen, XHost, X!HostClean, X!DrCacheExact, X!ContextAssumption, XRec
  <1> QED
    BY <1>1, <1>2, <1>3, <1>4 DEF XInv

LEMMA XStep == ASSUME X!ContextAssumption, XInv, [X!Next]_X!vars PROVE XInv'
  <1>1. CASE UNCHANGED X!vars
    BY <1>1 DEF X!vars, XInv, XTypes, XPlaces, XHw, XSaved, XSeen, XEcs, XGuests, XHost, X!HostClean, X!DrCacheExact
  <1>2. CASE X!Next
    BY <1>2, XUser, XEnter, XReturn, XSwitch, XRecv, XReply, XVmm, XRun, XRefuse, XGuest, XExit, XSuspend
       DEF X!Next
  <1> QED
    BY <1>1, <1>2

\* What is_valid_xcr0 lets through.
LEMMA XXcr0 ==
    ASSUME X!ContextAssumption, NEW x \in XXcr, X!is_valid_xcr0(Scb, x)
    PROVE  /\ {"X87"} \subseteq x /\ x \subseteq Scb
           /\ "AVX" \in x => "SSE" \in x
           /\ x \cap X!AVX512 # {} => X!AVX512 \cup {"AVX"} \subseteq x
  BY DEF X!ContextAssumption, XXcr, X!is_valid_xcr0, X!AVX512

LEMMA XKept == ASSUME X!ContextAssumption, XInv PROVE X!ContextKept
  <1>1. X!EcKept
    BY DEF XInv, XEcs, XTypes, XPlaces, X!EcKept
  <1>2. X!GuestKept
    <2> SUFFICES ASSUME mode = "guest" PROVE X!GuestKept
      BY DEF X!GuestKept
    <2>1. vcpu \in VCPUs /\ hw.xcr0 \in XXcr /\ X!is_valid_xcr0(Scb, hw.xcr0)
      BY DEF XInv, XTypes, XPlaces, XHost
    <2>2. \A f \in {"fpu", "dr", "cr2", "spec"} : hw[f] = seen[vcpu][f]
      BY <2>1 DEF XInv, XGuests
    <2> QED
      BY <2>1, <2>2, XXcr0 DEF X!GuestKept
  <1> QED
    BY <1>1, <1>2 DEF X!ContextKept, XInv, XHost

\* ECs and guests find their registers again, and the host never runs with those of
\* a guest (Ec::make_current, Ec::transfer_fpu, Vcpu::run, Vcpu::handle_vmx).
THEOREM ContextIsKept == ASSUME X!ContextAssumption PROVE X!Spec => []ContextKept
  <1>1. X!Init => XInv
    BY XInit
  <1>2. XInv /\ [X!Next]_X!vars => XInv'
    BY XStep
  <1>3. XInv => X!ContextKept
    BY XKept
  <1>4. X!ContextKept => ContextKept
    BY DEF ContextKept
  <1> QED
    BY <1>1, <1>2, <1>3, <1>4, PTL DEF X!Spec
=============================================================================

-------------------------------- MODULE Ports --------------------------------
(***************************************************************************)
(* Typed items and the I/O-port space: Pd::xfer_item, xlt_crd, del_crd,    *)
(* rev_crd, delegate<S> and revoke<S> (src/pd.cpp) for ports, with the     *)
(* permission bitmaps of Space_pio (src/space_pio.cpp).                    *)
(*                                                                         *)
(* One system call at a time; what can happen between the steps of two is  *)
(* the subject of Mdb.  A port keeps its number in every domain, so that   *)
(* the nodes of one domain never overlap and the parent of a node is the   *)
(* node of domain from that covers it.  The nodes of the kernel have no    *)
(* space.                                                                  *)
(*                                                                         *)
(* Windows are naturally aligned, and the window of an item that is        *)
(* delegated meets the window of the receiver.                             *)
(***************************************************************************)
EXTENDS Integers

CONSTANTS PDs,      \* domains that own a port space
          Kern,     \* Pd::kern
          Priv,     \* domains with is_priv
          PortBits, \* there are 2^PortBits ports
          Rights,   \* permission bits
          Masks,    \* permission masks that callers pass
          Subs,     \* per receiver, the subspaces that items name: sets of "host", "guest"
          Receive   \* windows [base, order, attr] that receivers open

Ports   == 0 .. 2^PortBits - 1
Windows == {[base |-> b, order |-> o] : b \in Ports, o \in 0..PortBits}
Aligned == {w \in Windows : w.base % 2^w.order = 0}

PortAssumption ==
    /\ PortBits \in Nat /\ 2^0 = 1 /\ \A o \in 0..PortBits : 2^(o + 1) = 2 * 2^o
    /\ Kern \notin PDs
    /\ Masks \subseteq SUBSET Rights
    /\ \A p \in PDs : Subs[p] \subseteq SUBSET {"host", "guest"}
    /\ \A w \in Receive : [base |-> w.base, order |-> w.order] \in Aligned

VARIABLES nodes, \* the trees of all domains: [space, base, order, attr, sub, from]
          bmp    \* I/O permission bitmaps: the ports with a clear bit

vars == <<nodes, bmp>>

Span(w) == w.base .. (w.base + 2^w.order - 1)
Crd0 == [base |-> 0, order |-> -1, attr |-> {}]  \* Crd(0)

\* The constructor of Space_pio (FILL_1), Space::addreg for the kernel.
Init ==
    /\ nodes = {[space |-> Kern, base |-> 0, order |-> PortBits, attr |-> Rights,
                 sub |-> {}, from |-> Kern]}
    /\ bmp = [p \in PDs |-> [s \in {"host", "guest"} |-> {}]]

-----------------------------------------------------------------------------
(* Faulty variants, against which the properties are tried.                *)

\* The bitmaps are written with the rights that the nodes still have.
UpdateWhole(N, r) ==
    [p \in PDs |-> [s \in {"host", "guest"} |->
        bmp[p][s] \cup UNION {Span(n) : n \in {m \in N : m.space = p /\ s \in m.sub}}]]

\* A node that the tree refuses is written to the bitmaps all the same.
DelegateOver(snd, rcv, w, a, sub) ==
    LET made == {[space |-> rcv, base |-> IF m.order < w.order THEN m.base ELSE w.base,
                  order |-> IF m.order < w.order THEN m.order ELSE w.order,
                  attr |-> m.attr \cap a, sub |-> sub, from |-> snd] :
                     m \in {n \in nodes : n.space = snd /\ Span(n) \cap Span(w) # {}}}
    IN  {n \in made : n.attr # {}}

-----------------------------------------------------------------------------
(* Helpers of Pd and Space.                                                *)

\* Pd::clamp of two aligned windows that meet: the smaller one.  Failed is ~0UL.
Failed == [base |-> 0, order |-> -1]
clamp(v, w) ==
    IF Span(v) \cap Span(w) = {} THEN Failed
    ELSE IF v.order < w.order THEN [base |-> v.base, order |-> v.order]
    ELSE [base |-> w.base, order |-> w.order]

\* Space::tree_lookup of a port: no node or one.
tree_lookup(p, port) == {n \in nodes : n.space = p /\ port \in Span(n)}

\* The parent of a node; nodes with all that was derived from them, the subtrees
\* that the loops over Mdb::next visit.
prnt(n) == {m \in nodes : n.space # Kern /\ m.space = n.from /\ n.base \in Span(m)}
Closed(N) == \A n \in nodes : prnt(n) \cap N # {} => n \in N
Derived(N) == {n \in nodes : \A K \in SUBSET nodes : N \subseteq K /\ Closed(K) => n \in K}

\* Space_pio::update(Mdb*, r) of nodes that do not overlap: in each bitmap that
\* a node is for, one bit per port of it.
update(N, r) ==
    [p \in PDs |-> [s \in {"host", "guest"} |->
        LET on == {n \in N : n.space = p /\ s \in n.sub}
        IN  (bmp[p][s] \ UNION {Span(n) : n \in on})
            \cup UNION {Span(n) : n \in {m \in on : m.attr \ r # {}}}]]

-----------------------------------------------------------------------------
(* Delegation.                                                             *)

\* The nodes that Pd::delegate<Space_pio> inserts: for every node of the
\* sender in the window what of it is in the window.  Ports that the
\* receiver has already are refused by its tree, no rights by insert_node.
delegate(snd, rcv, w, a, sub) ==
    LET made == {[space |-> rcv, base |-> clamp(m, w).base, order |-> clamp(m, w).order,
                  attr |-> m.attr \cap a, sub |-> sub, from |-> snd] :
                     m \in {n \in nodes : n.space = snd /\ clamp(n, w) # Failed}}
    IN  {n \in made : /\ n.attr # {}
                      /\ \A x \in nodes : x.space = rcv => Span(x) \cap Span(n) = {}}

\* Pd::del_crd for ports.
del_crd(snd, rcv, del, crd, sub) ==
    LET a == crd.attr \cap del.attr
        w == clamp(crd, del)
        N == delegate(snd, rcv, w, a, sub)
    IN  /\ Span(crd) \cap Span(del) # {}
        /\ a # {}
        /\ nodes' = nodes \cup N
        /\ bmp' = update(N, {})

-----------------------------------------------------------------------------
(* Translation.                                                            *)

\* Where the walk from mdb to the root stops: at the node of the receiver above
\* it, in the same domain at mdb itself.
Above(mdb, snd, rcv, xlt) ==
    {n \in nodes : /\ n.space = rcv /\ clamp(n, xlt) # Failed
                   /\ n \notin mdb \/ snd = rcv
                   /\ \E m \in mdb : m \in Derived({n})}

\* Pd::xlt_crd: the node of the sender at the base of the item, and the node
\* of the receiver above it.
xlt_crd(snd, rcv, xlt, crd) ==
    LET mdb  == tree_lookup(snd, crd.base)
        node == Above(mdb, snd, rcv, xlt)
    IN  IF node = {} THEN Crd0
        ELSE LET m == CHOOSE n \in mdb : TRUE
                 w == clamp(clamp(m, crd), clamp(CHOOSE n \in node : TRUE, xlt))
             IN  IF w = Failed THEN Crd0
                 ELSE [base |-> w.base, order |-> w.order, attr |-> m.attr]

-----------------------------------------------------------------------------
(* System calls.                                                           *)

\* Pd::xfer_item: a typed item of the given kind goes from snd to rcv.  A
\* translation changes nothing.
xfer_item(kind, snd, rcv, win, crd, sub, hv) ==
    /\ hv => snd \in Priv  \* the flag of others is ignored
    /\ \/ kind = "DELEGATE"
       \/ kind = "TRANS_DELEGATE" /\ xlt_crd(snd, rcv, win, crd) = Crd0
    /\ del_crd(IF hv THEN Kern ELSE snd, rcv, win, crd, sub)

\* The nodes that Pd::revoke<Space_pio> demotes: every node of p in the window
\* and the nodes derived from it, or the latter only.
Demoted(p, w, r, self) ==
    LET mine == {n \in nodes : n.space = p /\ clamp(n, w) # Failed}
        kids == {n \in nodes : prnt(n) \cap mine # {} /\ clamp(n, w) # Failed}
    IN  {n \in Derived(IF self THEN mine ELSE kids) : n.attr \cap r # {}}

\* Pd::rev_crd for ports.  A node loses the rights as a whole, and goes when
\* none are left.
Kept(hit, r) == {n \in {[m EXCEPT !.attr = @ \ r] : m \in hit} : n.attr # {}}
rev_crd(p, w, r, self) ==
    LET hit == Demoted(p, w, r, self)
    IN  /\ bmp' = update(hit, r)
        /\ nodes' = (nodes \ hit) \cup Kept(hit, r)

Crds == {[base |-> w.base, order |-> w.order, attr |-> a] : w \in Aligned, a \in Masks}

Next ==
    \/ \E kind \in {"DELEGATE", "TRANS_DELEGATE"}, snd, rcv \in PDs,
          win \in Receive, crd \in Crds, hv \in BOOLEAN :
              \E sub \in Subs[rcv] : xfer_item(kind, snd, rcv, win, crd, sub, hv)
    \/ \E p \in PDs, w \in Aligned, r \in Masks, self \in BOOLEAN : rev_crd(p, w, r, self)

Spec == Init /\ [][Next]_vars

-----------------------------------------------------------------------------
(* Properties.                                                             *)

Held(N, p) == UNION {Span(n) : n \in {m \in N : m.space = p}}

\* After any sequence of calls the bitmaps that the CPU looks at are what the
\* trees say, and every port leads back to the kernel: the node is part of one
\* node of the domain it came from, which has at least the same rights.
PortsHeld ==
    /\ \A p \in PDs, s \in {"host", "guest"} :
           bmp[p][s] = Held({n \in nodes : s \in n.sub}, p)
    /\ \A n \in nodes : n.space # Kern =>
           /\ n.attr # {} /\ \E m \in nodes : prnt(n) = {m}
           /\ \A m \in prnt(n) : Span(n) \subseteq Span(m) /\ n.attr \subseteq m.attr

\* Whatever call comes next: a delegation gives the receiver nothing but ports
\* of the window that the sender holds, and all of them if it has none of them.
DelegationExact ==
    \A snd \in PDs \cup {Kern}, rcv \in PDs, w \in Aligned, a \in Masks :
        LET N    == delegate(snd, rcv, w, a, {})
            want == {q \in Span(w) : \E n \in tree_lookup(snd, q) : n.attr \cap a # {}}
        IN  /\ Held(N, rcv) \subseteq want \ Held(nodes, rcv)
            /\ want \cap Held(nodes, rcv) = {} => Held(N, rcv) = want

\* Whatever call comes next: a revocation leaves no right that it names in the
\* window, neither with the domain nor with those that have it from there, and
\* takes nothing from domains that have not.
RevocationExact ==
    \A p \in PDs, w \in Aligned, r \in Masks, self \in BOOLEAN :
        LET mine == {n \in nodes : n.space = p /\ Span(n) \cap Span(w) # {}}
            got  == {n \in Derived(mine) : self \/ n \notin mine}
            hit  == Demoted(p, w, r, self)
            left == (nodes \ hit) \cup Kept(hit, r)
        IN  /\ hit \subseteq got
            /\ \A n \in got : Span(n) \cap Span(w) # {} =>
                   ~\E m \in left : /\ m.space = n.space /\ m.attr \cap r # {}
                                    /\ Span(m) \cap Span(n) \cap Span(w) # {}

\* Whatever call comes next: the item that a translation returns is part of both
\* windows, sender and receiver hold all of its ports, and the sender has its
\* rights from the receiver or is the receiver.
TranslationExact ==
    \A snd, rcv \in PDs, win, w \in Aligned :
        LET x == xlt_crd(snd, rcv, win, w)
        IN  x # Crd0 =>
                /\ x.base % 2^x.order = 0
                /\ Span(x) \subseteq Span(win) \cap Span(w)
                /\ \A q \in Span(x) : \E n \in tree_lookup(snd, q), m \in tree_lookup(rcv, q) :
                       x.attr = n.attr /\ n \in Derived({m})

\* The three together.
TransferExact == DelegationExact /\ RevocationExact /\ TranslationExact
=============================================================================

----------------------------- MODULE MdbProofs -----------------------------
(***************************************************************************)
(* Proofs about Mdb, for every number of domains, nodes, rights and CPUs:  *)
(* the list stays a depth-first walk over the delegations, rights shrink   *)
(* on the way down, and revocation is complete.                            *)
(***************************************************************************)
EXTENDS Mdb, FiniteSetTheorems, WellFoundedInduction, TLAPS

-----------------------------------------------------------------------------
(* The inductive invariant.                                                *)

Types ==
    /\ tree \in [PDs -> MaybeNode]
    /\ slot \in [PDs -> [obj : MaybeNode, prm : SUBSET Rights]]
    /\ fresh \subseteq Nodes /\ deleted \subseteq Nodes /\ retired \subseteq Nodes
    /\ space \in [Nodes -> PDs \cup {NoPd}] /\ phys \in [Nodes -> Nodes]
    /\ prnt \in [Nodes -> MaybeNode] /\ prev \in [Nodes -> Nodes] /\ next \in [Nodes -> Nodes]
    /\ dpth \in [Nodes -> Nat] /\ attr \in [Nodes -> SUBSET Rights]
    /\ pc \in [CPUs -> Locations] /\ mdb \in [CPUs -> MaybeNode] /\ node \in [CPUs -> MaybeNode]
    /\ depth \in [CPUs -> Nat] /\ rights \in [CPUs -> SUBSET Rights]
    /\ self \in [CPUs -> BOOLEAN] /\ demote \in [CPUs -> BOOLEAN]

\* Where a CPU is in its system call.
Inserting == {"tree_insert", "insert_node"}
Walking   == {"revoke_slot", "demote", "forward"}
Removing  == {"remove", "unlink", "tree_remove", "backward"}
Revoking  == Walking \cup {"turn"} \cup Removing

\* A system call in progress has a node, and one to start from.
Busy ==
    \A c \in CPUs :
        /\ pc[c] # "idle" => node[c] \in Nodes
        /\ pc[c] \in Inserting \cup Revoking => mdb[c] \in Nodes
        /\ pc[c] \in Revoking => c \in Revokers /\ depth[c] <= dpth[mdb[c]]
        /\ pc[c] \in Walking => phys[node[c]] = phys[mdb[c]] /\ depth[c] <= dpth[node[c]]
        /\ pc[c] = "demote" => demote[c]

\* Linked to nobody, and without rights to pass on.
Unlinked(n) ==
    /\ prnt[n] = NoNode /\ dpth[n] = 0 /\ attr[n] = {}
    /\ \A m \in Nodes : prnt[m] # n
    /\ \A m \in Nodes : next[m] = n <=> m = n
    /\ \A m \in Nodes : prev[m] = n <=> m = n

\* Nobody knows the node but maybe CPU c.
Secret(n, c) ==
    /\ \A p \in PDs : tree[p] # n
    /\ \A d \in CPUs : mdb[d] # n /\ (d # c => node[d] # n)

NewNodes ==
    /\ \A n \in fresh : Unlinked(n) /\ \A c \in CPUs : Secret(n, c) /\ node[c] # n
    /\ \A c \in CPUs : pc[c] \in Inserting =>
        /\ Unlinked(node[c]) /\ node[c] \notin fresh /\ phys[node[c]] = phys[mdb[c]] /\ node[c] # mdb[c]
        /\ \A d \in CPUs : d # c /\ pc[d] \in Inserting => node[d] # node[c]
        /\ pc[c] = "tree_insert" => Secret(node[c], c)

\* Node a is x or on the way from x along the parents P: the capability of x came
\* through it.
Upward(P, S) == \A y \in S : P[y] # NoNode => P[y] \in S
AboveIn(P, a, x) == \A S \in SUBSET Nodes : x \in S /\ Upward(P, S) => a \in S
Above(a, x) == AboveIn(prnt, a, x)

\* The list is circular, and a walk that goes down from parents to children; what was taken out of it still says where it was.
ParentsFirst ==
    \A n \in Nodes :
        /\ prnt[n] = NoNode => dpth[n] = 0
        /\ prnt[n] # NoNode => dpth[n] = dpth[prnt[n]] + 1 /\ (alive(n) => alive(prnt[n]))
        /\ prnt[next[n]] # NoNode => Above(prnt[next[n]], n)
        /\ prnt[n] # NoNode => Above(prnt[n], prev[n])
        /\ alive(n) => alive(next[n]) /\ alive(prev[n])

\* Capabilities are for one object.
SameObject == \A n \in Nodes : phys[next[n]] = phys[n]

\* Positions in the list, from the root on.
Placed(pos) == pos \in [Nodes -> Nat] /\ \A n \in Nodes : alive(n) /\ prnt[n] # NoNode => pos[prev[n]] < pos[n]
Ordered == \E pos : Placed(pos)

Children == {n \in Nodes : prnt[n] # NoNode}
Bounded ==
    /\ \A n \in Nodes : dpth[n] <= Cardinality(Children)
    /\ \A c \in CPUs : depth[c] <= Cardinality(Children)

\* The nodes that the walk of CPU c still gets to: the current one unless it is
\* done with, and then on along next down to the depth it started from.
FirstIn(nx, dp, d, l, x) == IF l = "forward" THEN {y \in {nx[x]} : dp[y] > d} ELSE {x}
Onward(nx, dp, d, S) == \A y \in S : dp[nx[y]] > d => nx[y] \in S
AheadIn(nx, dp, d, F, n) == \A S \in SUBSET Nodes : F \subseteq S /\ Onward(nx, dp, d, S) => n \in S
Ahead(c, n) == AheadIn(next, dpth, depth[c], FirstIn(next, dpth, depth[c], pc[c], node[c]), n)

\* A right that the parent does not have is about to be taken from the child.
Shrinking ==
    \A n \in Nodes : alive(n) /\ prnt[n] # NoNode =>
        \A r \in attr[n] : r \in attr[prnt[n]] \/
            \E c \in Revokers : pc[c] \in Walking /\ demote[c] /\ r \in rights[c] /\ Ahead(c, n)

\* The depth from which on nodes lose their rights, and whose descendants must.
Base(c) == depth[c] + (IF self[c] THEN 0 ELSE 1)
Swept(c, w) ==
    \A n \in Nodes : alive(n) /\ Above(w, n) /\ attr[n] \cap rights[c] # {} => pc[c] \in Walking /\ Ahead(c, n)

Sweeping(c) ==
    /\ Above(mdb[c], node[c])
    /\ self[c] => Swept(c, mdb[c])
    /\ pc[c] \in Walking \cup {"turn"} =>
        /\ dpth[node[c]] > Base(c) => demote[c]
        /\ pc[c] # "revoke_slot" /\ dpth[node[c]] >= Base(c) => demote[c]
        /\ pc[c] \in {"forward", "turn"} /\ dpth[node[c]] >= Base(c) => attr[node[c]] \cap rights[c] = {}
        /\ \A w \in Nodes : ~ self[c] /\ Above(w, node[c]) /\ dpth[w] = Base(c) => Swept(c, w)
    /\ pc[c] = "turn" =>
        \/ dpth[next[node[c]]] <= Base(c) \/ dpth[node[c]] < Base(c)
        \/ attr[next[node[c]]] \cap rights[c] = {}

Revocations == \A c \in CPUs : pc[c] \in Revoking /\ ~ HalfInserted(c) => Sweeping(c)

IInv == Types /\ Busy /\ NewNodes /\ ParentsFirst /\ SameObject /\ Ordered /\ Bounded /\ Shrinking /\ Revocations

-----------------------------------------------------------------------------
(* What is above a node.                                                   *)

LEMMA Smallest ==
    ASSUME NEW S, S \subseteq Nat, S # {}
    PROVE  \E n \in S : \A m \in S : n <= m
  <1> DEFINE Less == {ss \in Nat \X Nat : ss[1] < ss[2]}
  <1>1. IsWellFoundedOn(Less, Nat)
    BY NatLessThanWellFounded DEF OpToRel
  <1> HIDE DEF Less
  <1>2. \E n \in S : \A m \in S : ~ (<<m, n>> \in Less)
    BY <1>1, WFMin
  <1>3. ASSUME NEW m \in Nat, NEW n \in Nat, m < n PROVE <<m, n>> \in Less
    BY <1>3 DEF Less
  <1>4. \A m \in Nat, n \in Nat : ~(m < n) => n <= m
    OBVIOUS
  <1> QED
    BY <1>2, <1>3, <1>4

LEMMA AboveItself ==
    ASSUME NEW P, NEW x
    PROVE  AboveIn(P, x, x)
  BY DEF AboveIn

LEMMA AboveAbove ==
    ASSUME NEW P, NEW a, NEW b \in Nodes, NEW x, AboveIn(P, a, b), AboveIn(P, b, x)
    PROVE  AboveIn(P, a, x)
  BY DEF AboveIn

LEMMA ParentAbove ==
    ASSUME NEW P, NEW x \in Nodes, P[x] # NoNode
    PROVE  AboveIn(P, P[x], x)
  BY DEF AboveIn, Upward

\* What is above x and not x is above its parent.
LEMMA AboveParent ==
    ASSUME NEW P, NEW a, NEW x \in Nodes, AboveIn(P, a, x), a # x
    PROVE  P[x] # NoNode /\ AboveIn(P, a, P[x])
  <1>1. P[x] # NoNode
    <2> SUFFICES ASSUME P[x] = NoNode PROVE FALSE
      OBVIOUS
    <2>1. {x} \in SUBSET Nodes /\ x \in {x} /\ Upward(P, {x})
      BY DEF Upward
    <2>2. a \in {x}
      BY <2>1 DEF AboveIn
    <2> QED
      BY <2>2
  <1>2. ASSUME NEW S \in SUBSET Nodes, P[x] \in S, Upward(P, S) PROVE a \in S
    <2>1. S \cup {x} \in SUBSET Nodes /\ x \in S \cup {x} /\ Upward(P, S \cup {x})
      BY <1>2 DEF Upward
    <2>2. a \in S \cup {x}
      BY <2>1 DEF AboveIn
    <2> QED
      BY <2>2
  <1> QED
    BY <1>1, <1>2 DEF AboveIn

\* Depths are one more than the parent's.
Depths(P, dp) ==
    /\ P \in [Nodes -> MaybeNode] /\ dp \in [Nodes -> Nat]
    /\ \A n \in Nodes : P[n] # NoNode => P[n] \in Nodes /\ dp[n] = dp[P[n]] + 1
    /\ \A n \in Nodes : P[n] = NoNode => dp[n] = 0

LEMMA AboveIsNode ==
    ASSUME NEW P, NEW dp, Depths(P, dp), NEW a, NEW x \in Nodes, AboveIn(P, a, x)
    PROVE  a \in Nodes
  <1>1. Nodes \in SUBSET Nodes /\ Upward(P, Nodes)
    BY DEF Depths, Upward
  <1> QED
    BY <1>1 DEF AboveIn

LEMMA AboveIsHigher ==
    ASSUME NEW P, NEW dp, Depths(P, dp), NEW a, NEW x \in Nodes, AboveIn(P, a, x)
    PROVE  a \in Nodes /\ dp[a] <= dp[x] /\ (a # x => dp[a] < dp[x])
  <1>1. ASSUME NEW y \in Nodes, AboveIn(P, a, y) PROVE dp[a] <= dp[y]
    <2> DEFINE S == {z \in Nodes : dp[z] <= dp[y]}
    <2>1. Upward(P, S)
      <3> SUFFICES ASSUME NEW z \in S, P[z] # NoNode PROVE P[z] \in S
        BY DEF Upward
      <3>1. z \in Nodes /\ P[z] \in Nodes /\ dp[z] = dp[P[z]] + 1 /\ dp[z] <= dp[y]
        BY DEF Depths
      <3>2. dp[z] \in Nat /\ dp[P[z]] \in Nat /\ dp[y] \in Nat
        BY <3>1 DEF Depths
      <3> QED
        BY <3>1, <3>2
    <2>2. y \in S /\ S \in SUBSET Nodes
      BY DEF Depths
    <2> HIDE DEF S
    <2>3. a \in S
      BY <1>1, <2>1, <2>2 DEF AboveIn
    <2> QED
      BY <2>3 DEF S
  <1>2. a \in Nodes
    BY AboveIsNode
  <1>3. ASSUME a # x PROVE dp[a] < dp[x]
    <2>1. P[x] # NoNode /\ AboveIn(P, a, P[x])
      BY <1>3, AboveParent
    <2>2. P[x] \in Nodes /\ dp[x] = dp[P[x]] + 1
      BY <2>1 DEF Depths
    <2>3. dp[a] <= dp[P[x]]
      BY <1>1, <2>1, <2>2
    <2>4. dp[a] \in Nat /\ dp[x] \in Nat /\ dp[P[x]] \in Nat
      BY <1>2, <2>2 DEF Depths
    <2> QED
      BY <2>2, <2>3, <2>4
  <1> QED
    BY <1>1, <1>2, <1>3

\* Of two nodes above x one is above the other.
LEMMA AboveIsChain ==
    ASSUME NEW P, NEW dp, Depths(P, dp), NEW a, NEW b, NEW x \in Nodes,
           AboveIn(P, a, x), AboveIn(P, b, x), dp[a] <= dp[b]
    PROVE  AboveIn(P, a, b)
  <1> DEFINE S == {y \in Nodes : AboveIn(P, a, y) \/ AboveIn(P, y, a)}
  <1>1. a \in Nodes /\ b \in Nodes
    BY AboveIsNode
  <1>2. Upward(P, S)
    <2> SUFFICES ASSUME NEW y \in S, P[y] # NoNode PROVE P[y] \in S
      BY DEF Upward
    <2>1. y \in Nodes /\ P[y] \in Nodes /\ AboveIn(P, P[y], y)
      BY ParentAbove DEF Depths
    <2>2. CASE AboveIn(P, y, a)
      BY <1>1, <2>1, <2>2, AboveAbove
    <2>3. CASE AboveIn(P, a, y) /\ a # y
      BY <2>1, <2>3, AboveParent
    <2>4. CASE a = y
      BY <2>1, <2>4
    <2> QED
      BY <2>2, <2>3, <2>4
  <1>3. x \in S /\ S \in SUBSET Nodes
    OBVIOUS
  <1> HIDE DEF S
  <1>4. b \in S
    BY <1>2, <1>3 DEF AboveIn
  <1>5. CASE AboveIn(P, b, a)
    <2>1. b # a => dp[b] < dp[a]
      BY <1>1, <1>5, AboveIsHigher
    <2>2. dp[a] \in Nat /\ dp[b] \in Nat
      BY <1>1 DEF Depths
    <2>3. a = b
      BY <2>1, <2>2
    <2> QED
      BY <2>3, AboveItself
  <1> QED
    BY <1>4, <1>5 DEF S

\* At every smaller depth there is a node above x.
LEMMA AboveAtDepth ==
    ASSUME NEW P, NEW dp, Depths(P, dp), NEW x \in Nodes, NEW d \in Nat, d <= dp[x]
    PROVE  \E w \in Nodes : AboveIn(P, w, x) /\ dp[w] = d
  <1> DEFINE S == {y \in Nodes : AboveIn(P, y, x) /\ d <= dp[y]}
             D == {dp[y] : y \in S}
  <1>1. x \in S
    BY AboveItself
  <1>2. D \subseteq Nat /\ D # {}
    BY <1>1 DEF Depths
  <1>3. PICK k \in D : \A j \in D : k <= j
    <2> HIDE DEF D
    <2> QED
      BY <1>2, Smallest
  <1>4. PICK w \in S : dp[w] = k
    BY <1>3
  <1>5. w \in Nodes /\ AboveIn(P, w, x) /\ d <= dp[w] /\ dp[w] \in Nat
    BY DEF Depths
  <1>6. ASSUME dp[w] # d PROVE FALSE
    <2>1. P[w] # NoNode
      BY <1>5, <1>6 DEF Depths
    <2>2. P[w] \in Nodes /\ dp[w] = dp[P[w]] + 1 /\ dp[P[w]] \in Nat
      BY <1>5, <2>1 DEF Depths
    <2>3. AboveIn(P, P[w], x)
      BY <1>5, <2>1, ParentAbove, AboveAbove
    <2>4. d <= dp[P[w]]
      BY <1>5, <1>6, <2>2
    <2>5. dp[P[w]] \in D
      BY <2>2, <2>3, <2>4
    <2>6. dp[w] <= dp[P[w]]
      <3> HIDE DEF D
      <3> QED
        BY <1>3, <1>4, <2>5
    <2> QED
      BY <2>2, <2>6
  <1> QED
    BY <1>5, <1>6

\* Nothing is above or below a node that has neither parent nor children.
LEMMA AboveAlone ==
    ASSUME NEW P \in [Nodes -> MaybeNode], NEW k \in Nodes, P[k] = NoNode, \A m \in Nodes : P[m] # k,
           NEW a, NEW x \in Nodes
    PROVE  /\ AboveIn(P, k, x) => x = k
           /\ AboveIn(P, a, k) => a = k
  <1>1. ASSUME AboveIn(P, k, x) PROVE x = k
    <2>1. Upward(P, Nodes \ {k}) /\ Nodes \ {k} \in SUBSET Nodes
      BY MdbAssumption DEF Upward, MaybeNode
    <2> QED
      BY <1>1, <2>1 DEF AboveIn
  <1>2. ASSUME AboveIn(P, a, k) PROVE a = k
    BY <1>2, AboveParent
  <1> QED
    BY <1>1, <1>2

\* A node without children gets a parent: nothing changes above others.
LEMMA AboveGrows ==
    ASSUME NEW P \in [Nodes -> MaybeNode], NEW k \in Nodes, NEW p \in Nodes, P[k] = NoNode, \A m \in Nodes : P[m] # k,
           p # k, NEW Q, Q[k] = p, \A m \in Nodes : m # k => Q[m] = P[m], NEW a, NEW x \in Nodes
    PROVE  /\ AboveIn(P, a, x) => AboveIn(Q, a, x)
           /\ AboveIn(Q, a, x) /\ x # k => AboveIn(P, a, x)
           /\ AboveIn(Q, a, k) /\ a # k => AboveIn(P, a, p)
  <1>1. ASSUME AboveIn(P, a, x) PROVE AboveIn(Q, a, x)
    <2> SUFFICES ASSUME NEW S \in SUBSET Nodes, x \in S, Upward(Q, S) PROVE a \in S
      BY DEF AboveIn
    <2>1. Upward(P, S)
      BY DEF Upward
    <2> QED
      BY <1>1, <2>1 DEF AboveIn
  <1>2. ASSUME NEW y \in Nodes, y # k, AboveIn(Q, a, y) PROVE AboveIn(P, a, y)
    <2> SUFFICES ASSUME NEW S \in SUBSET Nodes, y \in S, Upward(P, S) PROVE a \in S
      BY DEF AboveIn
    <2>1. Upward(Q, S \ {k}) /\ S \ {k} \in SUBSET Nodes /\ y \in S \ {k}
      BY <1>2 DEF Upward
    <2>2. a \in S \ {k}
      BY <1>2, <2>1 DEF AboveIn
    <2> QED
      BY <2>2
  <1>3. ASSUME AboveIn(Q, a, k), a # k PROVE AboveIn(P, a, p)
    <2>1. Q[k] = p
      OBVIOUS
    <2>2. AboveIn(Q, a, p)
      BY <1>3, <2>1, AboveParent
    <2> QED
      BY <1>2, <2>2
  <1> QED
    BY <1>1, <1>2, <1>3

-----------------------------------------------------------------------------
(* What is ahead of a walk.                                                *)

\* The nodes below x that are in the list follow it there.
LEMMA BelowFollows ==
    ASSUME Types, ParentsFirst, Ordered, NEW x \in Nodes, NEW d \in Nat, d <= dpth[x],
           NEW S \in SUBSET Nodes, dpth[next[x]] > d => next[x] \in S, Onward(next, dpth, d, S),
           NEW n \in Nodes, alive(n), Above(x, n), n # x
    PROVE  n \in S
  <1>1. PICK pos : Placed(pos)
    BY DEF Ordered
  <1>2. Depths(prnt, dpth)
    BY DEF Types, ParentsFirst, Depths, MaybeNode
  <1> DEFINE D == {m \in Nodes : alive(m) /\ Above(x, m) /\ m # x /\ m \notin S}
             K == {pos[m] : m \in D}
  <1> SUFFICES ASSUME D # {} PROVE FALSE
    OBVIOUS
  <1>3. K \subseteq Nat /\ K # {}
    BY <1>1 DEF Placed
  <1>4. PICK k \in K : \A j \in K : k <= j
    <2> HIDE DEF K
    <2> QED
      BY <1>3, Smallest
  <1>5. PICK m \in D : pos[m] = k
    BY <1>4
  <1>6. m \in Nodes /\ alive(m) /\ Above(x, m) /\ m # x /\ m \notin S
    OBVIOUS
  <1>7. prnt[m] # NoNode /\ prnt[m] \in Nodes /\ Above(x, prnt[m]) /\ dpth[x] <= dpth[prnt[m]] /\ dpth[m] = dpth[prnt[m]] + 1
    <2>1. prnt[m] # NoNode /\ Above(x, prnt[m])
      BY <1>6, AboveParent DEF Above
    <2>2. prnt[m] \in Nodes /\ dpth[m] = dpth[prnt[m]] + 1
      BY <1>2, <1>6, <2>1 DEF Depths
    <2>3. dpth[x] <= dpth[prnt[m]]
      BY <1>2, <2>1, <2>2, AboveIsHigher DEF Above
    <2> QED
      BY <2>1, <2>2, <2>3
  <1> DEFINE q == prev[m]
  <1>8. q \in Nodes /\ alive(q) /\ next[q] = m /\ Above(prnt[m], q) /\ pos[q] < pos[m]
    BY <1>1, <1>6, <1>7 DEF Types, ParentsFirst, Placed, alive
  <1>9. Above(x, q)
    BY <1>7, <1>8, AboveAbove DEF Above
  <1>10. dpth[m] > d
    <2>1. dpth[m] \in Nat /\ dpth[x] \in Nat /\ dpth[prnt[m]] \in Nat
      BY <1>6, <1>7 DEF Types
    <2> QED
      BY <1>7, <2>1
  <1>11. q # x
    BY <1>6, <1>8, <1>10
  <1>12. q \in S
    <2>1. q \notin D
      <3> SUFFICES ASSUME q \in D PROVE FALSE
        OBVIOUS
      <3>1. pos[q] \in K
        OBVIOUS
      <3>2. pos[q] \in Nat /\ pos[m] \in Nat
        BY <1>1, <1>6, <1>8 DEF Placed
      <3>3. pos[m] <= pos[q]
        <4> HIDE DEF K
        <4> QED
          BY <1>4, <1>5, <3>1
      <3> QED
        BY <1>8, <3>2, <3>3
    <2> QED
      BY <1>8, <1>9, <1>11, <2>1
  <1> HIDE DEF q
  <1>13. m \in S
    BY <1>8, <1>10, <1>12 DEF Onward
  <1> QED
    BY <1>6, <1>13

LEMMA AheadStart ==
    ASSUME NEW nx, NEW dp, NEW d, NEW F, NEW n \in F
    PROVE  AheadIn(nx, dp, d, F, n)
  BY DEF AheadIn

LEMMA AheadNext ==
    ASSUME NEW nx, NEW dp, NEW d, NEW F, NEW n, AheadIn(nx, dp, d, F, n), dp[nx[n]] > d
    PROVE  AheadIn(nx, dp, d, F, nx[n])
  BY DEF AheadIn, Onward

LEMMA AheadNothing ==
    ASSUME NEW nx, NEW dp, NEW d, NEW n
    PROVE  ~ AheadIn(nx, dp, d, {}, n)
  <1>1. {} \in SUBSET Nodes /\ Onward(nx, dp, d, {})
    BY DEF Onward
  <1> QED
    BY <1>1 DEF AheadIn

\* Leaving x leaves ahead what is not x.
LEMMA AheadLeave ==
    ASSUME NEW nx, NEW dp, NEW d, NEW x \in Nodes, NEW l, l # "forward", NEW n, n # x,
           AheadIn(nx, dp, d, FirstIn(nx, dp, d, l, x), n)
    PROVE  AheadIn(nx, dp, d, FirstIn(nx, dp, d, "forward", x), n)
  <1> SUFFICES ASSUME NEW S \in SUBSET Nodes, FirstIn(nx, dp, d, "forward", x) \subseteq S, Onward(nx, dp, d, S)
               PROVE  n \in S
    BY DEF AheadIn
  <1>1. Onward(nx, dp, d, S \cup {x})
    BY DEF Onward, FirstIn
  <1>2. FirstIn(nx, dp, d, l, x) \subseteq S \cup {x} /\ S \cup {x} \in SUBSET Nodes
    BY DEF FirstIn
  <1>3. n \in S \cup {x}
    BY <1>1, <1>2 DEF AheadIn
  <1> QED
    BY <1>3

\* A node k without links goes in after p.
Spliced(nx, dp, k, p, ny, dq) ==
    /\ nx \in [Nodes -> Nodes] /\ dp \in [Nodes -> Nat] /\ k \in Nodes /\ p \in Nodes /\ p # k
    /\ \A m \in Nodes : nx[m] = k <=> m = k
    /\ dp[k] = 0 /\ dp[nx[p]] <= dp[p] + 1
    /\ ny[k] = nx[p] /\ ny[p] = k /\ \A m \in Nodes : m # k /\ m # p => ny[m] = nx[m]
    /\ dq[k] = dp[p] + 1 /\ \A m \in Nodes : m # k => dq[m] = dp[m]

LEMMA AheadInsert ==
    ASSUME NEW nx, NEW dp, NEW k, NEW p, NEW ny, NEW dq, Spliced(nx, dp, k, p, ny, dq), NEW d \in Nat,
           NEW l, NEW x \in Nodes, NEW n, AheadIn(nx, dp, d, FirstIn(nx, dp, d, l, x), n)
    PROVE  AheadIn(ny, dq, d, FirstIn(ny, dq, d, l, x), n)
  <1> SUFFICES ASSUME NEW S \in SUBSET Nodes, FirstIn(ny, dq, d, l, x) \subseteq S, Onward(ny, dq, d, S)
               PROVE  n \in S
    BY DEF AheadIn
  <1> DEFINE z == nx[p]
  <1>1. z \in Nodes /\ z # k /\ ny[k] = z /\ ny[p] = k /\ dq[z] = dp[z] /\ dq[k] = dp[p] + 1 /\ dp[z] \in Nat /\ dp[p] \in Nat /\ dp[z] <= dp[p] + 1
    BY DEF Spliced
  <1>2. \A y \in Nodes : y # k /\ y # p => ny[y] = nx[y] /\ nx[y] # k /\ dq[nx[y]] = dp[nx[y]]
    BY DEF Spliced
  <1>3. k \in S /\ dp[z] > d => z \in S
    BY <1>1 DEF Onward
  <1>4. dp[z] > d => dq[k] > d
    BY <1>1
  <1>5. ~ (dp[nx[k]] > d)
    BY DEF Spliced
  <1>6. Onward(nx, dp, d, S)
    <2> SUFFICES ASSUME NEW y \in S, dp[nx[y]] > d PROVE nx[y] \in S
      BY DEF Onward
    <2>1. CASE y = p
      <3>1. k \in S
        BY <1>1, <1>4, <2>1 DEF Onward
      <3> QED
        BY <1>3, <2>1, <3>1
    <2>2. CASE y = k
      BY <1>5, <2>2
    <2>3. CASE y # k /\ y # p
      BY <1>2, <2>3 DEF Onward
    <2> QED
      BY <2>1, <2>2, <2>3
  <1>7. FirstIn(nx, dp, d, l, x) \subseteq S
    <2>1. CASE l # "forward"
      BY <2>1 DEF FirstIn
    <2>2. CASE l = "forward" /\ dp[nx[x]] > d
      <3>1. dq[ny[x]] > d => ny[x] \in S
        BY <2>2 DEF FirstIn
      <3>2. CASE x = p
        BY <1>1, <1>3, <1>4, <2>2, <3>1, <3>2 DEF FirstIn
      <3>3. CASE x = k
        BY <1>5, <2>2, <3>3
      <3>4. CASE x # k /\ x # p
        BY <1>2, <2>2, <3>1, <3>4 DEF FirstIn
      <3> QED
        BY <3>2, <3>3, <3>4
    <2>3. CASE l = "forward" /\ ~ (dp[nx[x]] > d)
      BY <2>3 DEF FirstIn
    <2> QED
      BY <2>1, <2>2, <2>3
  <1> QED
    BY <1>6, <1>7 DEF AheadIn

\* Node m, which followed q, is taken out.
LEMMA AheadUnlink ==
    ASSUME NEW nx \in [Nodes -> Nodes], NEW dp, NEW d, NEW m \in Nodes, NEW q \in Nodes, nx[q] = m, q # m,
           NEW ny, ny[q] = nx[m], \A y \in Nodes : y # q => ny[y] = nx[y],
           NEW l, NEW x \in Nodes, NEW n, n # m, AheadIn(nx, dp, d, FirstIn(nx, dp, d, l, x), n)
    PROVE  AheadIn(ny, dp, d, FirstIn(ny, dp, d, l, x), n)
  <1> SUFFICES ASSUME NEW S \in SUBSET Nodes, FirstIn(ny, dp, d, l, x) \subseteq S, Onward(ny, dp, d, S)
               PROVE  n \in S
    BY DEF AheadIn
  <1>1. ny[q] = nx[m] /\ \A y \in Nodes : y # q => ny[y] = nx[y]
    OBVIOUS
  <1>2. CASE q \in S \/ (l = "forward" /\ x = q)
    <2>1. dp[nx[m]] > d => nx[m] \in S
      BY <1>1, <1>2 DEF Onward, FirstIn
    <2>2. Onward(nx, dp, d, S \cup {m})
      BY <1>1, <2>1 DEF Onward
    <2>3. FirstIn(nx, dp, d, l, x) \subseteq S \cup {m}
      BY <1>1 DEF FirstIn
    <2>4. S \cup {m} \in SUBSET Nodes
      OBVIOUS
    <2>5. n \in S \cup {m}
      BY <2>2, <2>3, <2>4 DEF AheadIn
    <2> QED
      BY <2>5
  <1>3. CASE q \notin S /\ ~ (l = "forward" /\ x = q)
    <2>1. Onward(nx, dp, d, S)
      BY <1>1, <1>3 DEF Onward
    <2>2. FirstIn(nx, dp, d, l, x) \subseteq S
      BY <1>1, <1>3 DEF FirstIn
    <2> QED
      BY <2>1, <2>2 DEF AheadIn
  <1> QED
    BY <1>2, <1>3

-----------------------------------------------------------------------------
(* Steps that leave the list alone.                                        *)

\* The system call of CPU d does not go on.
Waits(d) ==
    /\ pc'[d] = pc[d] /\ mdb'[d] = mdb[d] /\ node'[d] = node[d] /\ depth'[d] = depth[d]
    /\ rights'[d] = rights[d] /\ self'[d] = self[d] /\ demote'[d] = demote[d]
OnlyGoes(c) == \A d \in CPUs : d # c => Waits(d)

LEMMA HaveDepths ==
    ASSUME Types, ParentsFirst
    PROVE  Depths(prnt, dpth)
  BY DEF Types, ParentsFirst, Depths, MaybeNode

\* A node that is in the list behind w is ahead of a walk that is at w, and of
\* one that has just dealt with w.
LEMMA BelowAhead ==
    ASSUME Types, ParentsFirst, Ordered, NEW w \in Nodes, NEW d \in Nat, d <= dpth[w],
           NEW n \in Nodes, alive(n), Above(w, n), NEW l
    PROVE  /\ l # "forward" => AheadIn(next, dpth, d, FirstIn(next, dpth, d, l, w), n)
           /\ n # w => AheadIn(next, dpth, d, FirstIn(next, dpth, d, "forward", w), n)
  <1>1. ASSUME n # w, NEW S \in SUBSET Nodes, FirstIn(next, dpth, d, "forward", w) \subseteq S,
               Onward(next, dpth, d, S)
        PROVE  n \in S
    <2>1. dpth[next[w]] > d => next[w] \in S
      BY <1>1 DEF FirstIn
    <2> QED
      BY <1>1, <2>1, BelowFollows
  <1>2. ASSUME l # "forward", NEW S \in SUBSET Nodes, FirstIn(next, dpth, d, l, w) \subseteq S,
               Onward(next, dpth, d, S)
        PROVE  n \in S
    <2>1. w \in S
      BY <1>2 DEF FirstIn
    <2>2. dpth[next[w]] > d => next[w] \in S
      BY <1>2, <2>1 DEF Onward
    <2> QED
      BY <1>2, <2>1, <2>2, BelowFollows
  <1> QED
    BY <1>1, <1>2 DEF AheadIn

LEMMA Quiet ==
    ASSUME IInv, NEW c \in CPUs, OnlyGoes(c), UNCHANGED <<links, attr>>,
           Types', Busy', NewNodes', SameObject', depth'[c] <= Cardinality(Children),
           \A n \in Nodes : alive(n) /\ pc[c] \in Walking /\ demote[c] /\ attr[n] \cap rights[c] # {} /\ Ahead(c, n) =>
               pc'[c] \in Walking /\ demote'[c] /\ rights'[c] = rights[c] /\ Ahead(c, n)',
           pc'[c] \in Revoking /\ ~ HalfInserted(c)' => Sweeping(c)'
    PROVE  IInv'
  <1> USE DEF links
  <1>1. ParentsFirst' /\ Ordered'
    BY DEF IInv, ParentsFirst, Ordered, Placed, Above, alive
  <1>2. Bounded'
    BY DEF IInv, Bounded, Children, OnlyGoes, Waits
  <1>3. \A d \in CPUs, n \in Nodes : d # c => (Ahead(d, n)' <=> Ahead(d, n))
    BY DEF Ahead, OnlyGoes, Waits
  <1>4. \A n \in Nodes : alive(n)' <=> alive(n)
    BY DEF alive
  <1>5. Shrinking'
    <2> SUFFICES ASSUME NEW n \in Nodes, alive(n), prnt[n] # NoNode, NEW r \in attr[n], r \notin attr[prnt[n]]
                 PROVE  \E d \in Revokers : pc'[d] \in Walking /\ demote'[d] /\ r \in rights'[d] /\ Ahead(d, n)'
      BY <1>4 DEF Shrinking
    <2>1. PICK d \in Revokers : pc[d] \in Walking /\ demote[d] /\ r \in rights[d] /\ Ahead(d, n)
      BY DEF IInv, Shrinking
    <2>2. d \in CPUs
      BY DEF CPUs
    <2>3. CASE d # c
      BY <1>3, <2>1, <2>2, <2>3 DEF OnlyGoes, Waits
    <2>4. CASE d = c
      BY <2>1, <2>4
    <2> QED
      BY <2>3, <2>4
  <1>6. Revocations'
    <2> SUFFICES ASSUME NEW d \in CPUs, d # c, pc'[d] \in Revoking, ~ HalfInserted(d)'
                 PROVE  Sweeping(d)'
      BY DEF Revocations
    <2>1. Waits(d)
      BY DEF OnlyGoes
    <2>2. Sweeping(d)
      BY <2>1 DEF IInv, Revocations, HalfInserted, Waits
    <2>3. \A w : Swept(d, w) => Swept(d, w)'
      BY <1>3, <1>4, <2>1 DEF Swept, Above, Waits
    <2>4. Base(d)' = Base(d)
      BY <2>1 DEF Base, Waits
    <2> QED
      BY <2>1, <2>2, <2>3, <2>4 DEF Sweeping, Above, Waits
  <1> QED
    BY <1>1, <1>2, <1>5, <1>6 DEF IInv

\* A step in which nobody gets to know a new node.
LEMMA KeepUnlinked ==
    ASSUME IInv, NEW c \in CPUs, OnlyGoes(c), UNCHANGED <<phys, fresh>>,
           \A n \in Nodes : Unlinked(n) /\ (n # node[c] \/ pc[c] # "insert_node") => Unlinked(n)',
           \/ pc'[c] \notin Inserting
           \/ pc'[c] = "insert_node" /\ pc[c] = "tree_insert" /\ node'[c] = node[c] /\ mdb'[c] = mdb[c],
           \A n \in Nodes : /\ \A p \in PDs : tree[p] # n
                            /\ \A d \in CPUs : mdb[d] # n
                            /\ node[c] # n /\ Unlinked(n)
                            => node'[c] # n /\ mdb'[c] # n /\ \A p \in PDs : tree'[p] # n
    PROVE  NewNodes'
  <1>2. ASSUME NEW n \in fresh', NEW d \in CPUs PROVE Unlinked(n)' /\ Secret(n, d)' /\ node'[d] # n
    <2>1. n \in Nodes /\ n \in fresh /\ Unlinked(n) /\ \A e \in CPUs : Secret(n, e) /\ node[e] # n
      BY <1>2 DEF IInv, NewNodes, Types
    <2>2. node'[c] # n /\ mdb'[c] # n /\ \A p \in PDs : tree'[p] # n
      BY <2>1 DEF Secret
    <2> QED
      BY <2>1, <2>2 DEF Secret, OnlyGoes, Waits
  <1>3. ASSUME NEW d \in CPUs, pc'[d] \in Inserting
        PROVE  /\ pc[d] \in Inserting /\ node'[d] = node[d] /\ mdb'[d] = mdb[d]
               /\ pc'[d] = "tree_insert" => pc[d] = "tree_insert" /\ d # c
    BY <1>3 DEF Inserting, OnlyGoes, Waits
  <1>4. ASSUME NEW d \in CPUs, pc'[d] = "tree_insert" PROVE Secret(node[d], d)'
    <2>1. pc[d] = "tree_insert" /\ d # c /\ node[d] \in Nodes /\ Unlinked(node[d]) /\ Secret(node[d], d)
      BY <1>3, <1>4 DEF Inserting, IInv, NewNodes, Busy
    <2>2. node'[c] # node[d] /\ mdb'[c] # node[d] /\ \A p \in PDs : tree'[p] # node[d]
      BY <2>1 DEF Secret
    <2> QED
      BY <2>1, <2>2 DEF Secret, OnlyGoes, Waits
  <1>5. ASSUME NEW d \in CPUs, pc'[d] \in Inserting
        PROVE  /\ Unlinked(node[d])' /\ node'[d] \notin fresh' /\ phys'[node'[d]] = phys'[mdb'[d]] /\ node'[d] # mdb'[d]
               /\ \A e \in CPUs : e # d /\ pc'[e] \in Inserting => node'[e] # node'[d]
    <2>1. node[d] \in Nodes
      BY <1>3, <1>5 DEF IInv, Busy, Inserting
    <2>2. node[d] # node[c] \/ pc[c] # "insert_node"
      BY <1>3, <1>5 DEF IInv, NewNodes, Inserting
    <2>3. Unlinked(node[d])
      BY <1>3, <1>5 DEF IInv, NewNodes
    <2> QED
      BY <1>3, <1>5, <2>1, <2>2, <2>3 DEF IInv, NewNodes
  <1> QED
    BY <1>2, <1>3, <1>4, <1>5, SMTT(60) DEF NewNodes, Unlinked

LEMMA KeepNew ==
    ASSUME IInv, NEW c \in CPUs, OnlyGoes(c), UNCHANGED <<links, attr, phys, fresh>>,
           \/ pc'[c] \notin Inserting
           \/ pc'[c] = "insert_node" /\ pc[c] = "tree_insert" /\ node'[c] = node[c] /\ mdb'[c] = mdb[c],
           \A n \in Nodes : /\ \A p \in PDs : tree[p] # n
                            /\ \A d \in CPUs : mdb[d] # n
                            /\ node[c] # n /\ Unlinked(n)
                            => node'[c] # n /\ mdb'[c] # n /\ \A p \in PDs : tree'[p] # n
    PROVE  NewNodes'
  <1>1. \A n \in Nodes : Unlinked(n) => Unlinked(n)'
    BY DEF Unlinked, links
  <1> QED
    BY <1>1, KeepUnlinked

-----------------------------------------------------------------------------
(* The actions that leave the list alone.                                  *)

LEMMA Parts ==
    \A l : /\ l \in Inserting <=> l \in {"tree_insert", "insert_node"}
           /\ l \in Walking <=> l \in {"revoke_slot", "demote", "forward"}
           /\ l \in Removing <=> l \in {"remove", "unlink", "tree_remove", "backward"}
           /\ l \in Revoking <=> l \in Walking \/ l = "turn" \/ l \in Removing
  BY DEF Inserting, Walking, Removing, Revoking

LEMMA CapabilityType ==
    ASSUME Types, NEW n \in Nodes, NEW r \in SUBSET Rights
    PROVE  Capability(n, r) \in [obj : MaybeNode, prm : SUBSET Rights]
  BY DEF Types, Capability, Null, MaybeNode

\* The end of a system call.
LEMMA FinishStep ==
    ASSUME IInv, NEW c \in CPUs, Finish(c), pc[c] \notin Walking,
           UNCHANGED <<links, attr, const, fresh>>, deleted' \subseteq Nodes, retired' \subseteq Nodes,
           slot' \in [PDs -> [obj : MaybeNode, prm : SUBSET Rights]],
           tree' \in [PDs -> MaybeNode], \A p \in PDs : tree'[p] \in {tree[p], NoNode}
    PROVE  IInv'
  <1> USE DEF Finish, Goto, links, const
  <1>1. OnlyGoes(c) /\ pc'[c] = "idle" /\ node'[c] = NoNode /\ mdb'[c] = NoNode /\ depth'[c] = 0
    BY DEF IInv, Types, OnlyGoes, Waits
  <1>2. Types'
    BY DEF IInv, Types, Locations, MaybeNode
  <1>3. Busy'
    BY <1>1, Parts DEF IInv, Busy, OnlyGoes, Waits
  <1>4. NewNodes'
    <2>1. \A n \in Nodes : n # NoNode
      BY MdbAssumption
    <2> QED
      BY <1>1, <2>1, Parts, KeepNew
  <1>5. SameObject'
    BY DEF IInv, SameObject
  <1>6. depth'[c] <= Cardinality(Children)
    <2>1. IsFiniteSet(Children)
      BY MdbAssumption, FS_Subset DEF Children
    <2> QED
      BY <1>1, <2>1, FS_CardinalityType
  <1> QED
    BY <1>1, <1>2, <1>3, <1>4, <1>5, <1>6, Parts, Quiet

LEMMA InsertRootStep ==
    ASSUME IInv, NEW c \in CPUs, insert_root(c) \/ update(c)
    PROVE  IInv'
  <1>1. node[c] \in Nodes /\ attr[node[c]] \in SUBSET Rights /\ pc[c] \notin Walking
    BY Parts DEF IInv, Busy, Types, insert_root, update
  <1>2. Capability(node[c], attr[node[c]]) \in [obj : MaybeNode, prm : SUBSET Rights]
    BY <1>1, CapabilityType DEF IInv
  <1>3. slot' \in [PDs -> [obj : MaybeNode, prm : SUBSET Rights]]
    BY <1>2 DEF IInv, Types, insert_root, update
  <1>4. Finish(c) /\ UNCHANGED <<tree, memory, const, links, attr>>
    BY DEF insert_root, update
  <1> QED
    BY <1>1, <1>3, <1>4, FinishStep DEF IInv, Types, memory

LEMMA UndoStep ==
    ASSUME IInv, NEW c \in CPUs, undo(c)
    PROVE  IInv'
  <1>1. node[c] \in Nodes /\ pc[c] \notin Walking
    BY Parts DEF IInv, Busy, undo
  <1>2. tree' \in [PDs -> MaybeNode] /\ \A p \in PDs : tree'[p] \in {tree[p], NoNode}
    BY DEF IInv, Types, undo, TreeRemove, MaybeNode
  <1>3. Finish(c) /\ UNCHANGED <<slot, fresh, retired, const, links, attr>> /\ deleted' \subseteq Nodes
    BY <1>1 DEF undo, IInv, Types
  <1> QED
    BY <1>1, <1>2, <1>3, FinishStep DEF IInv, Types

\* Space::tree_insert makes the node known.
LEMMA TreeInsertStep ==
    ASSUME IInv, NEW c \in CPUs, pc[c] = "tree_insert", tree' = [tree EXCEPT ![space[node[c]]] = node[c]],
           Goto(c, "insert_node"), UNCHANGED <<slot, memory, const, links, attr, node, work>>
    PROVE  IInv'
  <1> USE DEF Goto, links, const, memory, work
  <1>1. OnlyGoes(c) /\ pc'[c] = "insert_node" /\ node'[c] = node[c] /\ mdb'[c] = mdb[c] /\ node[c] \in Nodes
    BY DEF IInv, Types, OnlyGoes, Waits, Busy
  <1>2. Types'
    BY <1>1 DEF IInv, Types, Locations, MaybeNode
  <1>3. Busy'
    BY <1>1, Parts DEF IInv, Busy, OnlyGoes, Waits
  <1>4. NewNodes'
    <2>1. \A p \in PDs : tree'[p] = tree[p] \/ tree'[p] = node[c]
      BY DEF IInv, Types
    <2> QED
      BY <1>1, <2>1, KeepNew
  <1>5. SameObject'
    BY DEF IInv, SameObject
  <1> QED
    BY <1>1, <1>2, <1>3, <1>4, <1>5, Parts, Quiet DEF IInv, Bounded

\* A node that was not linked goes to undo.
LEMMA InsertFailsStep ==
    ASSUME IInv, NEW c \in CPUs, insert_node(c), ~ (alive(mdb[c]) /\ attr'[node[c]] # {})
    PROVE  IInv'
  <1> USE DEF Goto, links, const, memory, work
  <1>1. pc[c] = "insert_node" /\ node[c] \in Nodes /\ attr[node[c]] = {}
    BY DEF insert_node, IInv, Busy, NewNodes, Inserting, Unlinked
  <1>2. pc' = [pc EXCEPT ![c] = "undo"] /\ UNCHANGED <<tree, slot, memory, const, links, node, work>>
    BY DEF insert_node
  <1>3. attr' = attr
    <2>1. CASE alive(mdb[c])
      <3>1. attr' = [attr EXCEPT ![node[c]] = attr[mdb[c]] \cap rights[c]]
        BY <2>1 DEF insert_node
      <3>2. attr' = [attr EXCEPT ![node[c]] = {}]
        BY <1>1, <2>1, <3>1 DEF IInv, Types
      <3> QED
        BY <1>1, <3>2 DEF IInv, Types
    <2>2. CASE ~ alive(mdb[c])
      BY <2>2 DEF insert_node
    <2> QED
      BY <2>1, <2>2
  <1>4. OnlyGoes(c) /\ pc'[c] = "undo" /\ node'[c] = node[c] /\ mdb'[c] = mdb[c]
    BY <1>2 DEF IInv, Types, OnlyGoes, Waits
  <1>5. Types'
    BY <1>2, <1>3 DEF IInv, Types, Locations
  <1>6. Busy'
    BY <1>1, <1>2, <1>4, Parts DEF IInv, Busy, OnlyGoes, Waits
  <1>7. NewNodes'
    BY <1>2, <1>3, <1>4, Parts, KeepNew
  <1>8. SameObject'
    BY <1>2 DEF IInv, SameObject
  <1> QED
    BY <1>1, <1>2, <1>3, <1>4, <1>5, <1>6, <1>7, <1>8, Parts, Quiet DEF IInv, Bounded

\* A revocation starts: everything below its node is ahead.
LEMMA RevokeStart ==
    ASSUME IInv, NEW c \in Revokers, NEW p \in PDs, NEW r \in SomeRights, NEW s \in BOOLEAN, revoke(c, p, r, s)
    PROVE  IInv'
  <1> USE DEF Goto, links, const, memory, work
  <1>0. PICK m : m = tree[p]
    OBVIOUS
  <1>1. /\ pc[c] = "idle" /\ m # NoNode
        /\ mdb' = [mdb EXCEPT ![c] = m] /\ node' = [node EXCEPT ![c] = m] /\ depth' = [depth EXCEPT ![c] = dpth[m]]
        /\ rights' = [rights EXCEPT ![c] = r] /\ self' = [self EXCEPT ![c] = s] /\ pc' = [pc EXCEPT ![c] = "revoke_slot"]
        /\ UNCHANGED <<tree, slot, memory, const, links, attr, demote>>
    BY <1>0 DEF revoke
  <1>2. c \in CPUs /\ m \in Nodes /\ r \in SUBSET Rights
    BY <1>0, <1>1 DEF CPUs, IInv, Types, MaybeNode, SomeRights
  <1>3. \A n \in Nodes : (\A q \in PDs : tree[q] # n) => n # m
    BY <1>0
  <1>4. OnlyGoes(c) /\ pc'[c] = "revoke_slot" /\ node'[c] = m /\ mdb'[c] = m /\ depth'[c] = dpth[m] /\ self'[c] = s /\ rights'[c] = r
    BY <1>1, <1>2 DEF IInv, Types, OnlyGoes, Waits
  <1>5. Types'
    BY <1>1, <1>2 DEF IInv, Types, Locations, MaybeNode
  <1>6. Busy'
    BY <1>1, <1>2, <1>4, <1>5, Parts DEF IInv, Busy, OnlyGoes, Waits, Types
  <1>7. NewNodes'
    BY <1>1, <1>2, <1>3, <1>4, Parts, KeepNew
  <1>8. SameObject'
    BY <1>1 DEF IInv, SameObject
  <1>9. \A n \in Nodes : alive(n) /\ Above(m, n) => Ahead(c, n)'
    <2> SUFFICES ASSUME NEW n \in Nodes, alive(n), Above(m, n) PROVE Ahead(c, n)'
      OBVIOUS
    <2>1. dpth[m] \in Nat /\ dpth[m] <= dpth[m]
      BY <1>2 DEF IInv, Types
    <2>2. AheadIn(next, dpth, dpth[m], FirstIn(next, dpth, dpth[m], "revoke_slot", m), n)
      BY <1>2, <2>1, BelowAhead DEF IInv
    <2> QED
      BY <1>1, <1>4, <2>2 DEF Ahead
  <1>10. Sweeping(c)'
    <2>1. Above(m, m)
      BY AboveItself DEF Above
    <2>2. Swept(c, m)'
      <3>1. \A n \in Nodes : (alive(n)' <=> alive(n)) /\ (Above(m, n)' <=> Above(m, n))
        BY <1>1 DEF alive, Above
      <3> QED
        BY <1>4, <1>9, <3>1, Parts DEF Swept
    <2>3. dpth[m] \in Nat
      BY <1>2 DEF IInv, Types
    <2>4. ASSUME NEW w \in Nodes, Above(w, m) PROVE dpth[w] <= dpth[m]
      BY <1>2, <2>4, HaveDepths, AboveIsHigher DEF Above, IInv
    <2>5. s = FALSE => Base(c)' = dpth[m] + 1
      BY <1>4 DEF Base
    <2>6. dpth[m] <= Base(c)'
      BY <1>4, <2>3 DEF Base
    <2>7. ASSUME NEW w \in Nodes, Above(w, m), s = FALSE PROVE dpth[w] # Base(c)'
      <3>1. dpth[w] \in Nat
        BY DEF IInv, Types
      <3> QED
        BY <2>3, <2>4, <2>5, <2>7, <3>1
    <2>8. ~ (dpth[m] > Base(c)')
      BY <1>4, <2>3 DEF Base
    <2> QED
      BY <1>1, <1>4, <2>1, <2>2, <2>7, <2>8 DEF Sweeping, Above
  <1>11. depth'[c] <= Cardinality(Children)
    BY <1>2, <1>4 DEF IInv, Bounded
  <1> QED
    BY <1>1, <1>2, <1>4, <1>5, <1>6, <1>7, <1>8, <1>10, <1>11, Parts, Quiet

\* The walk looks at its node: it takes the rights away, or goes on if there are
\* none to take.
LEMMA RevokeSlotStep ==
    ASSUME IInv, NEW c \in CPUs, revoke_slot(c)
    PROVE  IInv'
  <1> USE DEF Goto, links, const, memory, work
  <1>0. PICK n : n = node[c]
    OBVIOUS
  <1>1. /\ pc[c] = "revoke_slot" /\ n \in Nodes /\ mdb[c] \in Nodes /\ phys[n] = phys[mdb[c]]
        /\ attr[n] \in SUBSET Rights /\ depth[c] <= dpth[n] /\ dpth[n] \in Nat /\ depth[c] \in Nat
    BY <1>0, Parts DEF revoke_slot, IInv, Busy, Types
  <1>2. UNCHANGED <<tree, memory, const, links, attr, node, mdb, depth, rights, self>>
    BY DEF revoke_slot
  <1>3. demote' = [demote EXCEPT ![c] = IF dpth[n] = Base(c) THEN TRUE ELSE @]
    BY <1>0, <1>1 DEF revoke_slot, Base
  <1>4. \/ pc' = [pc EXCEPT ![c] = "demote"] /\ demote'[c]
        \/ pc' = [pc EXCEPT ![c] = "forward"] /\ (demote'[c] => attr[n] \cap rights[c] = {})
    BY <1>0 DEF revoke_slot
  <1>5. slot' \in [PDs -> [obj : MaybeNode, prm : SUBSET Rights]]
    <2>1. Capability(n, attr[n] \ rights[c]) \in [obj : MaybeNode, prm : SUBSET Rights]
      BY <1>1, CapabilityType DEF IInv
    <2> QED
      BY <1>0, <2>1 DEF revoke_slot, IInv, Types
  <1>6. Types'
    BY <1>2, <1>3, <1>4, <1>5 DEF IInv, Types, Locations
  <1>7. /\ OnlyGoes(c) /\ pc'[c] \in {"demote", "forward"}
        /\ dpth[n] = Base(c) => demote'[c]
        /\ demote[c] => demote'[c]
    BY <1>2, <1>3, <1>4 DEF IInv, Types, OnlyGoes, Waits
  <1>8. /\ node'[c] = n /\ mdb'[c] = mdb[c] /\ depth'[c] = depth[c] /\ rights'[c] = rights[c] /\ self'[c] = self[c]
        /\ Base(c)' = Base(c)
    BY <1>0, <1>2 DEF Base
  <1>9. pc'[c] = "forward" /\ demote'[c] => attr[n] \cap rights[c] = {}
    BY <1>4, <1>7 DEF IInv, Types
  <1>10. Busy'
    BY <1>1, <1>2, <1>4, <1>7, <1>8, Parts DEF IInv, Busy, OnlyGoes, Waits, Types
  <1>11. NewNodes'
    BY <1>0, <1>1, <1>2, <1>7, <1>8, Parts, KeepNew
  <1>12. SameObject'
    BY <1>2 DEF IInv, SameObject
  <1>13. ASSUME NEW m \in Nodes, attr[m] \cap rights[c] # {}, Ahead(c, m), demote'[c] PROVE Ahead(c, m)'
    <2>1. AheadIn(next, dpth, depth[c], FirstIn(next, dpth, depth[c], "revoke_slot", n), m)
      BY <1>0, <1>1, <1>13 DEF Ahead
    <2>2. CASE pc'[c] = "demote"
      <3>1. FirstIn(next, dpth, depth[c], "revoke_slot", n) = FirstIn(next, dpth, depth[c], "demote", n)
        BY DEF FirstIn
      <3> QED
        BY <1>2, <1>8, <2>1, <2>2, <3>1 DEF Ahead
    <2>3. CASE pc'[c] = "forward"
      <3>1. m # n
        BY <1>9, <1>13, <2>3
      <3>2. AheadIn(next, dpth, depth[c], FirstIn(next, dpth, depth[c], "forward", n), m)
        BY <1>1, <2>1, <3>1, AheadLeave
      <3> QED
        BY <1>2, <1>8, <2>3, <3>2 DEF Ahead
    <2> QED
      BY <1>7, <2>2, <2>3
  <1>14. ASSUME ~ HalfInserted(c)' PROVE Sweeping(c)'
    <2>1. Sweeping(c)
      BY <1>1, <1>2, <1>8, <1>14, Parts DEF IInv, Revocations, HalfInserted
    <2>2. dpth[n] >= Base(c) => demote'[c]
      <3>1. dpth[n] > Base(c) => demote[c]
        BY <1>0, <1>1, <2>1, Parts DEF Sweeping
      <3>2. Base(c) \in Nat
        BY <1>1 DEF Base
      <3>3. dpth[n] >= Base(c) => dpth[n] = Base(c) \/ dpth[n] > Base(c)
        BY <1>1, <3>2
      <3> QED
        BY <1>7, <3>1, <3>3
    <2>3. ASSUME NEW w, Swept(c, w), demote'[c] PROVE Swept(c, w)'
      <3> SUFFICES ASSUME NEW m \in Nodes, alive(m), Above(w, m)', attr[m] \cap rights[c] # {}
                   PROVE  pc'[c] \in Walking /\ Ahead(c, m)'
        BY <1>2, <1>8 DEF Swept, alive
      <3>1. Above(w, m)
        BY <1>2 DEF Above
      <3> QED
        BY <1>7, <1>13, <2>3, <3>1, Parts DEF Swept
    <2>4. ASSUME self[c] PROVE Swept(c, mdb[c])'
      <3>0. PICK m : m = mdb[c]
        OBVIOUS
      <3>1. dpth[n] >= Base(c)
        BY <1>1, <2>4 DEF Base
      <3>2. Swept(c, m)'
        BY <2>1, <2>2, <2>3, <2>4, <3>0, <3>1 DEF Sweeping
      <3> QED
        BY <1>8, <3>0, <3>2
    <2>5. ASSUME NEW w \in Nodes, ~ self[c], Above(w, n), dpth[w] = Base(c) PROVE Swept(c, w)'
      <3>1. dpth[w] <= dpth[n]
        BY <1>1, <2>5, HaveDepths, AboveIsHigher DEF Above, IInv
      <3>2. dpth[n] >= Base(c)
        BY <1>1, <2>5, <3>1
      <3> QED
        BY <1>0, <1>1, <2>1, <2>2, <2>3, <2>5, <3>2, Parts DEF Sweeping
    <2>6. Above(mdb[c], n)
      BY <1>0, <2>1 DEF Sweeping
    <2>7. dpth[n] > Base(c) => dpth[n] >= Base(c)
      BY <1>1 DEF Base
    <2>8. pc'[c] # "turn"
      BY <1>7
    <2> QED
      BY <1>2, <1>8, <1>9, <2>2, <2>4, <2>5, <2>6, <2>7, <2>8 DEF Sweeping, Above
  <1>15. depth'[c] <= Cardinality(Children)
    BY <1>8 DEF IInv, Bounded
  <1>16. demote[c] => demote'[c]
    BY <1>7
  <1> QED
    BY <1>2, <1>6, <1>7, <1>8, <1>10, <1>11, <1>12, <1>13, <1>14, <1>15, <1>16, Parts, Quiet

\* The walk goes on to the next node.
LEMMA ForwardStep ==
    ASSUME IInv, NEW c \in CPUs, forward(c), dpth[next[node[c]]] > depth[c]
    PROVE  IInv'
  <1> USE DEF Goto, links, const, memory, work
  <1>0. PICK n, y : n = node[c] /\ y = next[n]
    OBVIOUS
  <1>1. /\ pc[c] = "forward" /\ n \in Nodes /\ y \in Nodes /\ mdb[c] \in Nodes
        /\ dpth[n] \in Nat /\ dpth[y] \in Nat /\ depth[c] \in Nat /\ depth[c] <= dpth[n] /\ dpth[y] > depth[c]
        /\ phys[n] = phys[mdb[c]] /\ phys[y] = phys[n]
    BY <1>0, Parts DEF forward, IInv, Busy, Types, SameObject
  <1>2. /\ pc' = [pc EXCEPT ![c] = "revoke_slot"] /\ node' = [node EXCEPT ![c] = y]
        /\ UNCHANGED <<tree, slot, memory, const, links, attr, work>>
    BY <1>0, <1>1 DEF forward
  <1>3. /\ OnlyGoes(c) /\ pc'[c] = "revoke_slot" /\ node'[c] = y /\ mdb'[c] = mdb[c] /\ depth'[c] = depth[c]
        /\ rights'[c] = rights[c] /\ self'[c] = self[c] /\ demote'[c] = demote[c] /\ Base(c)' = Base(c)
    BY <1>2 DEF IInv, Types, OnlyGoes, Waits, Base
  <1>4. Types'
    BY <1>1, <1>2 DEF IInv, Types, Locations, MaybeNode
  <1>5. Busy'
    BY <1>1, <1>2, <1>3, Parts DEF IInv, Busy, OnlyGoes, Waits
  <1>6. NewNodes'
    <2>1. \A m \in Nodes : Unlinked(m) /\ m = y => m = n
      BY <1>0, <1>1 DEF Unlinked
    <2> QED
      BY <1>0, <1>2, <1>3, <2>1, Parts, KeepNew
  <1>7. SameObject'
    BY <1>2 DEF IInv, SameObject
  <1>8. \A m \in Nodes : Ahead(c, m)' <=> Ahead(c, m)
    <2>1. FirstIn(next, dpth, depth[c], "forward", n) = FirstIn(next, dpth, depth[c], "revoke_slot", y)
      BY <1>0, <1>1 DEF FirstIn
    <2> QED
      BY <1>0, <1>1, <1>2, <1>3, <2>1 DEF Ahead
  <1>9. ASSUME ~ HalfInserted(c)' PROVE Sweeping(c)'
    <2>1. Sweeping(c) /\ depth[c] = dpth[mdb[c]]
      BY <1>1, <1>2, <1>3, <1>9, Parts DEF IInv, Revocations, HalfInserted
    <2>2. Depths(prnt, dpth)
      BY HaveDepths DEF IInv
    <2>3. prnt[y] # NoNode /\ prnt[y] \in Nodes /\ dpth[y] = dpth[prnt[y]] + 1 /\ dpth[prnt[y]] \in Nat
      BY <1>1, <2>2 DEF Depths
    <2>4. Above(prnt[y], n) /\ Above(prnt[y], y)
      BY <1>0, <1>1, <2>3, ParentAbove DEF IInv, ParentsFirst, Above
    <2>5. dpth[prnt[y]] <= dpth[n]
      BY <1>1, <2>2, <2>4, AboveIsHigher DEF Above
    <2>6. Above(mdb[c], y)
      <3>1. dpth[mdb[c]] <= dpth[prnt[y]]
        BY <1>1, <2>1, <2>3
      <3>2. Above(mdb[c], n)
        BY <1>0, <2>1 DEF Sweeping
      <3>3. Above(mdb[c], prnt[y])
        BY <1>1, <2>2, <2>4, <3>1, <3>2, AboveIsChain DEF Above
      <3> QED
        BY <2>3, <2>4, <3>3, AboveAbove DEF Above
    <2>7. \A w : Swept(c, w) => Swept(c, w)'
      <3>1. \A w, m : Above(w, m)' <=> Above(w, m)
        BY <1>2 DEF Above
      <3> QED
        BY <1>2, <1>3, <1>8, <3>1, Parts DEF Swept, alive
    <2>8. dpth[y] > Base(c) => demote[c]
      <3>1. Base(c) \in Nat
        BY <1>1 DEF Base
      <3>2. dpth[y] > Base(c) => dpth[n] >= Base(c)
        BY <1>1, <2>3, <2>5, <3>1
      <3> QED
        BY <1>0, <1>1, <2>1, <3>2, Parts DEF Sweeping
    <2>9. ASSUME NEW w \in Nodes, ~ self[c], Above(w, y), dpth[w] = Base(c) PROVE Swept(c, w)'
      <3>1. CASE w = y
        <4> SUFFICES ASSUME NEW m \in Nodes, alive(m), Above(y, m)' PROVE pc'[c] \in Walking /\ Ahead(c, m)'
          BY <1>2, <3>1 DEF Swept, alive
        <4>1. Above(y, m) /\ depth[c] <= dpth[y]
          BY <1>1, <1>2 DEF Above
        <4>2. AheadIn(next, dpth, depth[c], FirstIn(next, dpth, depth[c], "revoke_slot", y), m)
          BY <1>1, <4>1, BelowAhead DEF IInv
        <4> QED
          BY <1>2, <1>3, <4>2, Parts DEF Ahead
      <3>2. CASE w # y
        <4>1. Above(w, prnt[y])
          BY <1>1, <2>9, <3>2, AboveParent DEF Above
        <4>2. Above(w, n)
          BY <2>3, <2>4, <4>1, AboveAbove DEF Above
        <4> QED
          BY <1>0, <1>1, <2>1, <2>7, <2>9, <4>2, Parts DEF Sweeping
      <3> QED
        BY <3>1, <3>2
    <2> QED
      BY <1>2, <1>3, <2>1, <2>6, <2>7, <2>8, <2>9, Parts DEF Sweeping, Above
  <1>10. depth'[c] <= Cardinality(Children)
    BY <1>3 DEF IInv, Bounded
  <1> QED
    BY <1>2, <1>3, <1>4, <1>5, <1>6, <1>7, <1>8, <1>9, <1>10, Parts, Quiet

\* The walk is over: nothing is ahead.
LEMMA ForwardEnds ==
    ASSUME IInv, NEW c \in CPUs, forward(c), ~ (dpth[next[node[c]]] > depth[c])
    PROVE  IInv'
  <1> USE DEF Goto, links, const, memory, work
  <1>1. /\ pc[c] = "forward" /\ node[c] \in Nodes /\ next[node[c]] \in Nodes /\ mdb[c] \in Nodes
        /\ dpth[next[node[c]]] \in Nat /\ dpth[node[c]] \in Nat /\ depth[c] \in Nat /\ Base(c) \in Nat /\ depth[c] <= Base(c)
    BY Parts DEF forward, IInv, Busy, Types, Base
  <1>2. /\ pc' = [pc EXCEPT ![c] = "turn"] /\ dpth[next[node[c]]] <= depth[c]
        /\ UNCHANGED <<tree, slot, memory, const, links, attr, node, work>>
    BY <1>1 DEF forward
  <1>3. OnlyGoes(c) /\ pc'[c] = "turn" /\ Base(c)' = Base(c)
    BY <1>2 DEF IInv, Types, OnlyGoes, Waits, Base
  <1>4. Types'
    BY <1>2 DEF IInv, Types, Locations
  <1>5. Busy'
    BY <1>1, <1>2, <1>3, Parts DEF IInv, Busy, OnlyGoes, Waits
  <1>6. NewNodes'
    BY <1>2, <1>3, Parts, KeepNew
  <1>7. SameObject'
    BY <1>2 DEF IInv, SameObject
  <1>8. \A m \in Nodes : ~ Ahead(c, m)
    <2>1. FirstIn(next, dpth, depth[c], "forward", node[c]) = {}
      BY DEF FirstIn
    <2> QED
      BY <1>1, <2>1, AheadNothing DEF Ahead
  <1>9. ASSUME ~ HalfInserted(c)' PROVE Sweeping(c)'
    <2>1. Sweeping(c)
      BY <1>1, <1>2, <1>9, Parts DEF IInv, Revocations, HalfInserted
    <2>2. \A w : Swept(c, w) => Swept(c, w)'
      <3>1. \A w, m : Above(w, m)' <=> Above(w, m)
        BY <1>2 DEF Above
      <3> QED
        BY <1>2, <1>8, <3>1 DEF Swept, alive
    <2>3. dpth[next[node[c]]] <= Base(c)
      BY <1>1, <1>2
    <2>4. dpth[node[c]] > Base(c) => dpth[node[c]] >= Base(c)
      BY <1>1
    <2> QED
      BY <1>1, <1>2, <1>3, <2>1, <2>2, <2>3, <2>4, Parts DEF Sweeping, Above
  <1>10. depth'[c] <= Cardinality(Children)
    BY <1>2 DEF IInv, Bounded
  <1> QED
    BY <1>2, <1>3, <1>4, <1>5, <1>6, <1>7, <1>8, <1>9, <1>10, Parts, Quiet

\* On the way back only the place in the code changes.
LEMMA RemovingStep ==
    ASSUME IInv, NEW c \in CPUs, pc[c] = "turn" \/ pc[c] \in Removing, NEW l \in Removing, Goto(c, l),
           UNCHANGED <<slot, fresh, deleted, const, links, attr, node, work>>, retired' \subseteq Nodes,
           tree' \in [PDs -> MaybeNode], \A p \in PDs : tree'[p] \in {tree[p], NoNode}
    PROVE  IInv'
  <1> USE DEF Goto, links, const, work
  <1>1. /\ node[c] \in Nodes /\ mdb[c] \in Nodes /\ c \in Revokers /\ pc[c] \notin Walking /\ pc[c] \in Revoking
        /\ OnlyGoes(c) /\ pc'[c] = l /\ pc'[c] \notin Walking /\ pc'[c] # "turn" /\ pc'[c] \notin Inserting
    BY Parts DEF IInv, Busy, Types, OnlyGoes, Waits
  <1>2. Types'
    BY Parts DEF IInv, Types, Locations
  <1>3. Busy'
    BY <1>1, Parts DEF IInv, Busy, OnlyGoes, Waits
  <1>4. NewNodes'
    <2>1. \A n \in Nodes : n # NoNode
      BY MdbAssumption
    <2> QED
      BY <1>1, <2>1, KeepNew
  <1>5. SameObject'
    BY DEF IInv, SameObject
  <1>6. ASSUME ~ HalfInserted(c)' PROVE Sweeping(c)'
    <2>1. Sweeping(c)
      BY <1>1, <1>6 DEF IInv, Revocations, HalfInserted
    <2>2. \A w : Swept(c, w) => Swept(c, w)'
      <3>1. \A w, m : Above(w, m)' <=> Above(w, m)
        BY DEF Above
      <3> QED
        BY <1>1, <3>1 DEF Swept, alive
    <2> QED
      BY <1>1, <2>1, <2>2 DEF Sweeping, Above
  <1>7. depth'[c] <= Cardinality(Children)
    BY DEF IInv, Bounded
  <1> QED
    BY <1>1, <1>2, <1>3, <1>4, <1>5, <1>6, <1>7, Quiet

\* Back to the previous node.
LEMMA BackwardStep ==
    ASSUME IInv, NEW c \in CPUs, backward(c), ~ (dpth[node[c]] <= depth[c])
    PROVE  IInv'
  <1> USE DEF Goto, links, const, memory, work
  <1>0. PICK n, q : n = node[c] /\ q = prev[n]
    OBVIOUS
  <1>1. /\ pc[c] = "backward" /\ n \in Nodes /\ q \in Nodes /\ mdb[c] \in Nodes /\ c \in Revokers
        /\ dpth[n] \in Nat /\ depth[c] \in Nat /\ dpth[n] > depth[c]
    BY <1>0, Parts DEF backward, IInv, Busy, Types
  <1>2. /\ pc' = [pc EXCEPT ![c] = "remove"] /\ node' = [node EXCEPT ![c] = q]
        /\ UNCHANGED <<tree, slot, memory, const, links, attr, work>>
    BY <1>0, <1>1 DEF backward
  <1>3. /\ OnlyGoes(c) /\ pc'[c] = "remove" /\ node'[c] = q /\ mdb'[c] = mdb[c] /\ depth'[c] = depth[c]
        /\ rights'[c] = rights[c] /\ self'[c] = self[c]
    BY <1>2 DEF IInv, Types, OnlyGoes, Waits
  <1>4. Types'
    BY <1>1, <1>2 DEF IInv, Types, Locations, MaybeNode
  <1>5. Busy'
    BY <1>1, <1>2, <1>3, Parts DEF IInv, Busy, OnlyGoes, Waits
  <1>6. NewNodes'
    <2>1. \A m \in Nodes : Unlinked(m) /\ m = q => m = n
      BY <1>0, <1>1 DEF Unlinked
    <2> QED
      BY <1>0, <1>2, <1>3, <2>1, Parts, KeepNew
  <1>7. SameObject'
    BY <1>2 DEF IInv, SameObject
  <1>8. ASSUME ~ HalfInserted(c)' PROVE Sweeping(c)'
    <2>1. Sweeping(c) /\ depth[c] = dpth[mdb[c]]
      BY <1>1, <1>2, <1>3, <1>8, Parts DEF IInv, Revocations, HalfInserted
    <2>2. Above(mdb[c], n) /\ mdb[c] # n
      BY <1>0, <1>1, <2>1 DEF Sweeping
    <2>3. prnt[n] # NoNode /\ prnt[n] \in Nodes /\ Above(mdb[c], prnt[n])
      BY <1>1, <2>2, AboveParent, HaveDepths DEF Above, IInv, Depths
    <2>4. Above(prnt[n], q)
      BY <1>0, <1>1, <2>3 DEF IInv, ParentsFirst
    <2>5. Above(mdb[c], q)
      BY <2>3, <2>4, AboveAbove DEF Above
    <2>6. \A w : Swept(c, w) => Swept(c, w)'
      <3>1. \A w, m : Above(w, m)' <=> Above(w, m)
        BY <1>2 DEF Above
      <3> QED
        BY <1>1, <1>2, <1>3, <3>1, Parts DEF Swept, alive
    <2> QED
      BY <1>2, <1>3, <2>1, <2>5, <2>6, Parts DEF Sweeping, Above
  <1>9. depth'[c] <= Cardinality(Children)
    BY <1>3 DEF IInv, Bounded
  <1> QED
    BY <1>1, <1>2, <1>3, <1>4, <1>5, <1>6, <1>7, <1>8, <1>9, Parts, Quiet

\* A new object: a list of its own.
LEMMA CreateStep ==
    ASSUME IInv, NEW c \in CPUs, NEW n \in Nodes, NEW p \in PDs, create(c, n, p)
    PROVE  IInv'
  <1> USE DEF Goto, links, const, work
  <1>1. /\ pc[c] = "idle" /\ n \in fresh /\ fresh' = fresh \ {n}
        /\ space' = [space EXCEPT ![n] = p] /\ phys' = [phys EXCEPT ![n] = n] /\ node' = [node EXCEPT ![c] = n]
        /\ tree' = [tree EXCEPT ![p] = n] /\ attr' = [attr EXCEPT ![n] = Rights] /\ pc' = [pc EXCEPT ![c] = "insert_root"]
        /\ UNCHANGED <<deleted, retired, slot, links, work>>
    BY DEF create, NewNode
  <1>2. Unlinked(n) /\ \A d \in CPUs : Secret(n, d) /\ node[d] # n /\ mdb[d] # n
    BY <1>1 DEF IInv, NewNodes, Secret
  <1>3. OnlyGoes(c) /\ pc'[c] = "insert_root" /\ node'[c] = n
    BY <1>1 DEF IInv, Types, OnlyGoes, Waits
  <1>4. Types'
    BY <1>1 DEF IInv, Types, Locations, MaybeNode
  <1>5. \A m \in Nodes : m # n => attr'[m] = attr[m] /\ phys'[m] = phys[m] /\ (Unlinked(m) => Unlinked(m)')
    BY <1>1 DEF IInv, Types, Unlinked
  <1>6. Busy'
    <2>1. \A d \in CPUs : d # c => pc'[d] = pc[d] /\ node'[d] = node[d] /\ mdb'[d] = mdb[d] /\ depth'[d] = depth[d] /\ demote'[d] = demote[d]
      BY <1>3 DEF OnlyGoes, Waits
    <2>2. ASSUME NEW d \in CPUs, d # c, pc[d] \in Walking PROVE phys'[node[d]] = phys'[mdb[d]]
      <3>1. node[d] \in Nodes /\ mdb[d] \in Nodes /\ phys[node[d]] = phys[mdb[d]]
        BY <2>2, Parts DEF IInv, Busy
      <3> QED
        BY <1>2, <1>5, <3>1
    <2> QED
      BY <1>1, <1>3, <2>1, <2>2, Parts DEF IInv, Busy
  <1>7. NewNodes'
    <2>1. \A q \in PDs : tree'[q] = tree[q] \/ tree'[q] = n
      BY <1>1 DEF IInv, Types
    <2>2. ASSUME NEW m \in fresh', NEW d \in CPUs PROVE Unlinked(m)' /\ Secret(m, d)' /\ node'[d] # m
      <3>1. m # n /\ m \in Nodes /\ Unlinked(m) /\ \A e \in CPUs : Secret(m, e) /\ node[e] # m
        BY <1>1, <2>2 DEF IInv, NewNodes, Types
      <3> QED
        BY <1>1, <1>3, <1>5, <2>1, <3>1 DEF Secret, OnlyGoes, Waits
    <2>3. ASSUME NEW d \in CPUs, pc'[d] \in Inserting
          PROVE  /\ Unlinked(node[d])' /\ node'[d] \notin fresh' /\ phys'[node'[d]] = phys'[mdb'[d]] /\ node'[d] # mdb'[d]
                 /\ \A e \in CPUs : e # d /\ pc'[e] \in Inserting => node'[e] # node'[d]
                 /\ pc'[d] = "tree_insert" => Secret(node[d], d)'
      <3>1. d # c /\ pc[d] \in Inserting /\ node'[d] = node[d] /\ mdb'[d] = mdb[d] /\ pc'[d] = pc[d]
        BY <1>3, <2>3, Parts DEF OnlyGoes, Waits
      <3>2. /\ node[d] \in Nodes /\ mdb[d] \in Nodes /\ Unlinked(node[d]) /\ node[d] \notin fresh
            /\ phys[node[d]] = phys[mdb[d]] /\ node[d] # mdb[d]
            /\ \A e \in CPUs : e # d /\ pc[e] \in Inserting => node[e] # node[d]
            /\ pc[d] = "tree_insert" => Secret(node[d], d)
        BY <3>1, Parts DEF IInv, Busy, NewNodes
      <3>3. \A e \in CPUs : pc'[e] \in Inserting => e # c /\ pc[e] \in Inserting /\ node'[e] = node[e]
        BY <1>3, Parts DEF OnlyGoes, Waits
      <3>4. Unlinked(node[d])'
        BY <1>2, <1>5, <3>1, <3>2 DEF Unlinked
      <3>5. pc[d] = "tree_insert" => Secret(node[d], d)'
        BY <1>1, <1>2, <1>3, <2>1, <3>1, <3>2 DEF Secret, OnlyGoes, Waits
      <3> QED
        BY <1>1, <1>2, <1>5, <3>1, <3>2, <3>3, <3>4, <3>5
    <2> QED
      BY <2>2, <2>3 DEF NewNodes
  <1>8. ParentsFirst' /\ Ordered'
    BY <1>1 DEF IInv, ParentsFirst, Ordered, Placed, Above, alive
  <1>9. SameObject'
    <2> SUFFICES ASSUME NEW m \in Nodes PROVE phys'[next[m]] = phys'[m]
      BY <1>1 DEF SameObject
    <2>1. next[m] \in Nodes /\ (next[m] = n <=> m = n) /\ phys[next[m]] = phys[m]
      BY <1>2 DEF Unlinked, IInv, Types, SameObject
    <2> QED
      BY <1>5, <2>1
  <1>10. Bounded'
    BY <1>1 DEF IInv, Bounded, Children
  <1>11. \A d \in CPUs, m \in Nodes : d # c => (Ahead(d, m)' <=> Ahead(d, m))
    BY <1>1, <1>3 DEF Ahead, OnlyGoes, Waits
  <1>12. (\A m \in Nodes : alive(m)' <=> alive(m)) /\ (\A a, m : Above(a, m)' <=> Above(a, m))
    BY <1>1 DEF alive, Above
  <1>13. Shrinking'
    <2> SUFFICES ASSUME NEW m \in Nodes, alive(m), prnt[m] # NoNode, NEW r \in attr'[m], r \notin attr'[prnt[m]]
                 PROVE  \E d \in Revokers : pc'[d] \in Walking /\ demote'[d] /\ r \in rights'[d] /\ Ahead(d, m)'
      BY <1>1, <1>12 DEF Shrinking
    <2>1. m # n /\ prnt[m] # n /\ prnt[m] \in Nodes
      BY <1>2 DEF Unlinked, IInv, Types, MaybeNode
    <2>2. r \in attr[m] /\ r \notin attr[prnt[m]]
      BY <1>5, <2>1
    <2>3. PICK d \in Revokers : pc[d] \in Walking /\ demote[d] /\ r \in rights[d] /\ Ahead(d, m)
      BY <2>2 DEF IInv, Shrinking
    <2>4. d \in CPUs /\ d # c
      BY <1>1, <2>3, Parts DEF CPUs
    <2> QED
      BY <1>3, <1>11, <2>3, <2>4 DEF OnlyGoes, Waits
  <1>14. Revocations'
    <2> SUFFICES ASSUME NEW d \in CPUs, pc'[d] \in Revoking, ~ HalfInserted(d)'
                 PROVE  Sweeping(d)'
      BY DEF Revocations
    <2>1. d # c /\ Waits(d) /\ pc[d] \in Revoking
      BY <1>3, Parts DEF OnlyGoes, Waits
    <2>2. Sweeping(d) /\ node[d] \in Nodes /\ mdb[d] \in Nodes /\ node[d] # n /\ mdb[d] # n
      BY <1>1, <1>2, <2>1, Parts DEF IInv, Revocations, HalfInserted, Waits, Busy
    <2>3. ASSUME NEW w, w # n, Swept(d, w) PROVE Swept(d, w)'
      <3> SUFFICES ASSUME NEW m \in Nodes, alive(m), Above(w, m), attr'[m] \cap rights[d] # {}
                   PROVE  pc[d] \in Walking /\ Ahead(d, m)
        BY <1>11, <1>12, <2>1 DEF Swept, Waits
      <3>1. m # n
        BY <1>2, <2>3, AboveAlone DEF Unlinked, Above, IInv, Types
      <3> QED
        BY <1>5, <2>3, <3>1 DEF Swept
    <2>4. \A w \in Nodes : Above(w, node[d]) => w # n
      BY <1>2, <2>2, AboveAlone DEF Unlinked, Above, IInv, Types
    <2>5. Base(d)' = Base(d)
      BY <2>1 DEF Base, Waits
    <2>6. attr'[node[d]] = attr[node[d]] /\ attr'[next[node[d]]] = attr[next[node[d]]]
      BY <1>2, <1>5, <2>2 DEF Unlinked, IInv, Types
    <2>7. self[d] => Swept(d, mdb[d])'
      <3>1. PICK m : m = mdb[d]
        OBVIOUS
      <3>2. self[d] => Swept(d, m)'
        BY <2>2, <2>3, <3>1 DEF Sweeping
      <3> QED
        BY <2>1, <3>1, <3>2 DEF Waits
    <2> QED
      BY <1>1, <1>12, <2>1, <2>2, <2>3, <2>4, <2>5, <2>6, <2>7 DEF Sweeping, Waits
  <1> QED
    BY <1>4, <1>6, <1>7, <1>8, <1>9, <1>10, <1>13, <1>14 DEF IInv

\* A delegation starts with a node that nobody else knows.
LEMMA DelegateStart ==
    ASSUME IInv, NEW c \in CPUs, NEW n \in Nodes, NEW snd \in PDs, NEW rcv \in PDs, NEW r \in SomeRights,
           delegate(c, n, snd, rcv, r)
    PROVE  IInv'
  <1> USE DEF Goto, links, const
  <1>0. PICK m : m = tree[snd]
    OBVIOUS
  <1>1. /\ pc[c] = "idle" /\ n \in fresh /\ fresh' = fresh \ {n} /\ m # NoNode
        /\ space' = [space EXCEPT ![n] = rcv] /\ phys' = [phys EXCEPT ![n] = phys[m]] /\ node' = [node EXCEPT ![c] = n]
        /\ mdb' = [mdb EXCEPT ![c] = m] /\ rights' = [rights EXCEPT ![c] = r] /\ pc' = [pc EXCEPT ![c] = "tree_insert"]
        /\ UNCHANGED <<deleted, retired, tree, slot, links, attr, depth, demote, self>>
    BY <1>0 DEF delegate, NewNode
  <1>2. Unlinked(n) /\ \A d \in CPUs : Secret(n, d) /\ node[d] # n /\ mdb[d] # n
    BY <1>1 DEF IInv, NewNodes, Secret
  <1>3. m \in Nodes /\ m # n /\ r \in SUBSET Rights
    BY <1>0, <1>1, <1>2 DEF IInv, Types, MaybeNode, Secret, SomeRights
  <1>4. OnlyGoes(c) /\ pc'[c] = "tree_insert" /\ node'[c] = n /\ mdb'[c] = m /\ depth'[c] = depth[c]
    BY <1>1 DEF IInv, Types, OnlyGoes, Waits
  <1>5. Types'
    BY <1>1, <1>3 DEF IInv, Types, Locations, MaybeNode
  <1>6. \A k \in Nodes : (k # n => phys'[k] = phys[k]) /\ (Unlinked(k)' <=> Unlinked(k))
    BY <1>1 DEF IInv, Types, Unlinked
  <1>7. phys'[n] = phys'[m]
    BY <1>1, <1>3 DEF IInv, Types
  <1>8. Busy'
    <2>1. \A d \in CPUs : d # c => pc'[d] = pc[d] /\ node'[d] = node[d] /\ mdb'[d] = mdb[d] /\ depth'[d] = depth[d] /\ demote'[d] = demote[d]
      BY <1>4 DEF OnlyGoes, Waits
    <2>2. ASSUME NEW d \in CPUs, d # c, pc[d] \in Walking PROVE phys'[node[d]] = phys'[mdb[d]]
      <3>1. node[d] \in Nodes /\ mdb[d] \in Nodes /\ phys[node[d]] = phys[mdb[d]]
        BY <2>2, Parts DEF IInv, Busy
      <3> QED
        BY <1>2, <1>6, <3>1
    <2> QED
      BY <1>1, <1>3, <1>4, <2>1, <2>2, Parts DEF IInv, Busy
  <1>9. NewNodes'
    <2>1. ASSUME NEW k \in fresh', NEW d \in CPUs PROVE Unlinked(k)' /\ Secret(k, d)' /\ node'[d] # k
      <3>1. k # n /\ k \in Nodes /\ Unlinked(k) /\ \A e \in CPUs : Secret(k, e) /\ node[e] # k
        BY <1>1, <2>1 DEF IInv, NewNodes, Types
      <3>2. k # m
        BY <1>0, <3>1 DEF Secret
      <3> QED
        BY <1>1, <1>4, <1>6, <3>1, <3>2 DEF Secret, OnlyGoes, Waits
    <2>2. ASSUME NEW d \in CPUs, d # c, pc[d] \in Inserting
          PROVE  /\ Unlinked(node[d])' /\ node[d] \notin fresh' /\ phys'[node[d]] = phys'[mdb[d]] /\ node[d] # mdb[d]
                 /\ \A e \in CPUs : e # d /\ pc'[e] \in Inserting => node'[e] # node[d]
                 /\ pc[d] = "tree_insert" => Secret(node[d], d)'
      <3>1. /\ node[d] \in Nodes /\ mdb[d] \in Nodes /\ Unlinked(node[d]) /\ node[d] \notin fresh
            /\ phys[node[d]] = phys[mdb[d]] /\ node[d] # mdb[d] /\ node[d] # n /\ mdb[d] # n
            /\ \A e \in CPUs : e # d /\ pc[e] \in Inserting => node[e] # node[d]
            /\ pc[d] = "tree_insert" => Secret(node[d], d)
        BY <1>2, <2>2, Parts DEF IInv, Busy, NewNodes
      <3>2. \A e \in CPUs : e # c => pc'[e] = pc[e] /\ node'[e] = node[e] /\ mdb'[e] = mdb[e]
        BY <1>4 DEF OnlyGoes, Waits
      <3>3. Unlinked(node[d])'
        BY <1>1, <2>2, <3>1 DEF Unlinked, OnlyGoes, Waits
      <3>4. pc[d] = "tree_insert" => Secret(node[d], d)'
        BY <1>0, <1>1, <1>4, <2>2, <3>1, <3>2 DEF Secret
      <3> QED
        BY <1>1, <1>4, <1>6, <3>1, <3>2, <3>3, <3>4
    <2>3. Unlinked(n)' /\ Secret(n, c)'
      BY <1>1, <1>2, <1>3, <1>4 DEF Unlinked, Secret, OnlyGoes, Waits
    <2>4. \A d \in CPUs : d # c => pc'[d] = pc[d] /\ node'[d] = node[d] /\ mdb'[d] = mdb[d]
      BY <1>4 DEF OnlyGoes, Waits
    <2>5. n \notin fresh' /\ \A d \in CPUs : d # c => node[d] # n
      BY <1>1, <1>2
    <2>6. Unlinked(node[c])' /\ Secret(node[c], c)'
      BY <1>4, <2>3 DEF Unlinked, Secret
    <2> QED
      BY <1>3, <1>4, <1>7, <2>1, <2>2, <2>4, <2>5, <2>6, Parts DEF NewNodes, Unlinked, Secret
  <1>10. SameObject'
    <2> SUFFICES ASSUME NEW k \in Nodes PROVE phys'[next[k]] = phys'[k]
      BY <1>1 DEF SameObject
    <2>1. next[k] \in Nodes /\ (next[k] = n <=> k = n) /\ phys[next[k]] = phys[k]
      BY <1>2 DEF Unlinked, IInv, Types, SameObject
    <2> QED
      BY <1>6, <2>1
  <1> QED
    BY <1>1, <1>4, <1>5, <1>8, <1>9, <1>10, Parts, Quiet DEF IInv, Bounded

\* The slot is in use: the node, which nobody else knows, can be used again.
LEMMA TreeInsertFails ==
    ASSUME IInv, NEW c \in CPUs, pc[c] = "tree_insert", Finish(c), fresh' = fresh \cup {node[c]},
           space' = [space EXCEPT ![node[c]] = NoPd], phys' = [phys EXCEPT ![node[c]] = node[c]],
           UNCHANGED <<tree, slot, deleted, retired, links, attr>>
    PROVE  IInv'
  <1> USE DEF Finish, Goto, links
  <1>0. PICK n : n = node[c]
    OBVIOUS
  <1>1. n \in Nodes /\ Unlinked(n) /\ Secret(n, c)
    BY <1>0, Parts DEF IInv, Busy, NewNodes, Unlinked, Secret
  <1>2. OnlyGoes(c) /\ pc'[c] = "idle" /\ node'[c] = NoNode /\ mdb'[c] = NoNode /\ depth'[c] = 0
    BY DEF IInv, Types, OnlyGoes, Waits
  <1>3. Types'
    BY <1>0, <1>1 DEF IInv, Types, Locations, MaybeNode
  <1>4. \A k \in Nodes : (k # n => phys'[k] = phys[k]) /\ (Unlinked(k)' <=> Unlinked(k))
    BY <1>0 DEF IInv, Types, Unlinked
  <1>5. \A d \in CPUs : d # c => /\ pc'[d] = pc[d] /\ node'[d] = node[d] /\ mdb'[d] = mdb[d] /\ depth'[d] = depth[d]
                                 /\ demote'[d] = demote[d] /\ node[d] # n /\ mdb[d] # n
    BY <1>1, <1>2 DEF OnlyGoes, Waits, Secret
  <1>6. Busy'
    <2>1. ASSUME NEW d \in CPUs, d # c, pc[d] \in Walking PROVE phys'[node[d]] = phys'[mdb[d]]
      <3>1. node[d] \in Nodes /\ mdb[d] \in Nodes /\ phys[node[d]] = phys[mdb[d]]
        BY <2>1, Parts DEF IInv, Busy
      <3> QED
        BY <1>4, <1>5, <2>1, <3>1
    <2> QED
      BY <1>2, <1>5, <2>1, Parts DEF IInv, Busy
  <1>7. NewNodes'
    <2>1. ASSUME NEW k \in fresh', NEW d \in CPUs PROVE Unlinked(k)' /\ Secret(k, d)' /\ node'[d] # k
      <3>1. k # NoNode /\ k \in Nodes /\ Unlinked(k) /\ Secret(k, c)
        BY <1>0, <1>1, <2>1, MdbAssumption DEF IInv, NewNodes, Types
      <3> QED
        BY <1>2, <1>4, <1>5, <3>1 DEF Secret
    <2>2. ASSUME NEW d \in CPUs, pc'[d] \in Inserting
          PROVE  /\ Unlinked(node[d])' /\ node'[d] \notin fresh' /\ phys'[node'[d]] = phys'[mdb'[d]] /\ node'[d] # mdb'[d]
                 /\ \A e \in CPUs : e # d /\ pc'[e] \in Inserting => node'[e] # node'[d]
                 /\ pc'[d] = "tree_insert" => Secret(node[d], d)'
      <3>1. d # c /\ pc[d] \in Inserting
        BY <1>2, <1>5, <2>2, Parts
      <3>2. /\ node[d] \in Nodes /\ mdb[d] \in Nodes /\ Unlinked(node[d]) /\ node[d] \notin fresh
            /\ phys[node[d]] = phys[mdb[d]] /\ node[d] # mdb[d]
            /\ \A e \in CPUs : e # d /\ pc[e] \in Inserting => node[e] # node[d]
            /\ pc[d] = "tree_insert" => Secret(node[d], d)
        BY <3>1, Parts DEF IInv, Busy, NewNodes
      <3>3. \A e \in CPUs : pc'[e] \in Inserting => e # c /\ pc[e] \in Inserting
        BY <1>2, <1>5, Parts
      <3>4. Unlinked(node[d])'
        BY <1>5, <3>1, <3>2 DEF Unlinked
      <3>5. pc[d] = "tree_insert" => Secret(node[d], d)'
        BY <1>2, <1>5, <3>1, <3>2, MdbAssumption DEF Secret
      <3> QED
        BY <1>0, <1>4, <1>5, <3>1, <3>2, <3>3, <3>4, <3>5
    <2> QED
      BY <2>1, <2>2 DEF NewNodes
  <1>8. SameObject'
    <2> SUFFICES ASSUME NEW k \in Nodes PROVE phys'[next[k]] = phys'[k]
      BY DEF SameObject
    <2>1. next[k] \in Nodes /\ (next[k] = n <=> k = n) /\ phys[next[k]] = phys[k]
      BY <1>1 DEF Unlinked, IInv, Types, SameObject
    <2> QED
      BY <1>4, <2>1
  <1>9. depth'[c] <= Cardinality(Children)
    <2>1. IsFiniteSet(Children)
      BY MdbAssumption, FS_Subset DEF Children
    <2> QED
      BY <1>2, <2>1, FS_CardinalityType
  <1> QED
    BY <1>2, <1>3, <1>6, <1>7, <1>8, <1>9, Parts, Quiet

-----------------------------------------------------------------------------
(* The actions on the list and on the rights.                              *)

\* The walk takes the rights from its node: the children, which may have them
\* still, are ahead.
LEMMA DemoteStep ==
    ASSUME IInv, NEW c \in CPUs, demote_node(c)
    PROVE  IInv'
  <1> USE DEF Goto, links, const, memory, work
  <1>0. PICK x : x = node[c]
    OBVIOUS
  <1>1. /\ pc[c] = "demote" /\ x \in Nodes /\ mdb[c] \in Nodes /\ c \in Revokers /\ demote[c]
        /\ depth[c] \in Nat /\ dpth[x] \in Nat /\ depth[c] <= dpth[x]
    BY <1>0, Parts DEF demote_node, IInv, Busy, Types
  <1>2. /\ attr' = [attr EXCEPT ![x] = @ \ rights[c]] /\ pc' = [pc EXCEPT ![c] = "forward"]
        /\ UNCHANGED <<tree, slot, memory, const, links, node, work>>
    BY <1>0 DEF demote_node
  <1>3. OnlyGoes(c) /\ pc'[c] = "forward" /\ \A d \in CPUs : Base(d)' = Base(d)
    BY <1>2 DEF IInv, Types, OnlyGoes, Waits, Base
  <1>4. /\ \A n \in Nodes : attr'[n] \subseteq attr[n] /\ (n # x => attr'[n] = attr[n])
        /\ attr'[x] = attr[x] \ rights[c]
    BY <1>1, <1>2 DEF IInv, Types
  <1>5. Types'
    BY <1>1, <1>2 DEF IInv, Types, Locations
  <1>6. Busy'
    BY <1>1, <1>2, <1>3, Parts DEF IInv, Busy, OnlyGoes, Waits
  <1>7. NewNodes'
    <2>1. \A n \in Nodes : Unlinked(n) => Unlinked(n)'
      BY <1>2, <1>4 DEF Unlinked
    <2> QED
      BY <1>2, <1>3, <2>1, Parts, KeepUnlinked
  <1>8. ParentsFirst' /\ Ordered' /\ SameObject' /\ Bounded'
    BY <1>2 DEF IInv, ParentsFirst, Ordered, Placed, Above, alive, SameObject, Bounded, Children
  <1>9. (\A n \in Nodes : alive(n)' <=> alive(n)) /\ (\A a, n : Above(a, n)' <=> Above(a, n))
    BY <1>2 DEF alive, Above
  <1>10. \A d \in CPUs, n \in Nodes : d # c => (Ahead(d, n)' <=> Ahead(d, n))
    BY <1>2, <1>3 DEF Ahead, OnlyGoes, Waits
  <1>11. ASSUME NEW n \in Nodes, n # x, Ahead(c, n) PROVE Ahead(c, n)'
    <2>1. AheadIn(next, dpth, depth[c], FirstIn(next, dpth, depth[c], "demote", x), n)
      BY <1>0, <1>1, <1>11 DEF Ahead
    <2>2. AheadIn(next, dpth, depth[c], FirstIn(next, dpth, depth[c], "forward", x), n)
      BY <1>1, <1>11, <2>1, AheadLeave
    <2> QED
      BY <1>0, <1>2, <1>3, <2>2 DEF Ahead
  <1>12. Shrinking'
    <2> SUFFICES ASSUME NEW n \in Nodes, alive(n), prnt[n] # NoNode, NEW r \in attr'[n], r \notin attr'[prnt[n]]
                 PROVE  \E d \in Revokers : pc'[d] \in Walking /\ demote'[d] /\ r \in rights'[d] /\ Ahead(d, n)'
      BY <1>2, <1>9 DEF Shrinking
    <2>1. r \in attr[n] /\ prnt[n] \in Nodes /\ dpth[n] = dpth[prnt[n]] + 1 /\ dpth[prnt[n]] \in Nat /\ dpth[n] \in Nat
      BY <1>4 DEF IInv, Types, MaybeNode, ParentsFirst
    <2>2. CASE r \in attr[prnt[n]]
      <3>1. prnt[n] = x /\ r \in rights[c]
        BY <1>4, <2>1, <2>2
      <3>2. n # x
        BY <2>1, <3>1
      <3>3. Above(x, n)
        BY <3>1, ParentAbove DEF Above
      <3>4. AheadIn(next, dpth, depth[c], FirstIn(next, dpth, depth[c], "forward", x), n)
        BY <1>1, <3>2, <3>3, BelowAhead DEF IInv
      <3>5. Ahead(c, n)'
        BY <1>0, <1>2, <1>3, <3>4 DEF Ahead
      <3>6. pc'[c] \in Walking /\ demote'[c] /\ r \in rights'[c]
        BY <1>1, <1>2, <1>3, <3>1, Parts
      <3> QED
        BY <1>1, <3>5, <3>6
    <2>3. CASE r \notin attr[prnt[n]]
      <3>1. PICK d \in Revokers : pc[d] \in Walking /\ demote[d] /\ r \in rights[d] /\ Ahead(d, n)
        BY <2>1, <2>3 DEF IInv, Shrinking
      <3>2. d \in CPUs
        BY DEF CPUs
      <3>3. CASE d = c
        <4>1. n # x
          BY <1>4, <3>1, <3>3
        <4>2. pc'[c] \in Walking /\ demote'[c] /\ r \in rights'[c]
          BY <1>1, <1>2, <1>3, <3>1, <3>3, Parts
        <4> QED
          BY <1>1, <1>11, <3>1, <3>3, <4>1, <4>2
      <3>4. CASE d # c
        BY <1>3, <1>10, <3>1, <3>2, <3>4 DEF OnlyGoes, Waits
      <3> QED
        BY <3>3, <3>4
    <2> QED
      BY <2>2, <2>3
  <1>13. Revocations'
    <2> SUFFICES ASSUME NEW d \in CPUs, pc'[d] \in Revoking, ~ HalfInserted(d)'
                 PROVE  Sweeping(d)'
      BY DEF Revocations
    <2>1. pc[d] \in Revoking
      BY <1>1, <1>3, Parts DEF OnlyGoes, Waits
    <2>2. Sweeping(d) /\ node[d] \in Nodes /\ mdb[d] \in Nodes /\ next[node[d]] \in Nodes
      BY <1>2, <2>1, Parts DEF IInv, Revocations, HalfInserted, Busy, Types
    <2>3. ASSUME NEW w, Swept(d, w) PROVE Swept(d, w)'
      <3> SUFFICES ASSUME NEW n \in Nodes, alive(n), Above(w, n), attr'[n] \cap rights[d] # {}
                   PROVE  pc'[d] \in Walking /\ Ahead(d, n)'
        BY <1>2, <1>9 DEF Swept
      <3>1. attr[n] \cap rights[d] # {}
        BY <1>4
      <3>2. pc[d] \in Walking /\ Ahead(d, n)
        BY <2>3, <3>1 DEF Swept
      <3>3. CASE d = c
        BY <1>3, <1>4, <1>11, <3>2, <3>3, Parts
      <3>4. CASE d # c
        BY <1>3, <1>10, <3>2, <3>4 DEF OnlyGoes, Waits
      <3> QED
        BY <3>3, <3>4
    <2>4. attr'[node[d]] \subseteq attr[node[d]] /\ attr'[next[node[d]]] \subseteq attr[next[node[d]]]
      BY <1>4, <2>2
    <2>5. self[d] => Swept(d, mdb[d])'
      <3>1. PICK m : m = mdb[d]
        OBVIOUS
      <3>2. self[d] => Swept(d, m)'
        BY <2>2, <2>3, <3>1 DEF Sweeping
      <3> QED
        BY <1>2, <3>1, <3>2
    <2>6. CASE d = c
      <3>1. attr'[node[d]] \cap rights[d] = {}
        BY <1>0, <1>4, <2>6
      <3> QED
        BY <1>1, <1>2, <1>3, <1>9, <2>2, <2>3, <2>5, <2>6, <3>1, Parts DEF Sweeping
    <2>7. CASE d # c
      <3>1. pc'[d] = pc[d]
        BY <1>3, <2>7 DEF OnlyGoes, Waits
      <3>2. \A s : attr[node[d]] \cap s = {} => attr'[node[d]] \cap s = {}
        BY <2>4
      <3>3. \A s : attr[next[node[d]]] \cap s = {} => attr'[next[node[d]]] \cap s = {}
        BY <2>4
      <3> QED
        BY <1>2, <1>3, <1>9, <2>2, <2>3, <2>5, <3>1, <3>2, <3>3 DEF Sweeping
    <2> QED
      BY <2>6, <2>7
  <1> QED
    BY <1>5, <1>6, <1>7, <1>8, <1>12, <1>13 DEF IInv

\* The walk goes down one level at a time.
LEMMA NextDepth ==
    ASSUME Types, ParentsFirst, NEW x \in Nodes
    PROVE  dpth[next[x]] <= dpth[x] + 1
  <1>1. Depths(prnt, dpth)
    BY HaveDepths
  <1>2. next[x] \in Nodes /\ dpth[x] \in Nat /\ dpth[next[x]] \in Nat
    BY DEF Types
  <1>3. CASE prnt[next[x]] = NoNode
    BY <1>1, <1>2, <1>3 DEF Depths
  <1>4. CASE prnt[next[x]] # NoNode
    <2>1. /\ prnt[next[x]] \in Nodes /\ dpth[next[x]] = dpth[prnt[next[x]]] + 1 /\ dpth[prnt[next[x]]] \in Nat
          /\ Above(prnt[next[x]], x)
      BY <1>1, <1>2, <1>4 DEF Depths, ParentsFirst
    <2>2. dpth[prnt[next[x]]] <= dpth[x]
      BY <1>1, <2>1, AboveIsHigher DEF Above
    <2> QED
      BY <1>2, <2>1, <2>2
  <1> QED
    BY <1>3, <1>4

\* A node is linked behind its parent.  A walk that has dealt with the parent has
\* left it no rights to pass on.
LEMMA InsertStep ==
    ASSUME IInv, NEW c \in CPUs, insert_node(c), alive(mdb[c]), attr'[node[c]] # {}
    PROVE  IInv'
  <1> USE DEF Goto, links, const, memory, work
  <1>0. PICK k, p, z : k = node[c] /\ p = mdb[c] /\ z = next[p]
    OBVIOUS
  <1>1. /\ pc[c] = "insert_node" /\ k \in Nodes /\ p \in Nodes /\ z \in Nodes /\ p # k /\ z # k
        /\ Unlinked(k) /\ k \notin fresh /\ phys[k] = phys[p] /\ alive(p) /\ prev[z] = p
        /\ dpth[p] \in Nat /\ dpth[k] = 0 /\ dpth[z] \in Nat
    BY <1>0, Parts DEF insert_node, IInv, Busy, NewNodes, Types, Unlinked, alive
  <1>2. /\ attr' = [attr EXCEPT ![k] = attr[p] \cap rights[c]]
        /\ prnt' = [prnt EXCEPT ![k] = p] /\ prev' = [prev EXCEPT ![k] = p, ![z] = k]
        /\ next' = [next EXCEPT ![k] = z, ![p] = k] /\ dpth' = [dpth EXCEPT ![k] = dpth[p] + 1]
        /\ pc' = [pc EXCEPT ![c] = "update"]
        /\ UNCHANGED <<tree, slot, memory, const, node, work>>
    BY <1>0 DEF insert_node
  <1>3. OnlyGoes(c) /\ pc'[c] = "update"
    BY <1>2 DEF IInv, Types, OnlyGoes, Waits
  <1>4. /\ \A n \in Nodes : n # k => attr'[n] = attr[n] /\ prnt'[n] = prnt[n] /\ dpth'[n] = dpth[n]
        /\ \A n \in Nodes : n # k /\ n # p => next'[n] = next[n] /\ next[n] # k /\ next[n] \in Nodes
        /\ \A n \in Nodes : n # k /\ n # z => prev'[n] = prev[n] /\ prev[n] # k /\ prev[n] \in Nodes
        /\ attr'[k] = attr[p] \cap rights[c] /\ prnt'[k] = p /\ dpth'[k] = dpth[p] + 1
        /\ next'[k] = z /\ next'[p] = k /\ prev'[k] = p /\ prev'[z] = k
    BY <1>1, <1>2 DEF IInv, Types, Unlinked
  <1>5. Types'
    BY <1>1, <1>2, SMTT(60) DEF IInv, Types, Locations, MaybeNode
  <1>6. \A n \in Nodes : dpth[n] <= dpth'[n]
    <2>1. \A n \in Nodes : dpth[n] \in Nat
      BY DEF IInv, Types
    <2>2. 0 <= dpth[p] + 1
      BY <1>1
    <2> QED
      BY <1>1, <1>4, <2>1, <2>2
  <1>7. alive(z)
    BY <1>0, <1>1 DEF IInv, ParentsFirst
  <1>8. \A n \in Nodes : alive(n)' <=> alive(n)
    <2>1. alive(k) /\ alive(k)'
      BY <1>1, <1>4 DEF alive, Unlinked
    <2>2. alive(z)'
      <3>1. CASE z = p
        BY <1>1, <1>4, <3>1 DEF alive
      <3>2. CASE z # p
        <4>1. next'[z] = next[z] /\ next[z] # k /\ next[z] \in Nodes /\ prev[next[z]] = z
          BY <1>1, <1>4, <1>7, <3>2 DEF alive
        <4>2. next[z] # z
          BY <1>1, <3>2, <4>1
        <4> QED
          BY <1>1, <1>4, <4>1, <4>2 DEF alive
      <3> QED
        BY <3>1, <3>2
    <2>3. alive(p)'
      <3>1. CASE z = p
        BY <2>2, <3>1
      <3>2. CASE z # p
        <4>1. prev'[p] = prev[p] /\ prev[p] # k /\ prev[p] \in Nodes /\ next[prev[p]] = p
          BY <1>1, <1>4, <3>2 DEF alive
        <4>2. prev[p] # p
          BY <1>0, <3>2, <4>1
        <4> QED
          BY <1>1, <1>4, <4>1, <4>2 DEF alive
      <3> QED
        BY <3>1, <3>2
    <2>4. ASSUME NEW n \in Nodes, n # k, n # p, n # z PROVE alive(n)' <=> alive(n)
      <3>1. /\ prev'[n] = prev[n] /\ prev[n] # k /\ prev[n] \in Nodes
            /\ next'[n] = next[n] /\ next[n] # k /\ next[n] \in Nodes
        BY <1>4, <2>4
      <3>2. next'[prev[n]] = n <=> next[prev[n]] = n
        BY <1>0, <1>4, <2>4, <3>1
      <3>3. prev'[next[n]] = n <=> prev[next[n]] = n
        BY <1>1, <1>4, <2>4, <3>1
      <3> QED
        BY <3>1, <3>2, <3>3 DEF alive
    <2> QED
      BY <1>1, <1>7, <2>1, <2>2, <2>3, <2>4
  <1>9. ASSUME NEW a, NEW x \in Nodes
        PROVE  /\ Above(a, x) => AboveIn(prnt', a, x)
               /\ AboveIn(prnt', a, x) /\ x # k => Above(a, x)
               /\ AboveIn(prnt', a, k) /\ a # k => Above(a, p)
               /\ Above(k, x) => x = k
               /\ Above(a, k) => a = k
    <2>1. prnt \in [Nodes -> MaybeNode] /\ prnt[k] = NoNode /\ \A m \in Nodes : prnt[m] # k
      BY <1>1 DEF IInv, Types, Unlinked
    <2>2. PICK Q : Q = prnt'
      OBVIOUS
    <2>3. Q[k] = p /\ \A m \in Nodes : m # k => Q[m] = prnt[m]
      BY <1>4, <2>2
    <2>4. /\ AboveIn(prnt, a, x) => AboveIn(Q, a, x)
          /\ AboveIn(Q, a, x) /\ x # k => AboveIn(prnt, a, x)
          /\ AboveIn(Q, a, k) /\ a # k => AboveIn(prnt, a, p)
      <3>1. k \in Nodes /\ p \in Nodes /\ p # k
        BY <1>1
      <3> QED
        BY <2>1, <2>3, <3>1, AboveGrows
    <2>5. /\ AboveIn(prnt, k, x) => x = k
          /\ AboveIn(prnt, a, k) => a = k
      BY <1>1, <2>1, AboveAlone
    <2> QED
      BY <2>2, <2>4, <2>5 DEF Above
  <1>10. ASSUME NEW a, Above(a, p) PROVE AboveIn(prnt', a, k)
    <2>1. AboveIn(prnt', a, p)
      BY <1>1, <1>9, <1>10
    <2>2. AboveIn(prnt', p, k)
      BY <1>1, <1>4, ParentAbove, MdbAssumption
    <2> QED
      BY <1>1, <2>1, <2>2, AboveAbove
  <1>11. Busy'
    <2>1. \A d \in CPUs : d # c => pc'[d] = pc[d] /\ node'[d] = node[d] /\ mdb'[d] = mdb[d] /\ depth'[d] = depth[d] /\ demote'[d] = demote[d]
      BY <1>3 DEF OnlyGoes, Waits
    <2>2. ASSUME NEW d \in CPUs, pc[d] \in Revoking PROVE depth[d] <= dpth'[mdb[d]]
      <3>1. mdb[d] \in Nodes /\ depth[d] <= dpth[mdb[d]]
        BY <2>2 DEF IInv, Busy
      <3>2. depth[d] \in Nat /\ dpth[mdb[d]] \in Nat /\ dpth'[mdb[d]] \in Nat
        BY <1>5, <3>1 DEF IInv, Types
      <3> QED
        BY <1>6, <3>1, <3>2
    <2>3. ASSUME NEW d \in CPUs, pc[d] \in Walking PROVE depth[d] <= dpth'[node[d]]
      <3>1. node[d] \in Nodes /\ depth[d] <= dpth[node[d]]
        BY <2>3, Parts DEF IInv, Busy
      <3>2. depth[d] \in Nat /\ dpth[node[d]] \in Nat /\ dpth'[node[d]] \in Nat
        BY <1>5, <3>1 DEF IInv, Types
      <3> QED
        BY <1>6, <3>1, <3>2
    <2> QED
      BY <1>1, <1>2, <1>3, <2>1, <2>2, <2>3, Parts DEF IInv, Busy
  <1>12. NewNodes'
    <2>1. ASSUME NEW n \in Nodes, Unlinked(n), n # k PROVE Unlinked(n)'
      <3>1. n # p
        BY <1>0, <1>4, <2>1 DEF Unlinked
      <3>2. n # z
        BY <1>0, <1>1, <2>1, <3>1 DEF Unlinked
      <3>3. \A m \in Nodes : next'[m] = n <=> m = n
        BY <1>0, <1>1, <1>4, <2>1, <3>1, <3>2 DEF Unlinked
      <3>4. \A m \in Nodes : prev'[m] = n <=> m = n
        BY <1>0, <1>1, <1>4, <2>1, <3>1, <3>2 DEF Unlinked
      <3> QED
        BY <1>1, <1>4, <2>1, <3>1, <3>3, <3>4 DEF Unlinked
    <2> QED
      BY <1>0, <1>1, <1>2, <1>3, <2>1, Parts, KeepUnlinked
  <1>13. ParentsFirst'
    <2>1. ASSUME NEW n \in Nodes, n # k
          PROVE  /\ prnt'[n] = NoNode => dpth'[n] = 0
                 /\ prnt'[n] # NoNode => dpth'[n] = dpth'[prnt'[n]] + 1 /\ (alive(n) => alive(prnt[n]))
      <3>1. prnt'[n] = prnt[n] /\ dpth'[n] = dpth[n] /\ prnt[n] # k /\ (prnt[n] # NoNode => prnt[n] \in Nodes)
        BY <1>1, <1>4, <2>1 DEF Unlinked, IInv, Types, MaybeNode
      <3> QED
        BY <1>4, <3>1 DEF IInv, ParentsFirst
    <2>2. prnt[z] # NoNode => Above(prnt[z], p)
      BY <1>0, <1>1 DEF IInv, ParentsFirst
    <2>3. ASSUME NEW n \in Nodes, prnt'[next'[n]] # NoNode PROVE AboveIn(prnt', prnt'[next'[n]], n)
      <3>1. CASE n = k
        BY <1>1, <1>4, <1>10, <2>2, <2>3, <3>1
      <3>2. CASE n = p
        BY <1>1, <1>4, <3>2, AboveItself
      <3>3. CASE n # k /\ n # p
        <4>1. next'[n] = next[n] /\ prnt'[next[n]] = prnt[next[n]]
          BY <1>4, <3>3
        <4>2. Above(prnt[next[n]], n)
          BY <2>3, <4>1 DEF IInv, ParentsFirst
        <4> QED
          BY <1>9, <4>1, <4>2
      <3> QED
        BY <3>1, <3>2, <3>3
    <2>4. ASSUME NEW n \in Nodes, prnt'[n] # NoNode PROVE AboveIn(prnt', prnt'[n], prev'[n])
      <3>1. CASE n = k
        BY <1>1, <1>4, <3>1, AboveItself
      <3>2. CASE n = z
        BY <1>1, <1>4, <1>10, <2>2, <2>4, <3>2
      <3>3. CASE n # k /\ n # z
        <4>1. prev'[n] = prev[n] /\ prev[n] \in Nodes /\ prnt'[n] = prnt[n]
          BY <1>4, <3>3
        <4>2. Above(prnt[n], prev[n])
          BY <2>4, <4>1 DEF IInv, ParentsFirst
        <4> QED
          BY <1>9, <4>1, <4>2
      <3> QED
        BY <3>1, <3>2, <3>3
    <2>5. ASSUME NEW n \in Nodes, alive(n) PROVE alive(next'[n]) /\ alive(prev'[n]) /\ next'[n] \in Nodes /\ prev'[n] \in Nodes
      <3>1. alive(k)
        BY <1>1 DEF Unlinked, alive
      <3>2. alive(next'[n]) /\ next'[n] \in Nodes
        BY <1>1, <1>4, <1>7, <2>5, <3>1 DEF IInv, ParentsFirst
      <3>3. alive(prev'[n]) /\ prev'[n] \in Nodes
        BY <1>1, <1>4, <1>7, <2>5, <3>1 DEF IInv, ParentsFirst
      <3> QED
        BY <3>2, <3>3
    <2>6. ASSUME NEW n \in Nodes, alive(n), prnt'[n] # NoNode PROVE prnt'[n] \in Nodes /\ alive(prnt'[n])
      BY <1>1, <1>4, <2>1, <2>6 DEF IInv, Types, MaybeNode
    <2>7. ASSUME NEW n \in Nodes
          PROVE  /\ alive(n)' => alive(next[n])' /\ alive(prev[n])'
                 /\ alive(n)' /\ prnt'[n] # NoNode => alive(prnt[n])'
      <3>1. \A m \in Nodes : alive(m) => next'[prev'[m]] = m /\ prev'[next'[m]] = m
        BY <1>8 DEF alive
      <3> QED
        BY <1>8, <2>5, <2>6, <3>1 DEF alive
    <2>8. dpth'[k] = dpth'[prnt'[k]] + 1 /\ prnt'[k] # NoNode
      BY <1>1, <1>4, MdbAssumption
    <2> QED
      BY <2>1, <2>3, <2>4, <2>7, <2>8 DEF ParentsFirst, Above
  <1>14. SameObject'
    <2>1. phys[z] = phys[p]
      BY <1>0, <1>1 DEF IInv, SameObject
    <2>2. ASSUME NEW n \in Nodes PROVE phys[next'[n]] = phys[n]
      BY <1>1, <1>4, <2>1 DEF IInv, SameObject
    <2> QED
      BY <1>2, <2>2 DEF SameObject
  <1>15. Ordered'
    <2>1. PICK pos : Placed(pos)
      BY DEF IInv, Ordered
    <2>2. pos \in [Nodes -> Nat] /\ \A n \in Nodes : alive(n) /\ prnt[n] # NoNode => pos[prev[n]] < pos[n]
      BY <2>1 DEF Placed
    <2> DEFINE new == [n \in Nodes |-> IF n = k THEN pos[p] + 1 ELSE IF pos[n] > pos[p] THEN pos[n] + 1 ELSE pos[n]]
    <2>3. new \in [Nodes -> Nat]
      BY <1>1, <2>2
    <2>4. ASSUME NEW n \in Nodes, alive(n), prnt'[n] # NoNode PROVE new[prev'[n]] < new[n]
      <3>1. CASE n = k
        <4>1. prev'[n] = p /\ new[p] = pos[p] /\ new[n] = pos[p] + 1 /\ pos[p] \in Nat
          BY <1>1, <1>4, <2>2, <3>1
        <4> QED
          BY <4>1
      <3>2. CASE n = z
        <4>1. pos[p] < pos[z] /\ pos[p] \in Nat /\ pos[z] \in Nat
          BY <1>1, <1>4, <2>2, <2>4, <3>2
        <4>2. prev'[n] = k /\ new[k] = pos[p] + 1 /\ new[n] = pos[z] + 1
          BY <1>1, <1>4, <3>2, <4>1
        <4> QED
          BY <4>1, <4>2
      <3>3. CASE n # k /\ n # z
        <4>1. prev'[n] = prev[n] /\ prev[n] # k /\ prev[n] \in Nodes /\ prnt[n] # NoNode
          BY <1>4, <2>4, <3>3
        <4>2. pos[prev[n]] < pos[n] /\ pos[prev[n]] \in Nat /\ pos[n] \in Nat /\ pos[p] \in Nat
          BY <1>1, <2>2, <2>4, <4>1
        <4> QED
          BY <3>3, <4>1, <4>2
      <3> QED
        BY <3>1, <3>2, <3>3
    <2> HIDE DEF new
    <2>5. Placed(new)'
      BY <1>8, <2>3, <2>4 DEF Placed
    <2> QED
      BY <2>5 DEF Ordered
  <1>16. Bounded'
    <2>1. Children' = Children \cup {k} /\ k \notin Children
      BY <1>1, <1>4, MdbAssumption DEF Children, Unlinked
    <2>2. IsFiniteSet(Children)
      BY MdbAssumption, FS_Subset DEF Children
    <2>3. PICK j : j = Cardinality(Children)
      OBVIOUS
    <2>4. Cardinality(Children)' = j + 1 /\ j \in Nat
      BY <2>1, <2>2, <2>3, FS_AddElement, FS_CardinalityType
    <2>5. ASSUME NEW n \in Nodes PROVE dpth'[n] <= j + 1
      <3>1. dpth[n] <= j /\ dpth[p] <= j /\ dpth[n] \in Nat
        BY <1>1, <2>3 DEF IInv, Bounded, Types
      <3>2. n = k => dpth'[n] = dpth[p] + 1
        BY <1>4
      <3>3. n # k => dpth'[n] = dpth[n]
        BY <1>4
      <3> QED
        BY <1>1, <2>4, <3>1, <3>2, <3>3
    <2>6. ASSUME NEW d \in CPUs PROVE depth'[d] <= j + 1
      <3>1. depth[d] <= j /\ depth[d] \in Nat /\ depth'[d] = depth[d]
        BY <1>2, <2>3 DEF IInv, Bounded, Types
      <3> QED
        BY <2>4, <3>1
    <2> QED
      BY <2>4, <2>5, <2>6 DEF Bounded
  <1>17. ASSUME NEW d \in CPUs, d # c, node[d] \in Nodes, NEW n, Ahead(d, n) PROVE Ahead(d, n)'
    <2>1. dpth[next[p]] <= dpth[p] + 1
      BY <1>1, NextDepth DEF IInv
    <2>2. next \in [Nodes -> Nodes] /\ dpth \in [Nodes -> Nat] /\ depth[d] \in Nat
      BY DEF IInv, Types
    <2>3. \A m \in Nodes : next[m] = k <=> m = k
      BY <1>1 DEF Unlinked
    <2>5. AheadIn(next, dpth, depth[d], FirstIn(next, dpth, depth[d], pc[d], node[d]), n)
      BY <1>17 DEF Ahead
    <2>6. AheadIn(next', dpth', depth[d], FirstIn(next', dpth', depth[d], pc[d], node[d]), n)
      <3>1. PICK ny, dq, D, l, x : ny = next' /\ dq = dpth' /\ D = depth[d] /\ l = pc[d] /\ x = node[d]
        OBVIOUS
      <3>2. /\ ny[k] = next[p] /\ ny[p] = k /\ \A m \in Nodes : m # k /\ m # p => ny[m] = next[m]
            /\ dq[k] = dpth[p] + 1 /\ \A m \in Nodes : m # k => dq[m] = dpth[m]
            /\ D \in Nat /\ x \in Nodes
        BY <1>0, <1>4, <1>17, <2>2, <3>1
      <3>3. AheadIn(next, dpth, D, FirstIn(next, dpth, D, l, x), n)
        BY <2>5, <3>1
      <3>4. AheadIn(ny, dq, D, FirstIn(ny, dq, D, l, x), n)
        <4>1. k \in Nodes /\ p \in Nodes /\ p # k /\ dpth[k] = 0
          BY <1>1
        <4>2. Spliced(next, dpth, k, p, ny, dq)
          BY <2>1, <2>2, <2>3, <3>2, <4>1 DEF Spliced
        <4> QED
          BY <3>2, <3>3, <4>2, AheadInsert
      <3> QED
        BY <3>1, <3>4
    <2> QED
      BY <1>3, <1>17, <2>6 DEF Ahead, OnlyGoes, Waits
  <1>18. Shrinking'
    <2> SUFFICES ASSUME NEW n \in Nodes, alive(n), prnt'[n] # NoNode, NEW r \in attr'[n], r \notin attr'[prnt'[n]]
                 PROVE  \E d \in Revokers : pc'[d] \in Walking /\ demote'[d] /\ r \in rights'[d] /\ Ahead(d, n)'
      BY <1>8 DEF Shrinking
    <2>1. n # k
      BY <1>1, <1>4
    <2>2. prnt'[n] = prnt[n] /\ prnt[n] # k /\ prnt[n] \in Nodes /\ r \in attr[n]
      BY <1>1, <1>4, <2>1 DEF Unlinked, IInv, Types, MaybeNode
    <2>3. PICK d \in Revokers : pc[d] \in Walking /\ demote[d] /\ r \in rights[d] /\ Ahead(d, n)
      BY <1>4, <2>2 DEF IInv, Shrinking
    <2>4. d \in CPUs /\ d # c /\ node[d] \in Nodes
      BY <1>1, <2>3, Parts DEF CPUs, IInv, Busy
    <2> QED
      BY <1>3, <1>17, <2>3, <2>4 DEF OnlyGoes, Waits
  <1>19. Revocations'
    <2> SUFFICES ASSUME NEW d \in CPUs, pc'[d] \in Revoking, ~ HalfInserted(d)'
                 PROVE  Sweeping(d)'
      BY DEF Revocations
    <2>1. /\ d # c /\ Waits(d) /\ pc[d] \in Revoking /\ node[d] \in Nodes /\ mdb[d] \in Nodes
          /\ depth[d] = dpth'[mdb[d]] /\ depth[d] <= dpth[mdb[d]] /\ depth[d] \in Nat
      BY <1>2, <1>3, Parts DEF OnlyGoes, Waits, IInv, Busy, HalfInserted, Types
    <2>2. mdb[d] # k
      BY <1>1, <1>4, <2>1
    <2>3. Sweeping(d) /\ depth[d] = dpth[mdb[d]]
      BY <1>4, <2>1, <2>2 DEF IInv, Revocations, HalfInserted
    <2>4. node[d] # k /\ dpth'[node[d]] = dpth[node[d]] /\ attr'[node[d]] = attr[node[d]]
      BY <1>4, <1>9, <2>1, <2>2, <2>3 DEF Sweeping
    <2>5. Base(d)' = Base(d) /\ Base(d) \in Nat /\ depth[d] <= Base(d)
      BY <2>1 DEF Base, Waits
    <2>6. ASSUME NEW w \in Nodes, w # k, depth[d] <= dpth[w], Swept(d, w) PROVE Swept(d, w)'
      <3> SUFFICES ASSUME NEW n \in Nodes, alive(n), AboveIn(prnt', w, n), attr'[n] \cap rights[d] # {}
                   PROVE  pc[d] \in Walking /\ Ahead(d, n)'
        BY <1>8, <2>1 DEF Swept, Above, Waits
      <3>1. CASE n # k
        <4>1. Above(w, n) /\ attr'[n] = attr[n]
          BY <1>4, <1>9, <3>1
        <4>2. pc[d] \in Walking /\ Ahead(d, n)
          BY <2>6, <4>1 DEF Swept
        <4> QED
          BY <1>17, <2>1, <4>2
      <3>2. CASE n = k
        <4>1. Above(w, p) /\ attr[p] \cap rights[d] # {}
          BY <1>1, <1>4, <1>9, <2>6, <3>2
        <4>2. pc[d] \in Walking /\ Ahead(d, p)
          BY <1>1, <2>6, <4>1 DEF Swept
        <4>3. Ahead(d, p)'
          BY <1>17, <2>1, <4>2
        <4>4. dpth[w] <= dpth[p]
          BY <1>1, <4>1, HaveDepths, AboveIsHigher DEF Above, IInv
        <4>5. dpth'[k] > depth[d]
          <5>1. dpth[w] \in Nat
            BY DEF IInv, Types
          <5> QED
            BY <1>1, <1>4, <2>1, <2>6, <4>4, <5>1
        <4>6. AheadIn(next', dpth', depth[d], FirstIn(next', dpth', depth[d], pc[d], node[d]), p)
          BY <2>1, <4>3 DEF Ahead, Waits
        <4>7. AheadIn(next', dpth', depth[d], FirstIn(next', dpth', depth[d], pc[d], node[d]), k)
          BY <1>4, <4>5, <4>6, AheadNext
        <4> QED
          BY <2>1, <3>2, <4>2, <4>7 DEF Ahead, Waits
      <3> QED
        BY <3>1, <3>2
    <2>7. self[d] => Swept(d, mdb[d])'
      <3>1. PICK m : m = mdb[d]
        OBVIOUS
      <3>2. depth[d] <= dpth[m]
        BY <2>1, <3>1
      <3>3. self[d] => Swept(d, m)'
        BY <2>1, <2>2, <2>3, <2>6, <3>1, <3>2 DEF Sweeping
      <3> QED
        BY <2>1, <3>1, <3>3 DEF Waits
    <2>8. ASSUME NEW w \in Nodes, pc[d] \in Walking \cup {"turn"}, ~ self[d], AboveIn(prnt', w, node[d]), dpth'[w] = Base(d)
          PROVE  Swept(d, w)'
      <3>1. Above(w, node[d]) /\ w # k /\ dpth[w] = Base(d)
        BY <1>4, <1>9, <2>1, <2>4, <2>8
      <3> QED
        BY <2>3, <2>5, <2>6, <2>8, <3>1 DEF Sweeping
    <2>9. AboveIn(prnt', mdb[d], node[d])
      BY <1>9, <2>1, <2>3 DEF Sweeping
    <2>10. ASSUME pc[d] = "turn"
           PROVE  \/ dpth'[next'[node[d]]] <= Base(d) \/ dpth'[node[d]] < Base(d)
                  \/ attr'[next'[node[d]]] \cap rights[d] = {}
      <3>1. CASE node[d] = p
        <4>1. dpth[p] >= Base(d) => attr[p] \cap rights[d] = {}
          BY <2>3, <2>10, <3>1, Parts DEF Sweeping
        <4>2. dpth[p] >= Base(d) \/ dpth[p] < Base(d)
          BY <1>1, <2>5
        <4>3. attr[p] \cap rights[d] = {} => attr'[k] \cap rights[d] = {}
          BY <1>4
        <4> QED
          BY <1>4, <2>4, <3>1, <4>1, <4>2, <4>3
      <3>2. CASE node[d] # p
        <4>1. /\ next'[node[d]] = next[node[d]] /\ dpth'[next[node[d]]] = dpth[next[node[d]]]
              /\ attr'[next[node[d]]] = attr[next[node[d]]]
          BY <1>4, <2>1, <2>4, <3>2
        <4> QED
          BY <2>3, <2>4, <2>10, <4>1 DEF Sweeping
      <3> QED
        BY <3>1, <3>2
    <2> QED
      BY <2>1, <2>3, <2>4, <2>5, <2>7, <2>8, <2>9, <2>10, Parts DEF Sweeping, Above, Waits
  <1> QED
    BY <1>5, <1>11, <1>12, <1>13, <1>14, <1>15, <1>16, <1>18, <1>19 DEF IInv

\* A node without children is taken out of the list.
LEMMA UnlinkStep ==
    ASSUME IInv, NEW c \in CPUs, unlink(c), alive(node[c]), dpth[next[node[c]]] <= dpth[node[c]], next[node[c]] # node[c]
    PROVE  IInv'
  <1> USE DEF Goto, links, const, memory, work
  <1>0. PICK m, q, y : m = node[c] /\ q = prev[m] /\ y = next[m]
    OBVIOUS
  <1>1. /\ pc[c] = "unlink" /\ m \in Nodes /\ q \in Nodes /\ y \in Nodes /\ q # m /\ y # m
        /\ next[q] = m /\ prev[y] = m /\ prev[m] = q /\ next[m] = y /\ alive(m) /\ dpth[y] <= dpth[m]
    BY <1>0, Parts DEF unlink, IInv, Busy, Types, alive
  <1>2. /\ prev' = [prev EXCEPT ![y] = q] /\ next' = [next EXCEPT ![q] = y] /\ pc' = [pc EXCEPT ![c] = "tree_remove"]
        /\ UNCHANGED <<tree, slot, memory, const, prnt, dpth, attr, node, work>>
    BY <1>0 DEF unlink
  <1>3. OnlyGoes(c) /\ pc'[c] = "tree_remove" /\ \A d \in CPUs : Base(d)' = Base(d)
    BY <1>2 DEF IInv, Types, OnlyGoes, Waits, Base
  <1>4. /\ next'[q] = y /\ \A n \in Nodes : n # q => next'[n] = next[n] /\ next[n] \in Nodes
        /\ prev'[y] = q /\ \A n \in Nodes : n # y => prev'[n] = prev[n] /\ prev[n] \in Nodes
    BY <1>1, <1>2 DEF IInv, Types
  <1>5. Types'
    BY <1>1, <1>2 DEF IInv, Types, Locations
  <1>6. alive(q) /\ alive(y)
    BY <1>1 DEF IInv, ParentsFirst
  <1>7. \A n \in Nodes : alive(n)' <=> alive(n) /\ n # m
    <2>1. ~ alive(m)'
      BY <1>1, <1>4 DEF alive
    <2>2. alive(y)'
      <3>1. next'[y] = y \/ (next'[y] = next[y] /\ next[y] # y /\ next[y] \in Nodes)
        BY <1>1, <1>4, <1>6 DEF alive
      <3> QED
        BY <1>1, <1>4, <1>6, <3>1 DEF alive
    <2>3. alive(q)'
      <3>1. prev'[q] = q \/ (prev'[q] = prev[q] /\ prev[q] # q /\ prev[q] \in Nodes)
        BY <1>1, <1>4, <1>6 DEF alive
      <3> QED
        BY <1>1, <1>4, <1>6, <3>1 DEF alive
    <2>4. ASSUME NEW n \in Nodes, n # m, n # q, n # y PROVE alive(n)' <=> alive(n)
      <3>1. prev'[n] = prev[n] /\ prev[n] \in Nodes /\ next'[n] = next[n] /\ next[n] \in Nodes
        BY <1>4, <2>4
      <3>2. next'[prev[n]] = n <=> next[prev[n]] = n
        BY <1>1, <1>4, <2>4, <3>1
      <3>3. prev'[next[n]] = n <=> prev[next[n]] = n
        BY <1>1, <1>4, <2>4, <3>1
      <3> QED
        BY <3>1, <3>2, <3>3 DEF alive
    <2> QED
      BY <1>1, <1>6, <2>1, <2>2, <2>3, <2>4
  <1>9. Depths(prnt, dpth)
    BY HaveDepths DEF IInv
  <1>10. \A n \in Nodes : alive(n) => prnt[n] # m
    <2> SUFFICES ASSUME NEW n \in Nodes, alive(n), prnt[n] = m PROVE FALSE
      OBVIOUS
    <2>1. n # m /\ Above(m, n)
      <3>1. m # NoNode
        BY <1>1, MdbAssumption
      <3>2. dpth[n] = dpth[m] + 1 /\ dpth[m] \in Nat
        BY <1>1, <1>9, <3>1 DEF Depths
      <3> QED
        BY <3>1, <3>2, ParentAbove DEF Above
    <2>2. Onward(next, dpth, dpth[m], {}) /\ {} \in SUBSET Nodes
      BY DEF Onward
    <2>3. dpth[m] \in Nat /\ dpth[m] <= dpth[m] /\ ~ (dpth[next[m]] > dpth[m])
      BY <1>1, <1>9 DEF Depths
    <2>4. PICK d, S : d = dpth[m] /\ S = {}
      OBVIOUS
    <2>5. n \in S
      <3>1. Onward(next, dpth, d, S) /\ S \in SUBSET Nodes /\ d \in Nat /\ d <= dpth[m] /\ (dpth[next[m]] > d => next[m] \in S)
        BY <2>2, <2>3, <2>4
      <3> QED
        BY <1>1, <2>1, <3>1, BelowFollows DEF IInv
    <2> QED
      BY <2>4, <2>5
  <1>11. ASSUME prnt[y] # NoNode PROVE prnt[m] # NoNode /\ prnt[y] \in Nodes /\ Above(prnt[y], q) /\ dpth[y] = dpth[prnt[y]] + 1
    <2>1. Above(prnt[y], m) /\ prnt[y] \in Nodes /\ dpth[y] = dpth[prnt[y]] + 1
      BY <1>1, <1>9, <1>11 DEF IInv, ParentsFirst, Depths
    <2>2. prnt[y] # m
      <3>1. dpth[m] \in Nat
        BY <1>1, <1>9 DEF Depths
      <3> QED
        BY <1>1, <2>1, <3>1
    <2>3. prnt[m] # NoNode /\ Above(prnt[y], prnt[m])
      BY <1>1, <2>1, <2>2, AboveParent DEF Above
    <2>4. Above(prnt[m], q) /\ prnt[m] \in Nodes
      BY <1>1, <1>9, <2>3 DEF IInv, ParentsFirst, Depths
    <2> QED
      BY <2>1, <2>3, <2>4, AboveAbove DEF Above
  <1>12. Busy'
    BY <1>1, <1>2, <1>3, Parts DEF IInv, Busy, OnlyGoes, Waits
  <1>13. NewNodes'
    <2>1. ASSUME NEW n \in Nodes, Unlinked(n) PROVE Unlinked(n)'
      <3>1. n # m /\ n # q /\ n # y
        BY <1>1, <2>1 DEF Unlinked
      <3>2. \A k \in Nodes : next'[k] = n <=> k = n
        BY <1>1, <1>4, <2>1, <3>1 DEF Unlinked
      <3>3. \A k \in Nodes : prev'[k] = n <=> k = n
        BY <1>1, <1>4, <2>1, <3>1 DEF Unlinked
      <3> QED
        BY <1>2, <2>1, <3>2, <3>3 DEF Unlinked
    <2> QED
      BY <1>2, <1>3, <2>1, Parts, KeepUnlinked
  <1>14. ParentsFirst'
    <2>1. ASSUME NEW n \in Nodes, prnt[next'[n]] # NoNode PROVE Above(prnt[next'[n]], n)
      <3>1. CASE n = q
        BY <1>4, <1>11, <2>1, <3>1
      <3>2. CASE n # q
        BY <1>4, <2>1, <3>2 DEF IInv, ParentsFirst
      <3> QED
        BY <3>1, <3>2
    <2>2. ASSUME NEW n \in Nodes, prnt[n] # NoNode PROVE Above(prnt[n], prev'[n])
      <3>1. CASE n = y
        BY <1>4, <1>11, <2>2, <3>1
      <3>2. CASE n # y
        BY <1>4, <2>2, <3>2 DEF IInv, ParentsFirst
      <3> QED
        BY <3>1, <3>2
    <2>3. ASSUME NEW n \in Nodes, alive(n), n # m
          PROVE  /\ next'[n] \in Nodes /\ alive(next'[n]) /\ next'[n] # m
                 /\ prev'[n] \in Nodes /\ alive(prev'[n]) /\ prev'[n] # m
      <3>1. next'[n] \in Nodes /\ alive(next'[n]) /\ next'[n] # m
        <4>1. CASE n = q
          BY <1>1, <1>4, <1>6, <4>1
        <4>2. CASE n # q
          <5>1. next[n] # m
            BY <1>1, <2>3, <4>2 DEF alive
          <5> QED
            BY <1>4, <2>3, <4>2, <5>1 DEF IInv, ParentsFirst
        <4> QED
          BY <4>1, <4>2
      <3>2. prev'[n] \in Nodes /\ alive(prev'[n]) /\ prev'[n] # m
        <4>1. CASE n = y
          BY <1>1, <1>4, <1>6, <4>1
        <4>2. CASE n # y
          <5>1. prev[n] # m
            BY <1>1, <2>3, <4>2 DEF alive
          <5> QED
            BY <1>4, <2>3, <4>2, <5>1 DEF IInv, ParentsFirst
        <4> QED
          BY <4>1, <4>2
      <3> QED
        BY <3>1, <3>2
    <2>4. ASSUME NEW n \in Nodes
          PROVE  /\ alive(n)' => alive(next[n])' /\ alive(prev[n])'
                 /\ alive(n)' /\ prnt'[n] # NoNode => alive(prnt[n])'
      <3>1. \A k \in Nodes : alive(k) /\ k # m => next'[prev'[k]] = k /\ prev'[next'[k]] = k
        BY <1>7 DEF alive
      <3>2. alive(n) /\ prnt[n] # NoNode => prnt[n] \in Nodes /\ alive(prnt[n]) /\ prnt[n] # m
        BY <1>9, <1>10 DEF IInv, ParentsFirst, Depths
      <3>3. prnt'[n] = prnt[n]
        BY <1>2
      <3> QED
        BY <1>7, <2>3, <3>1, <3>2, <3>3 DEF alive
    <2>5. \A n \in Nodes : /\ prnt'[n] = NoNode => dpth'[n] = 0
                           /\ prnt'[n] # NoNode => dpth'[n] = dpth'[prnt'[n]] + 1
      BY <1>2 DEF IInv, ParentsFirst
    <2>6. prnt' = prnt
      BY <1>2
    <2> QED
      BY <2>1, <2>2, <2>4, <2>5, <2>6 DEF ParentsFirst, Above
  <1>15. SameObject'
    <2>1. phys[y] = phys[q]
      BY <1>1 DEF IInv, SameObject
    <2>2. ASSUME NEW n \in Nodes PROVE phys[next'[n]] = phys[n]
      BY <1>1, <1>4, <2>1 DEF IInv, SameObject
    <2> QED
      BY <1>2, <2>2 DEF SameObject
  <1>16. Ordered'
    <2>1. PICK pos : Placed(pos)
      BY DEF IInv, Ordered
    <2>2. pos \in [Nodes -> Nat] /\ \A n \in Nodes : alive(n) /\ prnt[n] # NoNode => pos[prev[n]] < pos[n]
      BY <2>1 DEF Placed
    <2>3. ASSUME NEW n \in Nodes, alive(n), prnt[n] # NoNode PROVE pos[prev'[n]] < pos[n]
      <3>1. CASE n = y
        <4>1. pos[m] < pos[y] /\ pos[q] < pos[m]
          BY <1>1, <1>11, <2>2, <2>3, <3>1
        <4>2. pos[m] \in Nat /\ pos[y] \in Nat /\ pos[q] \in Nat
          BY <1>1, <2>2
        <4>3. pos[q] < pos[y]
          BY <4>1, <4>2
        <4> QED
          BY <1>4, <3>1, <4>3
      <3>2. CASE n # y
        BY <1>4, <2>2, <2>3, <3>2
      <3> QED
        BY <3>1, <3>2
    <2>4. Placed(pos)'
      BY <1>2, <1>7, <2>2, <2>3 DEF Placed
    <2> QED
      BY <2>4 DEF Ordered
  <1>17. Bounded'
    BY <1>2 DEF IInv, Bounded, Children
  <1>18. ASSUME NEW d \in CPUs, pc[d] \in Walking, NEW n, n # m, Ahead(d, n) PROVE pc'[d] \in Walking /\ Ahead(d, n)'
    <2>1. d # c /\ node[d] \in Nodes
      BY <1>1, <1>18, Parts DEF IInv, Busy
    <2>2. PICK ny, D, l, x : ny = next' /\ D = depth[d] /\ l = pc[d] /\ x = node[d]
      OBVIOUS
    <2>3. AheadIn(next, dpth, D, FirstIn(next, dpth, D, l, x), n)
      BY <1>18, <2>2 DEF Ahead
    <2>4. ny[q] = next[m] /\ \A k \in Nodes : k # q => ny[k] = next[k]
      BY <1>1, <1>4, <2>2
    <2>5. next \in [Nodes -> Nodes] /\ x \in Nodes /\ m \in Nodes /\ q \in Nodes /\ next[q] = m /\ q # m
      BY <1>1, <2>1, <2>2 DEF IInv, Types
    <2>6. AheadIn(ny, dpth, D, FirstIn(ny, dpth, D, l, x), n)
      BY <1>18, <2>3, <2>4, <2>5, AheadUnlink
    <2> QED
      BY <1>2, <1>3, <1>18, <2>1, <2>2, <2>6 DEF Ahead, OnlyGoes, Waits
  <1>19. Shrinking'
    <2> SUFFICES ASSUME NEW n \in Nodes, alive(n), n # m, prnt[n] # NoNode, NEW r \in attr[n], r \notin attr[prnt[n]]
                 PROVE  \E d \in Revokers : pc'[d] \in Walking /\ demote'[d] /\ r \in rights'[d] /\ Ahead(d, n)'
      BY <1>2, <1>7 DEF Shrinking
    <2>1. PICK d \in Revokers : pc[d] \in Walking /\ demote[d] /\ r \in rights[d] /\ Ahead(d, n)
      BY DEF IInv, Shrinking
    <2>2. d \in CPUs
      BY DEF CPUs
    <2> QED
      BY <1>2, <1>18, <2>1, <2>2
  <1>20. Revocations'
    <2> SUFFICES ASSUME NEW d \in CPUs, pc'[d] \in Revoking, ~ HalfInserted(d)'
                 PROVE  Sweeping(d)'
      BY DEF Revocations
    <2>1. /\ pc[d] \in Revoking /\ node[d] \in Nodes /\ mdb[d] \in Nodes /\ depth[d] \in Nat
          /\ pc'[d] \in Walking \cup {"turn"} => pc'[d] = pc[d]
      BY <1>1, <1>3, Parts DEF OnlyGoes, Waits, IInv, Busy, Types
    <2>2. Sweeping(d) /\ depth[d] = dpth[mdb[d]] /\ Base(d) \in Nat
      BY <1>2, <2>1 DEF IInv, Revocations, HalfInserted, Base
    <2>3. ASSUME NEW w, Swept(d, w) PROVE Swept(d, w)'
      <3> SUFFICES ASSUME NEW n \in Nodes, alive(n), n # m, Above(w, n), attr[n] \cap rights[d] # {}
                   PROVE  pc'[d] \in Walking /\ Ahead(d, n)'
        BY <1>2, <1>7 DEF Swept, Above
      <3>1. pc[d] \in Walking /\ Ahead(d, n)
        BY <2>3 DEF Swept
      <3> QED
        BY <1>18, <3>1
    <2>4. self[d] => Swept(d, mdb[d])'
      <3>1. PICK k : k = mdb[d]
        OBVIOUS
      <3>2. self[d] => Swept(d, k)'
        BY <2>2, <2>3, <3>1 DEF Sweeping
      <3> QED
        BY <1>2, <3>1, <3>2
    <2>5. ASSUME pc[d] = "turn"
          PROVE  \/ dpth[next'[node[d]]] <= Base(d) \/ dpth[node[d]] < Base(d)
                 \/ attr[next'[node[d]]] \cap rights[d] = {}
      <3>1. CASE node[d] # q
        <4>1. next'[node[d]] = next[node[d]]
          BY <1>4, <2>1, <3>1
        <4> QED
          BY <2>2, <2>5, <4>1 DEF Sweeping
      <3>2. ASSUME node[d] = q, ~ (dpth[y] <= Base(d)), ~ (dpth[q] < Base(d)) PROVE attr[y] \cap rights[d] = {}
        <4>1. dpth[y] \in Nat /\ dpth[q] \in Nat /\ dpth[y] > Base(d) /\ dpth[q] >= Base(d)
          BY <1>1, <1>9, <2>2, <3>2 DEF Depths
        <4>2. prnt[y] # NoNode
          BY <1>1, <1>9, <2>2, <4>1 DEF Depths
        <4>3. prnt[y] \in Nodes /\ Above(prnt[y], q) /\ dpth[prnt[y]] >= Base(d)
          <5>1. prnt[y] \in Nodes /\ Above(prnt[y], q) /\ dpth[y] = dpth[prnt[y]] + 1
            BY <1>11, <4>2
          <5>2. dpth[prnt[y]] \in Nat
            BY <1>9, <5>1 DEF Depths
          <5> QED
            BY <2>2, <4>1, <5>1, <5>2
        <4>4. PICK w \in Nodes : Above(w, q) /\ dpth[w] = Base(d) /\ Swept(d, w)
          <5>1. CASE self[d]
            BY <2>1, <2>2, <3>2, <5>1 DEF Sweeping, Base
          <5>2. CASE ~ self[d]
            <6>1. PICK w \in Nodes : AboveIn(prnt, w, q) /\ dpth[w] = Base(d)
              BY <1>1, <1>9, <2>2, <4>1, AboveAtDepth
            <6>2. Swept(d, w)
              BY <2>2, <2>5, <3>2, <5>2, <6>1 DEF Sweeping, Above
            <6> QED
              BY <6>1, <6>2 DEF Above
          <5> QED
            BY <5>1, <5>2
        <4>5. Above(w, y)
          <5>1. dpth[w] <= dpth[prnt[y]]
            BY <2>2, <4>3, <4>4, <1>9 DEF Depths
          <5>2. Above(w, prnt[y])
            BY <1>1, <1>9, <4>3, <4>4, <5>1, AboveIsChain DEF Above
          <5> QED
            BY <1>1, <4>2, <4>3, <5>2, AboveAbove, ParentAbove DEF Above
        <4> QED
          BY <1>1, <1>6, <2>5, <4>4, <4>5, Parts DEF Swept
      <3> QED
        BY <1>4, <3>1, <3>2
    <2>6. prnt' = prnt /\ dpth' = dpth /\ attr' = attr /\ node' = node /\ mdb' = mdb /\ rights' = rights /\ self' = self /\ demote' = demote
      BY <1>2
    <2>7. \A w, n : AboveIn(prnt', w, n) <=> Above(w, n)
      BY <2>6 DEF Above
    <2> QED
      BY <1>3, <2>1, <2>2, <2>3, <2>4, <2>5, <2>6, <2>7, Parts DEF Sweeping, Above
  <1> QED
    BY <1>5, <1>12, <1>13, <1>14, <1>15, <1>16, <1>17, <1>19, <1>20 DEF IInv

-----------------------------------------------------------------------------
(* All actions together.                                                   *)

LEMMA InitHolds ==
    ASSUME Init
    PROVE  IInv
  <1> USE DEF Init
  <1>1. Types
    BY DEF Types, Null, MaybeNode, Locations
  <1>2. Busy /\ Revocations
    BY Parts DEF Busy, Revocations
  <1>3. NewNodes
    BY MdbAssumption, Parts DEF NewNodes, Unlinked, Secret
  <1>4. ParentsFirst /\ SameObject /\ Shrinking
    BY DEF ParentsFirst, SameObject, Shrinking, alive
  <1>5. Ordered
    <2>1. Placed([n \in Nodes |-> 0])
      BY DEF Placed
    <2> QED
      BY <2>1 DEF Ordered
  <1>6. Bounded
    <2>1. Children = {}
      BY DEF Children
    <2> QED
      BY <2>1, FS_EmptySet DEF Bounded
  <1> QED
    BY <1>1, <1>2, <1>3, <1>4, <1>5, <1>6 DEF IInv

LEMMA DelegateStep ==
    ASSUME IInv, NEW c \in CPUs, Delegate(c)
    PROVE  IInv'
  <1>1. CASE insert_root(c) \/ update(c)
    BY <1>1, InsertRootStep
  <1>2. CASE tree_insert(c)
    <2>1. CASE tree[space[node[c]]] = NoNode
      <3>1. /\ pc[c] = "tree_insert" /\ tree' = [tree EXCEPT ![space[node[c]]] = node[c]] /\ Goto(c, "insert_node")
            /\ UNCHANGED <<slot, memory, const, links, attr, node, work>>
        BY <1>2, <2>1 DEF tree_insert, memory
      <3> QED
        BY <3>1, TreeInsertStep
    <2>2. CASE tree[space[node[c]]] # NoNode
      <3>1. /\ pc[c] = "tree_insert" /\ Finish(c) /\ fresh' = fresh \cup {node[c]}
            /\ space' = [space EXCEPT ![node[c]] = NoPd] /\ phys' = [phys EXCEPT ![node[c]] = node[c]]
            /\ UNCHANGED <<tree, slot, deleted, retired, links, attr>>
        BY <1>2, <2>2 DEF tree_insert
      <3> QED
        BY <3>1, TreeInsertFails
    <2> QED
      BY <2>1, <2>2
  <1>3. CASE insert_node(c)
    BY <1>3, InsertStep, InsertFailsStep
  <1>4. CASE undo(c)
    BY <1>4, UndoStep
  <1> QED
    BY <1>1, <1>2, <1>3, <1>4 DEF Delegate

LEMMA RevokeStep ==
    ASSUME IInv, NEW c \in CPUs, Revoke(c)
    PROVE  IInv'
  <1> DEFINE Rest == UNCHANGED <<slot, fresh, deleted, const, links, attr, node, work>>
  <1>1. tree \in [PDs -> MaybeNode] /\ retired \subseteq Nodes
    BY DEF IInv, Types
  <1>2. CASE revoke_slot(c)
    BY <1>2, RevokeSlotStep
  <1>3. CASE demote_node(c)
    BY <1>3, DemoteStep
  <1>4. CASE forward(c)
    BY <1>4, ForwardStep, ForwardEnds
  <1>5. CASE turn(c)
    <2>1. pc[c] = "turn" /\ Goto(c, "remove") /\ UNCHANGED <<tree, retired>> /\ Rest
      BY <1>5 DEF turn, memory
    <2>2. "remove" \in Removing
      BY Parts
    <2> QED
      BY <1>1, <2>1, <2>2, RemovingStep
  <1>6. CASE remove_node(c)
    <2>1. PICK l : l = IF attr[node[c]] = {} THEN "unlink" ELSE "backward"
      OBVIOUS
    <2>2. pc[c] = "remove" /\ Goto(c, l) /\ UNCHANGED <<tree, retired>> /\ Rest
      BY <1>6, <2>1 DEF remove_node, memory
    <2>3. pc[c] \in Removing /\ l \in Removing
      BY <2>1, <2>2, Parts
    <2> QED
      BY <1>1, <2>2, <2>3, RemovingStep
  <1>7. CASE unlink(c)
    <2>1. pc[c] = "unlink" /\ pc[c] \in Removing /\ node[c] \in Nodes /\ "backward" \in Removing /\ "tree_remove" \in Removing
      BY <1>7, Parts DEF unlink, IInv, Busy
    <2>2. CASE alive(node[c]) /\ dpth[next[node[c]]] <= dpth[node[c]] /\ next[node[c]] # node[c]
      BY <1>7, <2>2, UnlinkStep
    <2>3. CASE alive(node[c]) /\ dpth[next[node[c]]] <= dpth[node[c]] /\ next[node[c]] = node[c]
      <3>1. prev' = prev /\ next' = next
        <4>1. PICK m : m = node[c]
          OBVIOUS
        <4>2. prev' = [prev EXCEPT ![m] = prev[m]] /\ next' = [next EXCEPT ![prev[m]] = m]
          BY <1>7, <2>3, <4>1 DEF unlink
        <4>3. m \in Nodes /\ prev[m] = m /\ next[m] = m
          BY <2>1, <2>3, <4>1 DEF alive
        <4> QED
          BY <4>2, <4>3 DEF IInv, Types
      <3>2. Goto(c, "tree_remove") /\ UNCHANGED <<tree, retired>> /\ Rest
        BY <1>7, <2>3, <3>1 DEF unlink, memory, links
      <3> QED
        BY <1>1, <2>1, <3>2, RemovingStep
    <2>4. CASE ~ (alive(node[c]) /\ dpth[next[node[c]]] <= dpth[node[c]])
      <3>1. Goto(c, "backward") /\ UNCHANGED <<tree, retired>> /\ Rest
        BY <1>7, <2>4 DEF unlink, memory, links
      <3> QED
        BY <1>1, <2>1, <3>1, RemovingStep
    <2> QED
      BY <2>2, <2>3, <2>4
  <1>8. CASE tree_remove(c)
    <2>1. pc[c] = "tree_remove" /\ pc[c] \in Removing /\ node[c] \in Nodes /\ "backward" \in Removing
      BY <1>8, Parts DEF tree_remove, IInv, Busy
    <2>2. Goto(c, "backward") /\ Rest /\ retired' \subseteq Nodes
      BY <1>1, <1>8, <2>1 DEF tree_remove
    <2>3. tree' \in [PDs -> MaybeNode] /\ \A p \in PDs : tree'[p] \in {tree[p], NoNode}
      BY <1>1, <1>8 DEF tree_remove, TreeRemove, MaybeNode
    <2> QED
      BY <2>1, <2>2, <2>3, RemovingStep
  <1>9. CASE backward(c)
    <2>1. CASE dpth[node[c]] <= depth[c]
      <3>1. pc[c] \notin Walking
        BY <1>9, Parts DEF backward
      <3>2. Finish(c) /\ UNCHANGED <<tree, slot, memory, const, links, attr>>
        BY <1>9, <2>1 DEF backward
      <3> QED
        BY <3>1, <3>2, FinishStep DEF IInv, Types, memory
    <2>2. CASE ~ (dpth[node[c]] <= depth[c])
      BY <1>9, <2>2, BackwardStep
    <2> QED
      BY <2>1, <2>2
  <1> QED
    BY <1>2, <1>3, <1>4, <1>5, <1>6, <1>7, <1>8, <1>9 DEF Revoke

LEMMA StutterStep ==
    ASSUME IInv, UNCHANGED vars
    PROVE  IInv'
  <1> USE DEF vars
  <1>1. Types' /\ Busy' /\ SameObject'
    BY DEF IInv, Types, Busy, SameObject
  <1>2. NewNodes'
    BY DEF IInv, NewNodes, Unlinked, Secret
  <1>3. ParentsFirst' /\ Ordered' /\ Bounded'
    BY DEF IInv, ParentsFirst, Ordered, Placed, Bounded, Children, Above, alive
  <1>4. Shrinking'
    BY DEF IInv, Shrinking, Ahead, alive
  <1>5. Revocations'
    BY DEF IInv, Revocations, HalfInserted, Sweeping, Swept, Base, Ahead, Above, alive
  <1> QED
    BY <1>1, <1>2, <1>3, <1>4, <1>5 DEF IInv

LEMMA StepKeeps ==
    ASSUME IInv, [Next]_vars
    PROVE  IInv'
  <1>1. Objects \subseteq Nodes /\ Derived \subseteq Nodes /\ Delegators \subseteq CPUs /\ Revokers \subseteq CPUs
    BY DEF Nodes, CPUs
  <1>2. ASSUME NEW c \in Delegators, NEW n \in Objects, NEW p \in PDs, create(c, n, p) PROVE IInv'
    BY <1>1, <1>2, CreateStep
  <1>3. ASSUME NEW c \in Delegators, NEW n \in Derived, NEW p \in PDs, NEW q \in PDs, NEW r \in SomeRights,
               delegate(c, n, p, q, r)
        PROVE  IInv'
    BY <1>1, <1>3, DelegateStart
  <1>4. ASSUME NEW c \in Delegators, Delegate(c) PROVE IInv'
    BY <1>1, <1>4, DelegateStep
  <1>5. ASSUME NEW c \in Revokers, NEW p \in PDs, NEW r \in SomeRights, NEW s \in BOOLEAN, revoke(c, p, r, s) PROVE IInv'
    BY <1>5, RevokeStart
  <1>6. ASSUME NEW c \in Revokers, Revoke(c) PROVE IInv'
    BY <1>1, <1>6, RevokeStep
  <1>7. CASE UNCHANGED vars
    BY <1>7, StutterStep
  <1> QED
    BY <1>2, <1>3, <1>4, <1>5, <1>6, <1>7 DEF Next

LEMMA Always == Spec => []IInv
  <1>1. Init => IInv
    BY InitHolds
  <1>2. IInv /\ [Next]_vars => IInv'
    BY StepKeeps
  <1> QED
    BY <1>1, <1>2, PTL DEF Spec

-----------------------------------------------------------------------------
(* What the invariant says.                                                *)

LEMMA InvTree ==
    ASSUME IInv
    PROVE  TreeSound
  <1>1. TypeOK
    <2>1. IsFiniteSet(Children) /\ Cardinality(Children) <= Cardinality(Nodes)
      BY MdbAssumption, FS_Subset DEF Children
    <2>2. Cardinality(Children) \in Nat /\ Cardinality(Nodes) \in Nat
      BY <2>1, MdbAssumption, FS_CardinalityType
    <2>3. \A n \in Nodes : dpth[n] \in 0..Cardinality(Nodes)
      <3> SUFFICES ASSUME NEW n \in Nodes PROVE dpth[n] \in 0..Cardinality(Nodes)
        OBVIOUS
      <3>1. dpth[n] \in Nat /\ dpth[n] <= Cardinality(Children)
        BY DEF IInv, Types, Bounded
      <3> QED
        BY <2>1, <2>2, <3>1
    <2>4. \A c \in CPUs : depth[c] \in 0..Cardinality(Nodes)
      <3> SUFFICES ASSUME NEW c \in CPUs PROVE depth[c] \in 0..Cardinality(Nodes)
        OBVIOUS
      <3>1. depth[c] \in Nat /\ depth[c] <= Cardinality(Children)
        BY DEF IInv, Types, Bounded
      <3> QED
        BY <2>1, <2>2, <3>1
    <2> QED
      BY <2>3, <2>4 DEF IInv, Types, TypeOK
  <1>2. DepthFirst
    BY NextDepth DEF DepthFirst, IInv, ParentsFirst
  <1>3. RightsShrink
    <2>1. ASSUME \A c \in Revokers : pc[c] = "idle", NEW n \in Nodes, prnt[n] # NoNode, alive(n)
          PROVE  attr[n] \subseteq attr[prnt[n]]
      BY <2>1, Parts DEF IInv, Shrinking
    <2> QED
      BY <2>1 DEF RightsShrink
  <1> QED
    BY <1>1, <1>2, <1>3 DEF TreeSound

\* The recursive function in Subtree, up to number j.
Grown(m, j, f) ==
    f = [k \in 0..j |-> IF k = 0 THEN {m} ELSE f[k - 1] \cup {n \in Nodes : prnt[n] \in f[k - 1]}]

LEMMA SubtreeUnfolds ==
    ASSUME NEW m
    PROVE  \E f : Grown(m, Cardinality(Nodes), f) /\ Subtree(m) = f[Cardinality(Nodes)]
  <1>0. PICK C : C = Cardinality(Nodes)
    OBVIOUS
  <1>1. C \in Nat
    BY <1>0, MdbAssumption, FS_CardinalityType
  <1> DEFINE Bad == {j \in 0..C : ~ \E f : Grown(m, j, f)}
  <1>2. Bad = {}
    <2> SUFFICES ASSUME Bad # {} PROVE FALSE
      OBVIOUS
    <2>1. PICK j \in Bad : \A i \in Bad : j <= i
      BY <1>1, Smallest, Bad \subseteq Nat
    <2>2. j # 0
      <3>1. Grown(m, 0, [k \in 0..0 |-> {m}])
        BY DEF Grown
      <3> QED
        BY <3>1
    <2>3. j \in 0..C /\ j - 1 \in 0..C /\ ~ (j <= j - 1)
      BY <1>1, <2>2
    <2>4. j - 1 \notin Bad
      <3> HIDE DEF Bad
      <3> QED
        BY <2>1, <2>3
    <2>5. PICK f : Grown(m, j - 1, f)
      BY <2>3, <2>4
    <2> DEFINE g == [k \in 0..j |-> IF k = j THEN f[k - 1] \cup {n \in Nodes : prnt[n] \in f[k - 1]} ELSE f[k]]
    <2>6. g = [k \in 0..j |-> IF k = 0 THEN {m} ELSE g[k - 1] \cup {n \in Nodes : prnt[n] \in g[k - 1]}]
      <3> SUFFICES ASSUME NEW k \in 0..j
                   PROVE  g[k] = IF k = 0 THEN {m} ELSE g[k - 1] \cup {n \in Nodes : prnt[n] \in g[k - 1]}
        OBVIOUS
      <3>1. CASE k = j
        <4>1. k # 0 /\ k - 1 \in 0..j /\ k - 1 # j
          BY <2>2, <2>3, <3>1
        <4> QED
          BY <3>1, <4>1
      <3>2. CASE k # j
        <4>1. k \in 0..(j - 1)
          BY <2>3, <3>2
        <4>2. f[k] = IF k = 0 THEN {m} ELSE f[k - 1] \cup {n \in Nodes : prnt[n] \in f[k - 1]}
          BY <2>5, <4>1 DEF Grown
        <4>3. k # 0 => k - 1 \in 0..j /\ k - 1 # j
          BY <2>3, <4>1
        <4>4. g[k] = f[k] /\ (k # 0 => g[k - 1] = f[k - 1])
          BY <3>2, <4>3
        <4> HIDE DEF g
        <4> QED
          BY <4>2, <4>4
      <3> QED
        BY <3>1, <3>2
    <2> HIDE DEF g
    <2>7. Grown(m, j, g)
      BY <2>6 DEF Grown
    <2> QED
      BY <2>1, <2>7
  <1>3. \E f : Grown(m, C, f)
    <2>1. C \in 0..C /\ C \notin Bad
      BY <1>1, <1>2
    <2> QED
      BY <2>1
  <1> HIDE DEF Bad
  <1> DEFINE Rec(below) ==
        below = [k \in 0..Cardinality(Nodes) |->
                    IF k = 0 THEN {m} ELSE below[k - 1] \cup {n \in Nodes : prnt[n] \in below[k - 1]}]
  <1>4. ASSUME NEW f PROVE Rec(f) <=> Grown(m, C, f)
    BY <1>0 DEF Grown
  <1>5. Rec(CHOOSE f : Rec(f))
    <2>1. \E f : Rec(f)
      BY <1>3, <1>4
    <2> HIDE DEF Rec
    <2> QED
      BY <2>1
  <1>6. Subtree(m) = (CHOOSE f : Rec(f))[C]
    BY <1>0 DEF Subtree
  <1> HIDE DEF Rec
  <1> QED
    BY <1>0, <1>4, <1>5, <1>6

LEMMA SubtreeIsBelow ==
    ASSUME IInv, NEW m \in Nodes, NEW n \in Subtree(m)
    PROVE  n \in Nodes /\ Above(m, n)
  <1>0. PICK C : C = Cardinality(Nodes)
    OBVIOUS
  <1>1. C \in Nat
    BY <1>0, MdbAssumption, FS_CardinalityType
  <1>2. PICK f : Grown(m, C, f) /\ Subtree(m) = f[C]
    BY <1>0, SubtreeUnfolds
  <1> DEFINE D == {x \in Nodes : Above(m, x)}
             Bad == {j \in 0..C : ~ (f[j] \subseteq D)}
  <1>3. Bad = {}
    <2> SUFFICES ASSUME Bad # {} PROVE FALSE
      OBVIOUS
    <2>1. PICK j \in Bad : \A i \in Bad : j <= i
      BY <1>1, Smallest, Bad \subseteq Nat
    <2>2. j # 0
      <3>1. f[0] = {m}
        BY <1>1, <1>2 DEF Grown
      <3>2. Above(m, m)
        BY AboveItself DEF Above
      <3> QED
        BY <3>1, <3>2
    <2>3. j \in 0..C /\ j - 1 \in 0..C /\ ~ (j <= j - 1)
      BY <1>1, <2>2
    <2>4. f[j - 1] \subseteq D
      <3>1. j - 1 \notin Bad
        <4> HIDE DEF Bad
        <4> QED
          BY <2>1, <2>3
      <3> QED
        BY <2>3, <3>1
    <2>5. f[j] = f[j - 1] \cup {x \in Nodes : prnt[x] \in f[j - 1]}
      BY <1>2, <2>2, <2>3 DEF Grown
    <2>6. ASSUME NEW x \in Nodes, prnt[x] \in D PROVE x \in D
      <3>1. prnt[x] # NoNode /\ prnt[x] \in Nodes /\ Above(m, prnt[x])
        BY <2>6, MdbAssumption
      <3> QED
        BY <3>1, ParentAbove, AboveAbove DEF Above
    <2> QED
      BY <2>1, <2>4, <2>5, <2>6
  <1>4. f[C] \subseteq D
    <2>1. C \in 0..C
      BY <1>1
    <2> QED
      BY <1>3, <2>1
  <1> QED
    BY <1>2, <1>4

LEMMA InvRevoke ==
    ASSUME IInv
    PROVE  RevokeSound
  <1>1. ASSUME NEW c \in CPUs, pc[c] \in Revoking, ~ HalfInserted(c)
        PROVE  /\ Sweeping(c) /\ node[c] \in Nodes /\ mdb[c] \in Nodes /\ depth[c] = dpth[mdb[c]]
               /\ depth[c] <= dpth[node[c]] /\ (dpth[node[c]] <= depth[c] => node[c] = mdb[c])
               /\ depth[c] \in Nat /\ dpth[node[c]] \in Nat /\ dpth[next[node[c]]] \in Nat
    <2>1. /\ Sweeping(c) /\ node[c] \in Nodes /\ mdb[c] \in Nodes /\ depth[c] = dpth[mdb[c]]
          /\ depth[c] \in Nat /\ dpth[node[c]] \in Nat /\ dpth[next[node[c]]] \in Nat
      BY <1>1, Parts DEF IInv, Revocations, Busy, HalfInserted, Types
    <2>2. dpth[mdb[c]] <= dpth[node[c]] /\ (mdb[c] # node[c] => dpth[mdb[c]] < dpth[node[c]])
      BY <2>1, HaveDepths, AboveIsHigher DEF IInv, Sweeping, Above
    <2> QED
      BY <2>1, <2>2
  <1>2. ASSUME NEW c \in Revokers, pc[c] = "turn", ~ HalfInserted(c)
        PROVE  /\ \/ dpth[next[node[c]]] <= depth[c]
                  \/ self[c] /\ attr[next[node[c]]] \cap rights[c] = {}
                  \/ ~ self[c] /\ (\/ mdb[c] = node[c] \/ dpth[next[node[c]]] = depth[c] + 1
                                   \/ attr[next[node[c]]] \cap rights[c] = {})
               /\ dpth[next[node[c]]] > dpth[node[c]] => dpth[next[node[c]]] = dpth[node[c]] + 1
    <2>1. c \in CPUs /\ pc[c] \in Revoking
      BY <1>2, Parts DEF CPUs
    <2>2. /\ node[c] \in Nodes /\ depth[c] <= dpth[node[c]] /\ (dpth[node[c]] <= depth[c] => node[c] = mdb[c])
          /\ depth[c] \in Nat /\ dpth[node[c]] \in Nat /\ dpth[next[node[c]]] \in Nat
      BY <1>1, <1>2, <2>1
    <2>3. \/ dpth[next[node[c]]] <= Base(c) \/ dpth[node[c]] < Base(c)
          \/ attr[next[node[c]]] \cap rights[c] = {}
      BY <1>1, <1>2, <2>1 DEF Sweeping
    <2>4. CASE self[c]
      <3>1. Base(c) = depth[c]
        BY <2>2, <2>4 DEF Base
      <3>2. ~ (dpth[node[c]] < Base(c))
        BY <2>2, <3>1
      <3>3. dpth[next[node[c]]] > dpth[node[c]] => dpth[next[node[c]]] = dpth[node[c]] + 1
        <4>1. dpth[next[node[c]]] <= dpth[node[c]] + 1
          BY <2>2, NextDepth DEF IInv
        <4> QED
          BY <2>2, <4>1
      <3> QED
        BY <2>3, <2>4, <3>1, <3>2, <3>3
    <2>5. CASE ~ self[c]
      <3>1. Base(c) = depth[c] + 1
        BY <2>2, <2>5 DEF Base
      <3>2. dpth[node[c]] < Base(c) => dpth[node[c]] <= depth[c]
        BY <2>2, <3>1
      <3>3. dpth[next[node[c]]] <= Base(c) => dpth[next[node[c]]] <= depth[c] \/ dpth[next[node[c]]] = depth[c] + 1
        BY <2>2, <3>1
      <3>4. dpth[next[node[c]]] > dpth[node[c]] => dpth[next[node[c]]] = dpth[node[c]] + 1
        <4>1. dpth[next[node[c]]] <= dpth[node[c]] + 1
          BY <2>2, NextDepth DEF IInv
        <4> QED
          BY <2>2, <4>1
      <3> QED
        BY <2>2, <2>3, <2>5, <3>2, <3>3, <3>4
    <2> QED
      BY <2>4, <2>5
  <1>3. ASSUME NEW c \in Revokers, pc[c] = "backward", ~ HalfInserted(c), dpth[node[c]] <= depth[c]
        PROVE  node[c] = mdb[c]
    BY <1>1, <1>3, Parts DEF CPUs
  <1>4. RevokeAssertions
    BY <1>2, <1>3 DEF RevokeAssertions
  <1>5. RevokeComplete
    <2> SUFFICES ASSUME NEW c \in CPUs, pc[c] \in {"turn", "remove", "unlink", "tree_remove", "backward"},
                        self[c], ~ HalfInserted(c), NEW n \in Subtree(mdb[c]), alive(n)
                 PROVE  attr[n] \cap rights[c] = {}
      BY DEF RevokeComplete
    <2>1. pc[c] \in Revoking /\ pc[c] \notin Walking
      BY Parts
    <2>2. Swept(c, mdb[c]) /\ mdb[c] \in Nodes
      BY <1>1, <2>1 DEF Sweeping
    <2>3. n \in Nodes /\ Above(mdb[c], n)
      BY <2>2, SubtreeIsBelow
    <2> QED
      BY <2>1, <2>2, <2>3 DEF Swept
  <1> QED
    BY <1>4, <1>5 DEF RevokeSound

-----------------------------------------------------------------------------
(* Mdb::insert_node, demote_node and remove_node keep the database a tree  *)
(* of delegations, whatever the other CPUs do between their steps: the     *)
(* list is a depth-first walk over it, nobody is in the list without the   *)
(* domain the capability came from, and when no revocation is in progress  *)
(* nobody has a right that this domain does not have.                      *)
THEOREM TreeIsSound == Spec => []TreeSound
  <1>1. IInv => TreeSound
    BY InvTree
  <1> QED
    BY <1>1, Always, PTL

(* Pd::revoke misses nobody: however many domains delegate and revoke at   *)
(* the same time, a revocation with self that started from a linked node   *)
(* has taken the rights from everyone who got the capability through that  *)
(* node once its forward loop is over, and the assertions of the function  *)
(* hold.                                                                   *)
THEOREM RevokeIsSound == Spec => []RevokeSound
  <1>1. IInv => RevokeSound
    BY InvRevoke
  <1> QED
    BY <1>1, Always, PTL
=============================================================================

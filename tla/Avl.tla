-------------------------------- MODULE Avl --------------------------------
(***************************************************************************)
(* The tree in which a Space keeps its mapping nodes: Avl::insert, remove  *)
(* and the rotations (src/avl.cpp) with Mdb::larger, equal and lookup      *)
(* (include/mdb.hpp) and the operations of Space (src/space.cpp), which    *)
(* run under the lock of the Space.  A node is the aligned range of        *)
(* addresses that it describes.                                            *)
(***************************************************************************)
EXTENDS Integers, FiniteSets

CONSTANTS Nodes, \* records with a base and an order
          Null

VARIABLES tree,    \* the root, the links, and the balance of every node
          members  \* the nodes that have been inserted and not removed

vars == <<tree, members>>

larger(x, y) == IF x.base > y.base THEN 1 ELSE 0

Larger(o, p) == IF o > p THEN o ELSE p

equal(x, y) == LET s == 2 ^ Larger(x.order, y.order) IN x.base \div s = y.base \div s

Covers(x, a) == a \div (2 ^ x.order) = x.base \div (2 ^ x.order)

\* An Avl** is the root or a link of a node.
Root == <<Null, 0>>

At(t, s) == IF s = Root THEN t.root ELSE t.lnk[s[1]][s[2]]

Put(t, s, x) == IF s = Root THEN [t EXCEPT !.root = x]
                            ELSE [t EXCEPT !.lnk[s[1]][s[2]] = x]

Bal(t, x, b) == [t EXCEPT !.bal[x] = b]

Levels == 0 .. Cardinality(Nodes)

\* The links that the search for x follows from s on.
Path(t, x, s) ==
    LET w[i \in Levels] ==
            IF i = 0 THEN s
            ELSE LET n == At(t, w[i - 1])
                 IN  IF n = Null THEN w[i - 1] ELSE <<n, larger(x, n)>>
    IN  w

First(S) == CHOOSE i \in S : \A j \in S : i <= j

Last(S) == CHOOSE i \in S : \A j \in S : j <= i

-----------------------------------------------------------------------------
\* The single rotation of Avl::rotate.  Both rotations return the tree and
\* the node from which insert goes on.
rotate1(t, s, d) ==
    LET n == At(t, s)
        m == t.lnk[n][d]
        u == Put([t EXCEPT !.lnk[n][d] = t.lnk[m][1 - d], !.lnk[m][1 - d] = n,
                           !.bal[n] = 2, !.bal[m] = 2], s, m)
    IN  [tree |-> u, next |-> u.lnk[m][d]]

\* The double rotation.
rotate2(t, s, d, b) ==
    LET n0 == At(t, s)
        n1 == t.lnk[n0][d]
        m  == t.lnk[n1][1 - d]
        u  == Put([t EXCEPT !.lnk[n0][d] = t.lnk[m][1 - d], !.lnk[n1][1 - d] = t.lnk[m][d],
                            !.lnk[m] = [e \in {0, 1} |-> IF e = d THEN n1 ELSE n0],
                            !.bal[m] = 2, !.bal[n0] = 2, !.bal[n1] = 2], s, m)
        near == IF b # d THEN n1 ELSE n0
        far  == IF b = d THEN n1 ELSE n0
    IN  IF b = 2 THEN [tree |-> u, next |-> Null]
        ELSE [tree |-> Bal(u, near, 1 - b), next |-> u.lnk[far][1 - b]]

-----------------------------------------------------------------------------
(* Faulty variants, against which the properties are tried.                *)

\* After a rotation remove forgets that the link to the node has moved.
KeepItem(x, n, t, s, d, item) == item

-----------------------------------------------------------------------------
\* Avl::insert, when no node of the tree overlaps x.
Inserted(t, x) ==
    LET w == Path(t, x, Root)
        k == First({i \in Levels : At(t, w[i]) = Null})
        p == w[Last({0} \cup {i \in 0..k - 1 : t.bal[At(t, w[i])] # 2})]
        u == Put(t, w[k], x)
        n == At(u, p)
        d1 == larger(x, n)
        m == u.lnk[n][d1]
        d2 == larger(x, m)
        g == u.lnk[m][d2]
        v == IF u.bal[n] = 2 THEN [tree |-> u, next |-> n]
             ELSE IF u.bal[n] # d1 THEN [tree |-> Bal(u, n, 2), next |-> m]
             ELSE IF d1 = d2 THEN rotate1(u, p, d1)
             ELSE rotate2(u, p, d1, IF equal(x, g) THEN 2 ELSE larger(x, g))
        below[y \in Nodes] ==
            IF equal(x, y) THEN {} ELSE {y} \cup below[v.tree.lnk[y][larger(x, y)]]
    IN  IF v.next = Null THEN v.tree
        ELSE [v.tree EXCEPT !.bal = [y \in Nodes |-> IF y \in below[v.next] THEN larger(x, y) ELSE @[y]]]

\* An equal node on the way down: the caller deletes x.
Refused(t, x) ==
    LET w == Path(t, x, Root) IN \E i \in Levels : At(t, w[i]) # Null /\ equal(x, At(t, w[i]))

insert(x) ==
    \/ Refused(tree, x) /\ UNCHANGED vars
    \/ /\ ~Refused(tree, x)
       /\ tree' = Inserted(tree, x)
       /\ members' = members \cup {x}

-----------------------------------------------------------------------------
\* Avl::remove: where the link to the node is after a rotation at s.
Item(x, n, t, s, d, item) == IF n = x THEN <<At(t, s), d>> ELSE item

\* The second loop: rebalance on the way down from s to the node that takes
\* the place of x.
RECURSIVE Rebalance(_, _, _, _)
Rebalance(t, x, s, item) ==
    LET n == At(t, s)
        d == larger(x, n)
        b == t.bal[t.lnk[n][1 - d]]
        r == IF b = d THEN rotate2(t, s, 1 - d, t.bal[t.lnk[t.lnk[n][1 - d]][d]]).tree
             ELSE LET u == rotate1(t, s, 1 - d).tree
                  IN  IF b = 2 THEN Bal(Bal(u, n, 1 - d), At(u, s), d) ELSE u
    IN  IF t.lnk[n][d] = Null THEN [tree |-> t, item |-> item]
        ELSE IF t.bal[n] = 2 THEN Rebalance(Bal(t, n, 1 - d), x, <<n, d>>, item)
        ELSE IF t.bal[n] = d THEN Rebalance(Bal(t, n, 2), x, <<n, d>>, item)
        ELSE Rebalance(r, x, <<n, d>>, Item(x, n, r, s, d, item))

\* Avl::remove of a node that is in the tree.
Removed(t, x) ==
    LET w == Path(t, x, Root)
        node(i) == At(t, w[i])
        d(i) == larger(x, node(i))
        k == First({i \in Levels : node(i) # Null /\ t.lnk[node(i)][d(i)] = Null})
        deep == {i \in 0..k - 1 : \/ t.bal[node(i)] = 2
                                  \/ /\ t.bal[node(i)] = 1 - d(i)
                                     /\ t.bal[t.lnk[node(i)][1 - d(i)]] = 2}
        found == CHOOSE i \in 0..k : node(i) = x
        r == Rebalance(t, x, w[Last({0} \cup deep)], w[found])
        n == At(r.tree, w[k])
        u == Put(Put(r.tree, r.item, n), w[k], r.tree.lnk[n][1 - larger(x, n)])
    IN  [u EXCEPT !.lnk[n] = u.lnk[x], !.bal[n] = u.bal[x]]

\* A removed node is deleted; its links are cleared when it is next made.
Deleted(t, x) == [t EXCEPT !.lnk[x] = [d \in {0, 1} |-> Null], !.bal[x] = 2]

remove(x) ==
    /\ x \in members
    /\ tree' = Deleted(Removed(tree, x), x)
    /\ members' = members \ {x}

\* Mdb::lookup: the node that covers the address a or, with next, the node
\* that follows.
RECURSIVE Search(_, _, _, _)
Search(m, a, next, n) ==
    IF m = Null THEN n
    ELSE IF Covers(m, a) THEN m
    ELSE LET d == IF a > m.base THEN 1 ELSE 0
         IN  Search(tree.lnk[m][d], a, next, IF d = 0 /\ next THEN m ELSE n)

lookup(a, next) == Search(tree.root, a, next, Null)

Init ==
    /\ tree = [root |-> Null, lnk |-> [x \in Nodes |-> [d \in {0, 1} |-> Null]],
               bal |-> [x \in Nodes |-> 2]]
    /\ members = {}

Next == \E x \in Nodes : insert(x) \/ remove(x)

Spec == Init /\ [][Next]_vars
-----------------------------------------------------------------------------
(* Properties.                                                             *)

\* What a lookup of the address a has to return.
Reference(a, next) ==
    LET cover == {x \in members : Covers(x, a)}
        after == {x \in members : x.base > a}
    IN  IF cover # {} THEN CHOOSE x \in cover : TRUE
        ELSE IF next /\ after # {} THEN CHOOSE x \in after : \A y \in after : x.base <= y.base
        ELSE Null

Height(t) ==
    LET h[n \in Levels, x \in Nodes \cup {Null}] ==
            IF x = Null \/ n = 0 THEN 0
            ELSE 1 + Larger(h[n - 1, t.lnk[x][0]], h[n - 1, t.lnk[x][1]])
    IN  [x \in Nodes \cup {Null} |-> h[Cardinality(Nodes), x]]

\* However ranges of different sizes are inserted and removed, the tree never
\* accepts a range that overlaps with another one, a lookup finds
\* exactly the node that covers an address or the next one (revoke and
\* delegate walk the tree in this way), and the balance that every node
\* records is that of its subtrees, which differ in height by one at most.
TreeExact ==
    /\ \A x, y \in members : x # y => ~equal(x, y)
    /\ \A a \in {x.base : x \in Nodes}, next \in BOOLEAN : lookup(a, next) = Reference(a, next)
    /\ LET h == Height(tree)
       IN  \A x \in members :
              h[tree.lnk[x][1]] - h[tree.lnk[x][0]]
                = CASE tree.bal[x] = 0 -> -1 [] tree.bal[x] = 1 -> 1 [] tree.bal[x] = 2 -> 0
=============================================================================

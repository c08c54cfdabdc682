-------------------------------- MODULE Mdb --------------------------------
(***************************************************************************)
(* The mapping database of the object space: Mdb (src/mdb.cpp,             *)
(* include/mdb.hpp), Space (src/space.cpp), Space_obj (src/space_obj.cpp)  *)
(* and the loops of Pd::delegate and Pd::revoke (src/pd.cpp).              *)
(*                                                                         *)
(* Every capability in a slot of a protection domain has a node.  The      *)
(* nodes of one object form a circular list in the order of a depth-first  *)
(* walk over who got the capability from whom; dpth is the depth of a node *)
(* in that walk.  Three locks are involved: Mdb::lock for the list and the *)
(* rights of the nodes, one lock per space for its tree, and one lock per  *)
(* node for the slot.  None is held across two steps of this module.       *)
(*                                                                         *)
(* A domain has a single slot, so that its tree is that slot's node.  All  *)
(* nodes have order 0, as they always have in an object space.             *)
(***************************************************************************)
EXTENDS Integers, FiniteSets

CONSTANTS PDs,        \* protection domains
          Objects,    \* kernel objects (Kobject) that can be created, each a node
          Derived,    \* further nodes that can be allocated; none is used twice
          NoNode,     \* nullptr
          NoPd,       \* the space of a node that is not allocated
          Rights,     \* permission bits of a capability
          Delegators, \* CPUs that create and delegate
          Revokers    \* CPUs that revoke

Nodes == Objects \cup Derived
CPUs  == Delegators \cup Revokers

ASSUME MdbAssumption == NoNode \notin Nodes /\ IsFiniteSet(Nodes)

VARIABLES tree,    \* Space::tree of each domain
          slot,    \* the capability in the slot: an object and rights, {} for null
          fresh,   \* nodes that are not allocated yet
          deleted, \* nodes that were deleted without a grace period
          retired, \* nodes given to Rcu::call
          space, phys, prnt, prev, next, dpth, attr,  \* the members of Mdb
          pc,      \* where each CPU is
          mdb,     \* CPU-local: the node that delegate or revoke starts from
          node,    \* CPU-local: the node it works on
          depth,   \* CPU-local: d of revoke
          rights,  \* CPU-local: argument attr
          self,    \* CPU-local: argument self of revoke
          demote   \* CPU-local: whether the walk of revoke has reached its target

vars == <<tree, slot, fresh, deleted, retired, space, phys, prnt, prev, next, dpth, attr,
          pc, mdb, node, depth, rights, self, demote>>

memory == <<fresh, deleted, retired>>
const  == <<space, phys>>
links  == <<prnt, prev, next, dpth>>
work   == <<mdb, depth, rights, self, demote>>

Null == [obj |-> NoNode, prm |-> {}]

\* Capability(obj, prm): without rights it is null.
Capability(n, r) == IF r = {} THEN Null ELSE [obj |-> phys[n], prm |-> r]

Init ==
    /\ tree = [p \in PDs |-> NoNode]
    /\ slot = [p \in PDs |-> Null]
    /\ fresh = Nodes /\ deleted = {} /\ retired = {}
    /\ space = [n \in Nodes |-> NoPd]
    /\ phys = [n \in Nodes |-> n]
    /\ prnt = [n \in Nodes |-> NoNode]
    /\ prev = [n \in Nodes |-> n]
    /\ next = [n \in Nodes |-> n]
    /\ dpth = [n \in Nodes |-> 0]
    /\ attr = [n \in Nodes |-> {}]
    /\ pc = [c \in CPUs |-> "idle"]
    /\ mdb = [c \in CPUs |-> NoNode]
    /\ node = [c \in CPUs |-> NoNode]
    /\ depth = [c \in CPUs |-> 0]
    /\ rights = [c \in CPUs |-> {}]
    /\ self = [c \in CPUs |-> FALSE]
    /\ demote = [c \in CPUs |-> FALSE]

Goto(c, l) == pc' = [pc EXCEPT ![c] = l]

\* The system call is over; its local variables are gone.
Finish(c) ==
    /\ Goto(c, "idle")
    /\ mdb' = [mdb EXCEPT ![c] = NoNode]
    /\ node' = [node EXCEPT ![c] = NoNode]
    /\ depth' = [depth EXCEPT ![c] = 0]
    /\ rights' = [rights EXCEPT ![c] = {}]
    /\ self' = [self EXCEPT ![c] = FALSE]
    /\ demote' = [demote EXCEPT ![c] = FALSE]

-----------------------------------------------------------------------------
\* Mdb::alive().
alive(n) == next[prev[n]] = n /\ prev[next[n]] = n

-----------------------------------------------------------------------------
(* Faulty variants, against which the properties are tried.                *)

\* insert_node(c) with the parent's test, the rights and the depth as given.
InsertWith(c, ok, r, d) ==
    LET n == node[c]
        p == mdb[c]
    IN  /\ pc[c] = "insert_node"
        /\ attr' = [attr EXCEPT ![n] = IF ok THEN r ELSE @]
        /\ IF ok /\ r # {}
             THEN /\ prnt' = [prnt EXCEPT ![n] = p]
                  /\ prev' = [prev EXCEPT ![n] = p, ![next[p]] = n]
                  /\ next' = [next EXCEPT ![n] = next[p], ![p] = n]
                  /\ dpth' = [dpth EXCEPT ![n] = d]
                  /\ Goto(c, "update")
             ELSE /\ Goto(c, "undo")
                  /\ UNCHANGED links
        /\ UNCHANGED <<tree, slot, memory, const, node, work>>

\* The depth grows by two.
InsertTooDeep(c) ==
    InsertWith(c, alive(mdb[c]), attr[mdb[c]] \cap rights[c], dpth[mdb[c]] + 2)

\* The rights of the parent are not taken into account.
InsertUnmasked(c) == InsertWith(c, alive(mdb[c]), rights[c], dpth[mdb[c]] + 1)

\* A node with children is unlinked.
UnlinkParent(c) ==
    LET n == node[c]
    IN  /\ pc[c] = "unlink"
        /\ IF alive(n)
             THEN /\ prev' = [prev EXCEPT ![next[n]] = prev[n]]
                  /\ next' = [next EXCEPT ![prev[n]] = next[n]]
                  /\ Goto(c, "tree_remove")
             ELSE /\ Goto(c, "backward")
                  /\ UNCHANGED <<prev, next>>
        /\ UNCHANGED <<tree, slot, memory, const, prnt, dpth, attr, node, work>>

\* The walk ends at the first sibling of the first child.
ForwardChildOnly(c) ==
    LET ptr == next[node[c]]
    IN  /\ pc[c] = "forward"
        /\ IF dpth[ptr] <= dpth[node[c]]
             THEN Goto(c, "turn") /\ UNCHANGED node
             ELSE Goto(c, "revoke_slot") /\ node' = [node EXCEPT ![c] = ptr]
        /\ UNCHANGED <<tree, slot, memory, const, links, attr, work>>

\* The rights are only taken from the slot.
DemoteSlotOnly(c) ==
    /\ pc[c] = "demote"
    /\ Goto(c, "forward")
    /\ UNCHANGED <<tree, slot, memory, const, links, attr, node, work>>

-----------------------------------------------------------------------------
\* new Mdb(space, phys, base); a node is alone in its list at first.
NewNode(c, n, p, o) ==
    /\ n \in fresh
    /\ fresh' = fresh \ {n}
    /\ space' = [space EXCEPT ![n] = p]
    /\ phys' = [phys EXCEPT ![n] = o]
    /\ node' = [node EXCEPT ![c] = n]
    /\ UNCHANGED <<deleted, retired>>

-----------------------------------------------------------------------------
(* A new object: Ec::sys_create_* and Space_obj::insert_root.              *)

\* Space::tree_insert of the new object, which is deleted again if the slot is in use.
create(c, n, p) ==
    /\ pc[c] = "idle" /\ c \in Delegators
    /\ tree[p] = NoNode
    /\ NewNode(c, n, p, n)
    /\ tree' = [tree EXCEPT ![p] = n]
    /\ attr' = [attr EXCEPT ![n] = Rights]
    /\ Goto(c, "insert_root")
    /\ UNCHANGED <<slot, links, work>>

insert_root(c) ==
    /\ pc[c] = "insert_root"
    /\ slot' = [slot EXCEPT ![space[node[c]]] = Capability(node[c], attr[node[c]])]
    /\ Finish(c)
    /\ UNCHANGED <<tree, memory, const, links, attr>>

-----------------------------------------------------------------------------
(* Pd::delegate<Space_obj>.                                                *)

delegate(c, n, snd, rcv, r) ==
    /\ pc[c] = "idle" /\ c \in Delegators
    /\ tree[snd] # NoNode
    /\ mdb' = [mdb EXCEPT ![c] = tree[snd]]
    /\ NewNode(c, n, rcv, phys[tree[snd]])
    /\ rights' = [rights EXCEPT ![c] = r]
    /\ Goto(c, "tree_insert")
    /\ UNCHANGED <<tree, slot, links, attr, depth, demote, self>>

\* Space::tree_insert(node).  If the slot is in use the node, which nobody has
\* seen, is deleted.
tree_insert(c) ==
    LET n == node[c]
    IN  /\ pc[c] = "tree_insert"
        /\ \/ /\ tree[space[n]] = NoNode
              /\ tree' = [tree EXCEPT ![space[n]] = n]
              /\ Goto(c, "insert_node")
              /\ UNCHANGED <<fresh, const, node, work>>
           \/ /\ tree[space[n]] # NoNode
              /\ fresh' = fresh \cup {n}
              /\ space' = [space EXCEPT ![n] = NoPd]
              /\ phys' = [phys EXCEPT ![n] = n]
              /\ Finish(c)
              /\ UNCHANGED tree
        /\ UNCHANGED <<slot, deleted, retired, links, attr>>

\* Mdb::insert_node, under Mdb::lock.
insert_node(c) ==
    LET n == node[c]
        p == mdb[c]
    IN  /\ pc[c] = "insert_node"
        /\ IF alive(p)
             THEN attr' = [attr EXCEPT ![n] = attr[p] \cap rights[c]]
             ELSE UNCHANGED attr
        /\ IF alive(p) /\ attr'[n] # {}
             THEN /\ prnt' = [prnt EXCEPT ![n] = p]
                  /\ prev' = [prev EXCEPT ![n] = p, ![next[p]] = n]
                  /\ next' = [next EXCEPT ![n] = next[p], ![p] = n]
                  /\ dpth' = [dpth EXCEPT ![n] = dpth[p] + 1]
                  /\ Goto(c, "update")
             ELSE /\ Goto(c, "undo")
                  /\ UNCHANGED links
        /\ UNCHANGED <<tree, slot, memory, const, node, work>>

\* Taking a node out of the tree of its space.  Avl::remove looks for the base of
\* the node, not for the node.
TreeRemove(n) == tree' = [tree EXCEPT ![space[n]] = NoNode]

\* insert_node failed: tree_remove(node), delete node.
undo(c) ==
    /\ pc[c] = "undo"
    /\ TreeRemove(node[c])
    /\ deleted' = deleted \cup {node[c]}
    /\ Finish(c)
    /\ UNCHANGED <<slot, fresh, retired, const, links, attr>>

\* Space_obj::update(node), under the lock of the node.
update(c) ==
    /\ pc[c] = "update"
    /\ slot' = [slot EXCEPT ![space[node[c]]] = Capability(node[c], attr[node[c]])]
    /\ Finish(c)
    /\ UNCHANGED <<tree, memory, const, links, attr>>

-----------------------------------------------------------------------------
(* Pd::revoke<Space_obj>: forwards through the list to take the rights...  *)

revoke(c, p, r, s) ==
    /\ pc[c] = "idle" /\ c \in Revokers
    /\ tree[p] # NoNode
    /\ mdb' = [mdb EXCEPT ![c] = tree[p]]
    /\ node' = [node EXCEPT ![c] = tree[p]]
    /\ depth' = [depth EXCEPT ![c] = dpth[tree[p]]]
    /\ rights' = [rights EXCEPT ![c] = r]
    /\ self' = [self EXCEPT ![c] = s]
    /\ Goto(c, "revoke_slot")
    /\ UNCHANGED <<tree, slot, memory, const, links, attr, demote>>

\* Space_obj::update(node, attr), if the node has any of the rights.  Without self
\* the children of mdb are the first to lose them.
revoke_slot(c) ==
    LET n == node[c]
    IN  /\ pc[c] = "revoke_slot"
        /\ demote' = [demote EXCEPT ![c] =
                         IF dpth[n] = depth[c] + (IF self[c] THEN 0 ELSE 1)
                           THEN phys[n] = phys[mdb[c]] ELSE @]
        /\ IF demote'[c] /\ attr[n] \cap rights[c] # {}
             THEN /\ slot' = [slot EXCEPT ![space[n]] = Capability(n, attr[n] \ rights[c])]
                  /\ Goto(c, "demote")
             ELSE /\ Goto(c, "forward")
                  /\ UNCHANGED slot
        /\ UNCHANGED <<tree, memory, const, links, attr, node, mdb, depth, rights, self>>

\* Mdb::demote_node, under Mdb::lock.
demote_node(c) ==
    /\ pc[c] = "demote"
    /\ attr' = [attr EXCEPT ![node[c]] = @ \ rights[c]]
    /\ Goto(c, "forward")
    /\ UNCHANGED <<tree, slot, memory, const, links, node, work>>

\* On to the next node, unless it is outside the subtree of mdb.
forward(c) ==
    LET ptr == next[node[c]]
    IN  /\ pc[c] = "forward"
        /\ IF dpth[ptr] <= depth[c]
             THEN Goto(c, "turn") /\ UNCHANGED node
             ELSE Goto(c, "revoke_slot") /\ node' = [node EXCEPT ![c] = ptr]
        /\ UNCHANGED <<tree, slot, memory, const, links, attr, work>>

\* The node is read once more for the assertions between the two loops.
turn(c) ==
    /\ pc[c] = "turn"
    /\ Goto(c, "remove")
    /\ UNCHANGED <<tree, slot, memory, const, links, attr, node, work>>

-----------------------------------------------------------------------------
(* ... and backwards to remove the nodes that have none left.              *)

\* Mdb::remove_node up to taking the lock.
remove_node(c) ==
    /\ pc[c] = "remove"
    /\ Goto(c, IF attr[node[c]] = {} THEN "unlink" ELSE "backward")
    /\ UNCHANGED <<tree, slot, memory, const, links, attr, node, work>>

\* The rest of it, under Mdb::lock.
unlink(c) ==
    LET n == node[c]
    IN  /\ pc[c] = "unlink"
        /\ IF alive(n) /\ dpth[next[n]] <= dpth[n]
             THEN /\ prev' = [prev EXCEPT ![next[n]] = prev[n]]
                  /\ next' = [next EXCEPT ![prev[n]] = next[n]]
                  /\ Goto(c, "tree_remove")
             ELSE /\ Goto(c, "backward")
                  /\ UNCHANGED <<prev, next>>
        /\ UNCHANGED <<tree, slot, memory, const, prnt, dpth, attr, node, work>>

\* Space::tree_remove; if something was found, Rcu::call(node), which refuses a node
\* that it already has.
tree_remove(c) ==
    /\ pc[c] = "tree_remove"
    /\ TreeRemove(node[c])
    /\ retired' = IF tree[space[node[c]]] # NoNode THEN retired \cup {node[c]} ELSE retired
    /\ Goto(c, "backward")
    /\ UNCHANGED <<slot, fresh, deleted, const, links, attr, node, work>>

backward(c) ==
    /\ pc[c] = "backward"
    /\ IF dpth[node[c]] <= depth[c]
         THEN Finish(c)
         ELSE /\ node' = [node EXCEPT ![c] = prev[node[c]]]
              /\ Goto(c, "remove")
              /\ UNCHANGED work
    /\ UNCHANGED <<tree, slot, memory, const, links, attr>>

-----------------------------------------------------------------------------
Delegate(c) == insert_root(c) \/ tree_insert(c) \/ insert_node(c) \/ undo(c) \/ update(c)

Revoke(c) ==
    \/ revoke_slot(c) \/ demote_node(c) \/ forward(c) \/ turn(c)
    \/ remove_node(c) \/ unlink(c) \/ tree_remove(c) \/ backward(c)

SomeRights == (SUBSET Rights) \ {{}}

Next ==
    \/ \E c \in Delegators :
        \/ \E n \in Objects, p \in PDs : create(c, n, p)
        \/ \E n \in Derived, p, q \in PDs, r \in SomeRights : delegate(c, n, p, q, r)
        \/ Delegate(c)
    \/ \E c \in Revokers :
        \/ \E p \in PDs, r \in SomeRights, s \in BOOLEAN : revoke(c, p, r, s)
        \/ Revoke(c)

Spec == Init /\ [][Next]_vars

-----------------------------------------------------------------------------
Locations ==
    {"idle", "insert_root", "tree_insert", "insert_node", "undo", "update", "revoke_slot",
     "demote", "forward", "turn", "remove", "unlink", "tree_remove", "backward"}

MaybeNode == Nodes \cup {NoNode}

TypeOK ==
    /\ tree \in [PDs -> MaybeNode]
    /\ slot \in [PDs -> [obj : MaybeNode, prm : SUBSET Rights]]
    /\ fresh \subseteq Nodes /\ deleted \subseteq Nodes /\ retired \subseteq Nodes
    /\ space \in [Nodes -> PDs \cup {NoPd}]
    /\ phys \in [Nodes -> Nodes]
    /\ prnt \in [Nodes -> MaybeNode]
    /\ prev \in [Nodes -> Nodes]
    /\ next \in [Nodes -> Nodes]
    /\ dpth \in [Nodes -> 0..Cardinality(Nodes)]
    /\ attr \in [Nodes -> SUBSET Rights]
    /\ pc \in [CPUs -> Locations]
    /\ mdb \in [CPUs -> MaybeNode]
    /\ node \in [CPUs -> MaybeNode]
    /\ depth \in [CPUs -> 0..Cardinality(Nodes)]
    /\ rights \in [CPUs -> SUBSET Rights]
    /\ self \in [CPUs -> BOOLEAN]
    /\ demote \in [CPUs -> BOOLEAN]

(* The list stays a depth-first walk whoever inserts and removes at the    *)
(* same time: a node that is in the list is one level below its parent,    *)
(* which is in the list too, and the walk never goes down two levels.      *)
DepthFirst ==
    \A n \in Nodes : prnt[n] # NoNode /\ alive(n) =>
        /\ alive(prnt[n]) /\ dpth[n] = dpth[prnt[n]] + 1
        /\ dpth[next[n]] <= dpth[n] + 1

\* The nodes that got their capability from m, directly or not, and m itself.
Subtree(m) ==
    LET below[k \in 0..Cardinality(Nodes)] ==
            IF k = 0 THEN {m} ELSE below[k - 1] \cup {n \in Nodes : prnt[n] \in below[k - 1]}
    IN  below[Cardinality(Nodes)]

(* Pd::revoke can find a node in the tree of the space that insert_node    *)
(* has not linked yet: its depth, and its rights, change under the walk.   *)
HalfInserted(c) == depth[c] # dpth[mdb[c]]

(* A revocation with self leaves nobody who got the capability from the    *)
(* domain with any of the rights, in spite of delegations that happen      *)
(* behind the back of its walk.                                            *)
RevokeComplete ==
    \A c \in CPUs : pc[c] \in {"turn", "remove", "unlink", "tree_remove", "backward"} /\ self[c] /\ ~HalfInserted(c) =>
        \A n \in Subtree(mdb[c]) : alive(n) => attr[n] \cap rights[c] = {}

(* Nobody has a right that the domain it came from has lost, once the      *)
(* revocations are over.                                                   *)
RightsShrink ==
    (\A c \in Revokers : pc[c] = "idle") =>
        \A n \in Nodes : prnt[n] # NoNode /\ alive(n) => attr[n] \subseteq attr[prnt[n]]

(* The assertions in Pd::revoke, unless it met a node that was only half   *)
(* inserted.                                                               *)
RevokeAssertions ==
    \A c \in Revokers : pc[c] # "idle" /\ ~HalfInserted(c) =>
        LET x == next[node[c]]
            d == depth[c]
            clean == attr[x] \cap rights[c] = {}
        IN  /\ pc[c] = "turn" =>
                /\ \/ dpth[x] <= d
                   \/ self[c] /\ clean
                   \/ ~self[c] /\ (mdb[c] = node[c] \/ dpth[x] = d + 1 \/ clean)
                /\ dpth[x] > dpth[node[c]] => dpth[x] = dpth[node[c]] + 1
            /\ pc[c] = "backward" /\ dpth[node[c]] <= d => node[c] = mdb[c]

(* docs/user-documentation/syscall-reference.md, revoke: capabilities are  *)
(* recursively revoked.  When no system call is in progress a domain has   *)
(* no rights in its slot that its node does not have.                      *)
SlotsFollowNodes ==
    (\A c \in CPUs : pc[c] = "idle") =>
        \A p \in PDs : slot[p].prm \subseteq (IF tree[p] = NoNode THEN {} ELSE attr[tree[p]])

(* The database after any interleaving: it is the tree of delegations, and *)
(* rights only shrink on the way down (insert_node, remove_node).          *)
TreeSound == TypeOK /\ DepthFirst /\ RightsShrink

(* Pd::revoke on one CPU, whatever happens on the others: its assertions   *)
(* hold and it leaves none of the rights behind its walk.                  *)
RevokeSound == RevokeAssertions /\ RevokeComplete
=============================================================================

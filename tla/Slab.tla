-------------------------------- MODULE Slab -------------------------------
(***************************************************************************)
(* The allocator of kernel objects (src/slab.cpp): a cache keeps a doubly  *)
(* linked list of slabs, pages that hold Elem objects each.  Full slabs    *)
(* come after curr, the slab of the next allocation, all others up to it.  *)
(* Operations hold the lock of the cache.                                  *)
(***************************************************************************)
EXTENDS Integers

CONSTANTS NumSlabs, \* the pages that the page allocator may return
          Elem,     \* the objects per slab; every cache of the kernel has several
          Null      \* the null pointer

VARIABLES page,       \* the slabs that the cache has
          live,       \* the elements in use in every slab
          prev, next, \* the links of the list
          head, curr,
          ok          \* no assertion has failed

links == <<prev, next, head>>
vars == <<page, live, links, curr, ok>>

Slabs == 1..NumSlabs

SlabAssumption == NumSlabs \in Nat /\ Elem \in Nat /\ Elem >= 2 /\ Null \notin Slabs

full(u) == u = 1..Elem

empty(u) == u = {}

\* Slab::enqueue on the links l: the neighbours have to be adjacent.
enqueue(l, s, p, n) ==
    [prev |-> [x \in Slabs |-> IF x = s THEN p ELSE IF x = n THEN s ELSE l.prev[x]],
     next |-> [x \in Slabs |-> IF x = s THEN n ELSE IF x = p THEN s ELSE l.next[x]],
     head |-> IF p = Null THEN s ELSE l.head,
     ok   |-> (n # Null => l.prev[n] = p) /\ (p # Null => l.next[p] = n)]

\* Slab::dequeue; the slab keeps its own links.
dequeue(l, s) ==
    [l EXCEPT !.next = [x \in Slabs |-> IF x = l.prev[s] THEN l.next[s] ELSE @[x]],
              !.prev = [x \in Slabs |-> IF x = l.next[s] THEN l.prev[s] ELSE @[x]]]

Links == [prev |-> prev, next |-> next, head |-> head, ok |-> TRUE]

Set(l) == prev' = l.prev /\ next' = l.next /\ head' = l.head

-----------------------------------------------------------------------------
(* Faulty variants, against which the properties are tried.                *)

\* A slab that is no longer full stays where it is.
NoRequeue(s) == Links

-----------------------------------------------------------------------------
\* Slab_cache::alloc with grow(): without curr a new slab becomes the head.
alloc ==
    \E s \in Slabs, e \in 1..Elem :
        LET grown == curr = Null
            l == IF grown THEN enqueue(Links, s, Null, head) ELSE Links
            u == IF grown THEN {} ELSE live[s]
            now == u \cup {e}
        IN  /\ IF grown THEN s \notin page ELSE s = curr
            /\ e \notin u
            /\ page' = page \cup {s}
            /\ live' = [live EXCEPT ![s] = now]
            /\ Set(l)
            /\ curr' = IF full(now) THEN l.prev[s] ELSE s
            /\ ok' = (ok /\ l.ok /\ ~full(u) /\ (l.next[s] # Null => full(live[l.next[s]])))

\* free() of a full slab: behind another full slab it moves to the place
\* after curr, or to the head.
Requeued(s) ==
    IF prev[s] # Null /\ full(live[prev[s]])
    THEN LET l == dequeue(Links, s)
         IN  IF curr # Null THEN enqueue(l, s, curr, l.next[curr]) ELSE enqueue(l, s, Null, l.head)
    ELSE Links

\* Slab_cache::free, the slab was full.
free_full(s, e) ==
    /\ full(live[s])
    /\ live' = [live EXCEPT ![s] = @ \ {e}]
    /\ Set(Requeued(s))
    /\ curr' = s
    /\ ok' = (ok /\ head # Null /\ Requeued(s).ok)
    /\ UNCHANGED page

\* free() makes a slab that is not the head empty: it becomes the head, or it
\* is deleted if there is an empty one already.
free_last(s, e) ==
    /\ ~full(live[s]) /\ live[s] = {e} /\ prev[s] # Null
    /\ LET l == dequeue(Links, s)
           extra == empty(live[prev[s]]) \/ empty(live[head])
           m == enqueue(l, s, Null, l.head)
       IN  /\ IF extra THEN Set(l) /\ page' = page \ {s}
                       ELSE Set(m) /\ page' = page
           /\ ok' = (ok /\ (extra => head # s) /\ (~extra => m.ok))
    /\ live' = [live EXCEPT ![s] = {}]
    /\ curr' = IF s = curr THEN prev[s] ELSE curr

\* All other cases: the slab stays where it is.
free_other(s, e) ==
    /\ ~full(live[s])
    /\ live[s] = {e} => prev[s] = Null
    /\ live' = [live EXCEPT ![s] = @ \ {e}]
    /\ ok' = (ok /\ (live[s] = {e} => s = head))
    /\ UNCHANGED <<page, links, curr>>

Init ==
    /\ page = {} /\ live = [s \in Slabs |-> {}]
    /\ prev = [s \in Slabs |-> Null] /\ next = [s \in Slabs |-> Null]
    /\ head = Null /\ curr = Null
    /\ ok = TRUE

Next ==
    \/ alloc
    \/ \E s \in page : \E e \in live[s] : free_full(s, e) \/ free_last(s, e) \/ free_other(s, e)

Spec == Init /\ [][Next]_vars
-----------------------------------------------------------------------------
(* Properties.                                                             *)

\* The list from the head on.
Walk ==
    LET w[n \in 0..NumSlabs] ==
            IF n = 0 THEN head ELSE IF w[n-1] = Null THEN Null ELSE next[w[n-1]]
    IN  w

\* What the comments of slab.cpp and slab.hpp promise and what its assertions
\* need: the list holds each slab of the cache once, linked both ways; curr is
\* the last slab that has room, behind it all are full; and at most one slab
\* is empty, the head, the others have been given back.
SlabListExact ==
    /\ ok
    /\ {Walk[n] : n \in DOMAIN Walk} \ {Null} = page
    /\ \A m, n \in DOMAIN Walk : Walk[m] = Walk[n] /\ Walk[n] # Null => m = n
    /\ \A n \in DOMAIN Walk : Walk[n] # Null => prev[Walk[n]] = IF n = 0 THEN Null ELSE Walk[n-1]
    /\ \A s \in page : ~full(live[s]) => curr # Null
    /\ \A n \in DOMAIN Walk :
          Walk[n] # Null /\ curr # Null =>
             (full(live[Walk[n]]) <=> \E m \in 0..n-1 : Walk[m] = curr)
    /\ \A s \in page : empty(live[s]) => s = head
=============================================================================

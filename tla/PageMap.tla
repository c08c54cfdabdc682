------------------------------ MODULE PageMap ------------------------------
(***************************************************************************)
(* What include/generic_page_table.hpp promises: a map from pages to       *)
(* frames and attributes that CPUs read and change without synchronization.*)
(* An update becomes visible page by page ("atomic page table updates on   *)
(* PAGE_SIZE granularity", "in the overlapping region, the updates may be  *)
(* arbitrarily interleaved"), and one that runs out of memory before it    *)
(* changed anything leaves the map alone.                                  *)
(***************************************************************************)
CONSTANTS CPUs,
          Pages,
          NoPage,     \* what a page without a translation maps to
          Idle,       \* the request of a CPU that is not in the page table
          Requests,   \* update, replace or lookup of a set of pages
          Value(_, _),  \* Value(r, p): what request r wants page p to map to
          Writable(_) \* a translation that replace_readonly_page keeps

VARIABLES map,  \* Pages -> translation or NoPage
          req,  \* the request each CPU is working on
          left, \* the pages that it has not dealt with yet
          res   \* what a replace or a lookup returned

mapvars == <<map, req, left, res>>

MInit ==
    /\ map \in [Pages -> {NoPage}]
    /\ req = [c \in CPUs |-> Idle]
    /\ left = [c \in CPUs |-> {}]
    /\ res = [c \in CPUs |-> NoPage]

Start(c, r) ==
    /\ req[c] = Idle
    /\ req' = [req EXCEPT ![c] = r]
    /\ left' = [left EXCEPT ![c] = r.pages]
    /\ UNCHANGED <<map, res>>

\* Some of the pages take on their new translation at once.
Write(c, P) ==
    /\ req[c].kind = "update" /\ P # {}
    /\ left' = [left EXCEPT ![c] = @ \ P]
    /\ map' = [p \in Pages |-> IF p \in P THEN Value(req[c], p) ELSE map[p]]
    /\ UNCHANGED <<req, res>>

Replace(c, p) ==
    /\ req[c].kind = "replace"
    /\ left' = [left EXCEPT ![c] = {}]
    /\ map' = IF Writable(map[p]) THEN map ELSE [map EXCEPT ![p] = Value(req[c], p)]
    /\ res' = [res EXCEPT ![c] = map'[p]]
    /\ UNCHANGED req

Lookup(c, p) ==
    /\ req[c].kind = "lookup"
    /\ left' = [left EXCEPT ![c] = {}]
    /\ res' = [res EXCEPT ![c] = map[p]]
    /\ UNCHANGED <<map, req>>

\* All pages are dealt with, or none because memory ran out.
Finish(c) ==
    /\ req[c] # Idle /\ left[c] \in {{}, req[c].pages}
    /\ req' = [req EXCEPT ![c] = Idle]
    /\ left' = [left EXCEPT ![c] = {}]
    /\ res' = [res EXCEPT ![c] = NoPage]
    /\ UNCHANGED map

MNext == \E c \in CPUs :
    \/ \E r \in Requests : Start(c, r)
    \/ \E P \in SUBSET left[c] : Write(c, P)
    \/ \E p \in left[c] : Replace(c, p) \/ Lookup(c, p)
    \/ Finish(c)

MSpec == MInit /\ [][MNext]_mapvars
=============================================================================

------------------------------- MODULE Buddy -------------------------------
(***************************************************************************)
(* The page allocator (src/buddy.cpp): blocks of 2^ord pages, one free     *)
(* list per order.  Operations hold the lock of the allocator.  Page       *)
(* indices are relative to an aligned base inside the pool, so those below *)
(* it are negative.                                                        *)
(***************************************************************************)
EXTENDS Integers, Sequences, FiniteSets, SequencesExt

CONSTANTS MinIdx, MaxIdx, \* min_idx, max_idx
          FirstIdx,    \* the first page that is given to the allocator (f_addr)
          Order     \* the number of free lists

VARIABLES tag, ord, \* the index: state and order recorded for every page
          list,     \* the free lists
          used      \* the blocks that callers have, by first page

vars == <<tag, ord, list, used>>

Pages == MinIdx .. MaxIdx - 1

Orders == 0 .. Order - 1

\* idx ^ (1 << o)
BuddyOf(i, o) == IF (i \div 2^o) % 2 = 0 THEN i + 2^o ELSE i - 2^o

Block(i, o) == i .. i + 2^o - 1

-----------------------------------------------------------------------------
(* Faulty variants, against which the properties are tried.                *)

\* A buddy that is free only in part is merged as a whole.
MergeFragments(s, b, o) ==
    b \notin Pages \/ s.tag[b] = "used"

-----------------------------------------------------------------------------
\* The conditions that end the merging of a block with its buddy b.
Unmergeable(s, b, o) ==
    \/ b \notin Pages
    \/ s.tag[b] = "used"
    \/ s.ord[b] # o

\* Buddy::free from order o on.
RECURSIVE Merge(_, _, _)
Merge(s, i, o) ==
    LET b == BuddyOf(i, o)
    IN  IF o = Order - 1 \/ Unmergeable(s, b, o)
        THEN [s EXCEPT !.tag[i] = "free", !.ord[i] = o, !.list[o] = <<i>> \o @]
        ELSE Merge([s EXCEPT !.list[o] = SelectSeq(@, LAMBDA x : x # b)], IF b < i THEN b ELSE i, o + 1)

State == [tag |-> tag, ord |-> ord, list |-> list]

Is(s) == tag' = s.tag /\ ord' = s.ord /\ list' = s.list

\* Buddy::try_alloc: the first block of the lowest list that has one; its
\* upper parts are given back, each to a list that is empty.
try_alloc(o) ==
    \E j \in o .. Order - 1 :
        /\ list[j] # <<>>
        /\ \A k \in o .. j - 1 : list[k] = <<>>
        /\ LET i == Head(list[j])
           IN  /\ tag' = [p \in Pages |-> IF p = i THEN "used"
                                          ELSE IF \E k \in o .. j - 1 : p = i + 2^k THEN "free" ELSE tag[p]]
               /\ ord' = [p \in Pages |-> IF p = i THEN o
                                          ELSE IF \E k \in o .. j - 1 : p = i + 2^k
                                               THEN CHOOSE k \in o .. j - 1 : p = i + 2^k ELSE ord[p]]
               /\ list' = [k \in Orders |-> IF k = j THEN Tail(list[j])
                                            ELSE IF k \in o .. j - 1 THEN <<i + 2^k>> ELSE list[k]]
               /\ used' = used \cup {i}

\* Out of memory; Buddy::alloc panics, its other callers pass the error on.
try_alloc_fails(o) ==
    /\ \A j \in o .. Order - 1 : list[j] = <<>>
    /\ UNCHANGED vars

\* Buddy::free of a block that a caller has.
free(i) ==
    /\ i \in used
    /\ Is(Merge(State, i, ord[i]))
    /\ used' = used \ {i}

\* The constructor frees the pages one by one; those before f_addr stay in
\* use and the index starts out as zeroes.
Filled ==
    LET f[p \in FirstIdx - 1 .. MaxIdx - 1] ==
            IF p = FirstIdx - 1
            THEN [tag |-> [x \in Pages |-> "used"], ord |-> [x \in Pages |-> 0],
                  list |-> [o \in Orders |-> <<>>]]
            ELSE Merge(f[p - 1], p, 0)
    IN  f[MaxIdx - 1]

Init ==
    /\ tag = Filled.tag /\ ord = Filled.ord /\ list = Filled.list
    /\ used = {}

Next ==
    \/ \E o \in Orders : try_alloc(o) \/ try_alloc_fails(o)
    \/ \E i \in used : free(i)

Spec == Init /\ [][Next]_vars
-----------------------------------------------------------------------------
(* Properties.                                                             *)

Free == UNION {{<<i, o>> : i \in Range(list[o])} : o \in Orders}

Taken == {<<i, ord[i]>> : i \in used}

\* The blocks that callers have and the blocks on the free lists are aligned
\* and never overlap, together they are the whole pool, and no two free
\* buddies are left unmerged: what is freed can be allocated again as the
\* largest block that fits.  The marks in the index that this rests on are
\* stale for the pages inside of a block.
PoolExact ==
    /\ \A x, y \in Free \cup Taken : x # y => Block(x[1], x[2]) \cap Block(y[1], y[2]) = {}
    /\ UNION {Block(x[1], x[2]) : x \in Free \cup Taken} = FirstIdx .. MaxIdx - 1
    /\ Free \cap Taken = {}
    /\ \A x \in Free \cup Taken : x[1] % 2^x[2] = 0
    /\ \A x \in Free : x[2] < Order - 1 => <<BuddyOf(x[1], x[2]), x[2]>> \notin Free
=============================================================================

----------------------------- MODULE PageTable -----------------------------
(***************************************************************************)
(* The page tables of include/generic_page_table.hpp, which CPUs walk and  *)
(* change without locks.  One step is one access to a page table entry     *)
(* (read, compare-and-swap or exchange) with the local work that follows;  *)
(* only the walk through a removed table (cleanup) is a single step.       *)
(* Addresses count pages (PAGE_BITS is 0), every address is mapped to the  *)
(* frame of the same number, so that a wrong offset shows, and the         *)
(* attributes are reduced to writable or not.                              *)
(***************************************************************************)
EXTENDS Naturals, Sequences, FiniteSets, SequencesExt

CONSTANTS CPUs,
          Tables,       \* page table pages
          Root,         \* the one of the top level
          BitsPerLevel,
          MaxLevels,
          LeafLevels,   \* the numbers of leaf_levels that are tried
          UserPages,    \* the pages that requests are about
          Concurrent    \* requests that may free tables run beside others

ASSUME TableAssumption ==
    /\ Tables \subseteq Nat /\ Root \in Tables
    /\ BitsPerLevel \in Nat \ {0} /\ MaxLevels \in Nat \ {0} /\ LeafLevels \subseteq 1..MaxLevels
    /\ 2^0 = 1 /\ \A o \in 0..(BitsPerLevel * MaxLevels) : 2^(o + 1) = 2 * 2^o

VARIABLES mem,         \* the entries of every table
          used,        \* the tables that are allocated
          leaf_levels,
          cpu          \* per CPU: request, position and result

vars == <<mem, used, leaf_levels, cpu>>
----------------------------------------------------------------------------
Entries == 0..(2^BitsPerLevel - 1)
Pages == 0..(2^(BitsPerLevel * MaxLevels) - 1)
NoPage == [to |-> 0, w |-> "-"]
Empty == [k |-> "none", to |-> 0, w |-> "-"]
Page(f, w) == [k |-> "page", to |-> f, w |-> w]
Table(t) == [k |-> "table", to |-> t, w |-> "w"]

level_order(l) == l * BitsPerLevel
virt_to_index(l, v) == (v \div 2^level_order(l)) % 2^BitsPerLevel
Block(v, o) == v..(v + 2^o - 1)

\* A request is aligned to its order.  An order of one or more may meet a
\* table where it writes a leaf entry, and free it.
Orders == 0..(BitsPerLevel * MaxLevels - 1)
Requests ==
    [kind : {"update"}, v : Pages, o : Orders, w : {"r", "w", "-"}]
        \cup [kind : {"replace"}, v : Pages, o : {0}, w : {"w"}]
        \cup [kind : {"lookup"}, v : Pages, o : {0}, w : {"-"}]
ValidRequests == {r \in Requests : Block(r.v, r.o) \subseteq UserPages /\ r.v % 2^r.o = 0}
NoRequest == [kind |-> "none", v |-> 0, o |-> 0, w |-> "-"]
present(r) == r.w # "-"
MayFree(r) == r.kind = "update" /\ r.o >= BitsPerLevel

\* What a request maps a page to; replace_readonly_page is used with a frame
\* that the caller allocated, here one above all others, a different one per CPU.
Frame(c, r, v) == IF r.kind = "replace" THEN 2^(BitsPerLevel * MaxLevels) + c ELSE v

modified_level(r) == IF r.kind = "update" THEN r.o \div BitsPerLevel ELSE 0
create(r) == r.kind = "replace" \/ present(r)

At(e, v) == IF e.k = "page" THEN [to |-> e.to + v, w |-> e.w] ELSE NoPage

\* The translation of a page as the hardware's walk and lookup() find it.
Walk(v) ==
    LET at[l \in 0..(MaxLevels - 1)] ==
            IF l = MaxLevels - 1 THEN [e |-> mem[Root][virt_to_index(l, v)], l |-> l]
            ELSE IF at[l + 1].e.k = "table"
                 THEN [e |-> mem[at[l + 1].e.to][virt_to_index(l, v)], l |-> l] ELSE at[l + 1]
    IN  at[0]
Translation(v) == At(Walk(v).e, v % 2^level_order(Walk(v).l))

is_superpage(l, e) == e.k = "page" /\ l > 0
\* Mutant: a table that replaces a superpage starts out empty.
SplitEmpty(l, e) == [i \in Entries |-> Empty]

fill_from_superpage(l, e) ==
    [i \in Entries |-> IF is_superpage(l, e) THEN Page(e.to + i * 2^level_order(l - 1), e.w) ELSE Empty]

\* All tables below a removed entry.
Below(e) ==
    LET below[n \in 0..MaxLevels] ==
            IF n = 0 THEN {e}
            ELSE below[n - 1] \cup UNION {{mem[x.to][i] : i \in Entries} : x \in {y \in below[n - 1] : y.k = "table"}}
    IN  below[MaxLevels]
----------------------------------------------------------------------------
Resting == [pc |-> "idle", r |-> NoRequest, t |-> Root, l |-> MaxLevels - 1, old |-> Empty, new |-> Empty,
            todo |-> <<>>, flush |-> FALSE, lost |-> FALSE, res |-> NoPage, failed |-> FALSE]

Init ==
    /\ leaf_levels \in LeafLevels
    /\ mem = [t \in Tables |-> [i \in Entries |-> Empty]]
    /\ used = {Root}
    /\ cpu = [c \in CPUs |-> Resting]

Go(c, s) == cpu' = [cpu EXCEPT ![c] = s]
Index(c) == virt_to_index(cpu[c].l, cpu[c].r.v)
Read(c) == mem[cpu[c].t][Index(c)]
\* The allocator hands out any free page; which one makes no difference.
NewTable == Min(Tables \ used)
Busy == {c \in CPUs : cpu[c].pc # "idle"}

\* Reaching the end of a call.
Done(s) == [s EXCEPT !.pc = "done", !.t = Root, !.l = 0, !.old = Empty]

\* The entries of a table that a mapping covers, in ascending order.
FillJobs(t, l, v, o) ==
    [i \in 1..2^(o - level_order(l)) |-> [t |-> t, l |-> l, v |-> v + (i - 1) * 2^level_order(l)]]

\* The walk has reached the level it was to reach.
Arrive(s) ==
    IF s.l > modified_level(s.r) THEN s
    ELSE IF s.r.kind = "replace" THEN [s EXCEPT !.pc = "replace"]
    ELSE [s EXCEPT !.pc = "fill", !.todo = FillJobs(s.t, s.l, s.r.v, s.r.o), !.t = Root, !.l = 0]

Descend(s, t) == Arrive([s EXCEPT !.pc = "walk", !.t = t, !.l = s.l - 1, !.old = Empty, !.new = Empty])

\* update, replace_readonly_page or lookup is called.
Begin(c) ==
    /\ cpu[c].pc = "idle"
    /\ \E r \in ValidRequests :
        /\ Concurrent \/ Busy = {} \/ ~ (MayFree(r) \/ \E d \in Busy : MayFree(cpu[d].r))
        /\ Go(c, IF r.kind = "lookup" THEN [Resting EXCEPT !.pc = "lookup", !.r = r]
                 ELSE Arrive([Resting EXCEPT !.pc = "walk", !.r = r]))
    /\ UNCHANGED <<mem, used, leaf_levels>>

\* One level of walk_down_and_split: the read.
WalkDown(c) ==
    /\ cpu[c].pc = "walk" /\ cpu[c].l > modified_level(cpu[c].r)
    /\ Read(c).k = "table"
    /\ Go(c, Descend(cpu[c], Read(c).to))
    /\ UNCHANGED <<mem, used, leaf_levels>>

\* Nothing is mapped and nothing is to be.
WalkNothing(c) ==
    /\ cpu[c].pc = "walk" /\ cpu[c].l > modified_level(cpu[c].r)
    /\ Read(c) = Empty /\ ~ create(cpu[c].r)
    /\ Go(c, Done(cpu[c]))
    /\ UNCHANGED <<mem, used, leaf_levels>>

NeedsTable(c) ==
    /\ cpu[c].pc = "walk" /\ cpu[c].l > modified_level(cpu[c].r)
    /\ Read(c).k # "table" /\ (Read(c) # Empty \/ create(cpu[c].r))

WalkOutOfMemory(c) ==
    /\ NeedsTable(c) /\ cpu[c].r.kind = "update"
    /\ Go(c, [Done(cpu[c]) EXCEPT !.failed = TRUE])
    /\ UNCHANGED <<mem, used, leaf_levels>>

\* A new table is filled with what the entry mapped before it is installed.
WalkAlloc(c) ==
    /\ NeedsTable(c) /\ Tables # used
    /\ LET t == NewTable IN
        /\ used' = used \cup {t}
        /\ mem' = [mem EXCEPT ![t] = fill_from_superpage(cpu[c].l, Read(c))]
        /\ Go(c, [cpu[c] EXCEPT !.pc = "split", !.old = Read(c), !.new = Table(t),
                                !.flush = @ \/ is_superpage(cpu[c].l, Read(c))])
    /\ UNCHANGED leaf_levels

\* Mutant: the loser of the race keeps its table.
InstallAnyway(c) ==
    /\ cpu[c].pc = "split"
    /\ mem' = [mem EXCEPT ![cpu[c].t][Index(c)] = cpu[c].new]
    /\ Go(c, Descend(cpu[c], cpu[c].new.to))
    /\ UNCHANGED <<used, leaf_levels>>

\* The compare-and-swap; one that fails frees the table and starts over.
WalkInstall(c) ==
    /\ cpu[c].pc = "split"
    /\ IF Read(c) = cpu[c].old
       THEN /\ mem' = [mem EXCEPT ![cpu[c].t][Index(c)] = cpu[c].new]
            /\ Go(c, Descend(cpu[c], cpu[c].new.to))
            /\ UNCHANGED used
       ELSE /\ Go(c, [cpu[c] EXCEPT !.pc = "walk", !.old = Empty, !.new = Empty])
            /\ used' = used \ {cpu[c].new.to}
            /\ mem' = [mem EXCEPT ![cpu[c].new.to] = [i \in Entries |-> Empty]]
    /\ UNCHANGED leaf_levels
----------------------------------------------------------------------------
Job(c) == Head(cpu[c].todo)
JobEntry(c) == mem[Job(c).t][virt_to_index(Job(c).l, Job(c).v)]
\* fill_entries writes a leaf here, or has to go down one more level.
WritesLeaf(c) == Job(c).l < leaf_levels \/ ~ present(cpu[c].r)
NextJob(c) == [cpu[c] EXCEPT !.todo = Tail(@), !.old = Empty, !.pc = IF Len(cpu[c].todo) = 1 THEN "done" ELSE "fill"]
\* `lost' records that a translation has gone or changed under this request.
Changes(c, P) == cpu[c].lost \/ \E p \in P : Translation(p) # NoPage /\ Translation(p)' # Translation(p)

FillLeaf(c) ==
    /\ cpu[c].pc = "fill" /\ cpu[c].todo # <<>> /\ WritesLeaf(c)
    /\ mem' = [mem EXCEPT ![Job(c).t][virt_to_index(Job(c).l, Job(c).v)] =
                 IF present(cpu[c].r) THEN Page(Job(c).v, cpu[c].r.w) ELSE Empty]
    /\ Go(c, [cpu[c] EXCEPT !.pc = "cleanup", !.old = JobEntry(c), !.lost = Changes(c, Pages)])
    /\ UNCHANGED <<used, leaf_levels>>

\* free_later() of Tlb_cleanup gives the pages back to the allocator at once.
free_later(T) ==
    /\ used' = used \ T
    /\ mem' = [t \in Tables |-> IF t \in T THEN [i \in Entries |-> Empty] ELSE mem[t]]

\* Mutant: only removed tables, not removed pages, ask for a flush.
CleanupTablesOnly(c) ==
    LET gone == {x.to : x \in {y \in Below(cpu[c].old) : y.k = "table"}}
    IN  /\ cpu[c].pc = "cleanup"
        /\ free_later(gone)
        /\ Go(c, [NextJob(c) EXCEPT !.flush = @ \/ gone # {}])
        /\ UNCHANGED leaf_levels

\* cleanup() of the entry that was replaced.
cleanup(c) ==
    LET gone == {x.to : x \in {y \in Below(cpu[c].old) : y.k = "table"}}
    IN  /\ cpu[c].pc = "cleanup"
        /\ free_later(gone)
        /\ Go(c, [NextJob(c) EXCEPT !.flush = @ \/ cpu[c].old # Empty])
        /\ UNCHANGED leaf_levels

\* No leaf is allowed at this level: go down into the table that is there,
FillDown(c) ==
    /\ cpu[c].pc = "fill" /\ cpu[c].todo # <<>> /\ ~ WritesLeaf(c) /\ JobEntry(c).k = "table"
    /\ Go(c, [cpu[c] EXCEPT !.todo = FillJobs(JobEntry(c).to, Job(c).l - 1, Job(c).v, level_order(Job(c).l))
                                      \o Tail(@)])
    /\ UNCHANGED <<mem, used, leaf_levels>>

\* or create one; running out of memory here stops the kernel.
FillAlloc(c) ==
    /\ cpu[c].pc = "fill" /\ cpu[c].todo # <<>> /\ ~ WritesLeaf(c) /\ JobEntry(c) = Empty /\ Tables # used
    /\ LET t == NewTable IN
        /\ used' = used \cup {t}
        /\ Go(c, [cpu[c] EXCEPT !.pc = "install", !.old = JobEntry(c), !.new = Table(t)])
    /\ UNCHANGED <<mem, leaf_levels>>

FillInstall(c) ==
    /\ cpu[c].pc = "install"
    /\ Go(c, [cpu[c] EXCEPT !.pc = "fill", !.old = Empty, !.new = Empty])
    /\ IF JobEntry(c) = cpu[c].old
       THEN mem' = [mem EXCEPT ![Job(c).t][virt_to_index(Job(c).l, Job(c).v)] = cpu[c].new] /\ UNCHANGED used
       ELSE used' = used \ {cpu[c].new.to} /\ UNCHANGED mem
    /\ UNCHANGED leaf_levels
----------------------------------------------------------------------------
\* replace_readonly_page after its walk: read, and maybe compare-and-swap.
ReplaceEntry(c) == Page(Frame(c, cpu[c].r, cpu[c].r.v), "w")

ReplaceRead(c) ==
    /\ cpu[c].pc = "replace"
    /\ IF Read(c).w = "w" THEN Go(c, [Done(cpu[c]) EXCEPT !.res = At(Read(c), 0)])
       ELSE Go(c, [cpu[c] EXCEPT !.pc = "swap", !.old = Read(c)])
    /\ UNCHANGED <<mem, used, leaf_levels>>

ReplaceSwap(c) ==
    /\ cpu[c].pc = "swap"
    /\ IF Read(c) = cpu[c].old
       THEN /\ mem' = [mem EXCEPT ![cpu[c].t][Index(c)] = ReplaceEntry(c)]
            /\ Go(c, [Done(cpu[c]) EXCEPT !.res = At(ReplaceEntry(c), 0)])
       ELSE Go(c, [cpu[c] EXCEPT !.pc = "replace", !.old = Empty]) /\ UNCHANGED mem
    /\ UNCHANGED <<used, leaf_levels>>

\* lookup(): one level.
lookup(c) ==
    /\ cpu[c].pc = "lookup"
    /\ IF Read(c).k = "table"
       THEN Go(c, [cpu[c] EXCEPT !.t = Read(c).to, !.l = @ - 1])
       ELSE Go(c, [Done(cpu[c]) EXCEPT !.res = At(Read(c), cpu[c].r.v % 2^level_order(cpu[c].l))])
    /\ UNCHANGED <<mem, used, leaf_levels>>

\* The call returns: the caller looks at the result and at the flush flag.
Return(c) == cpu[c].pc = "done" /\ Go(c, Resting) /\ UNCHANGED <<mem, used, leaf_levels>>

Next == \E c \in CPUs :
    \/ Begin(c) \/ WalkDown(c) \/ WalkNothing(c) \/ WalkOutOfMemory(c) \/ WalkAlloc(c)
    \/ WalkInstall(c) \/ FillLeaf(c) \/ cleanup(c) \/ FillDown(c) \/ FillAlloc(c) \/ FillInstall(c)
    \/ ReplaceRead(c) \/ ReplaceSwap(c) \/ lookup(c) \/ Return(c)

Spec == Init /\ [][Next]_vars
----------------------------------------------------------------------------
\* The pages that a request has still to write, which the refinement needs.
Left(c) ==
    LET s == cpu[c]
        Todo(jobs) == UNION {Block(jobs[i].v, level_order(jobs[i].l)) : i \in DOMAIN jobs}
    IN  CASE s.pc = "done" -> IF s.failed THEN Block(s.r.v, s.r.o) ELSE {}
          [] s.pc = "cleanup" -> Todo(Tail(s.todo))
          [] s.pc \in {"fill", "install"} -> Todo(s.todo)
          [] s.pc = "idle" -> {}
          [] OTHER -> Block(s.r.v, s.r.o)

AbstractRequest(c, r) ==
    [kind |-> r.kind, pages |-> Block(r.v, r.o), w |-> r.w, cpu |-> c]
AbstractIdle == [kind |-> "none", pages |-> {}, w |-> "-", cpu |-> 0]

PM == INSTANCE PageMap WITH
    Idle <- AbstractIdle,
    Requests <- {AbstractRequest(c, r) : c \in CPUs, r \in ValidRequests},
    Value <- LAMBDA r, p : IF r.w = "-" THEN NoPage ELSE [to |-> Frame(r.cpu, r, p), w |-> r.w],
    Writable <- LAMBDA x : x.w = "w",
    map <- [p \in Pages |-> Translation(p)],
    req <- [c \in CPUs |-> IF cpu[c].pc = "idle" THEN AbstractIdle ELSE AbstractRequest(c, cpu[c].r)],
    left <- [c \in CPUs |-> Left(c)],
    res <- [c \in CPUs |-> cpu[c].res]

\* The page tables implement the map: splitting superpages, creating and
\* removing tables and lost races are invisible, every page changes once and
\* to what was asked, a failed update has changed nothing, and lookup and
\* replace return what the map held at one moment of the call.
ImplementsMap == PM!MSpec

\* update() asks for a TLB flush whenever a translation that existed has gone
\* or changed under it, whether it succeeded or not.
FlushReported == \A c \in CPUs : cpu[c].pc = "done" /\ cpu[c].lost => cpu[c].flush

\* "all public interfaces can be safely used without synchronization": no CPU
\* is about to use a table that has been given back to the allocator.
TablesHeld == \A c \in CPUs :
    /\ cpu[c].pc \in {"walk", "split", "replace", "swap", "lookup"} => cpu[c].t \in used
    /\ cpu[c].pc \in {"fill", "install"} => \A i \in DOMAIN cpu[c].todo : cpu[c].todo[i].t \in used

\* Tables are not leaked: what is allocated hangs off the root or is about to
\* be linked or freed by a CPU.
NoLeak ==
    used = {Root} \cup {x.to : x \in {y \in Below(Table(Root)) \cup {cpu[c].new : c \in {d \in CPUs : cpu[d].pc \in {"split", "install"}}}
                                              \cup UNION {Below(cpu[c].old) : c \in {d \in CPUs : cpu[d].pc = "cleanup"}} : y.k = "table"}}
=============================================================================

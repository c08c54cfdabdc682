-------------------------- MODULE PageTableProofs --------------------------
(***************************************************************************)
(* Proofs about PageTable, for every number of CPUs, levels and entries:   *)
(* an update never forgets to ask for a flush, whatever runs beside it,    *)
(* and when updates that may free tables run alone no table is leaked and  *)
(* none is used after it was given back.                                   *)
(***************************************************************************)
EXTENDS PageTable, WellFoundedInduction, TLAPS

LEMMA Smallest ==
    ASSUME NEW S, S \subseteq Nat, S # {}
    PROVE  \E n \in S : \A m \in S : n <= m
  <1> DEFINE Less == {ss \in Nat \X Nat : ss[1] < ss[2]}
  <1>1. IsWellFoundedOn(Less, Nat)
    BY NatLessThanWellFounded DEF OpToRel
  <1> HIDE DEF Less
  <1>2. \E n \in S : \A m \in S : ~ (<<m, n>> \in Less)
    BY <1>1, WFMin
  <1>3. ASSUME NEW m \in Nat, NEW n \in Nat, m < n PROVE <<m, n>> \in Less
    BY <1>3 DEF Less
  <1>4. \A m \in Nat, n \in Nat : ~(m < n) => n <= m
    OBVIOUS
  <1> QED
    BY <1>2, <1>3, <1>4

LEMMA Powers == \A o \in 0..(BitsPerLevel * MaxLevels) : 2^o \in Nat \ {0}
  <1> DEFINE B == BitsPerLevel * MaxLevels
             Bad == {o \in 0..B : 2^o \notin Nat \ {0}}
  <1> SUFFICES ASSUME Bad # {} PROVE FALSE
    OBVIOUS
  <1>1. B \in Nat /\ 2^0 = 1 /\ \A o \in 0..B : 2^(o + 1) = 2 * 2^o
    BY TableAssumption
  <1> HIDE DEF B
  <1>2. PICK n \in Bad : \A m \in Bad : n <= m
    BY <1>1, Smallest, Bad \subseteq Nat
  <1>3. n \in 0..B /\ n # 0
    <2>1. 2^0 \in Nat \ {0}
      BY <1>1
    <2>2. 0 \notin Bad
      BY <2>1
    <2> QED
      BY <2>2
  <1>4. n - 1 \in 0..B /\ ~ (n <= n - 1) /\ (n - 1) + 1 = n
    BY <1>1, <1>3
  <1>5. 2^(n - 1) \in Nat \ {0}
    BY <1>2, <1>4
  <1>6. 2^n = 2 * 2^(n - 1)
    BY <1>1, <1>4
  <1>7. 2^n \in Nat \ {0}
    BY <1>5, <1>6
  <1> QED
    BY <1>7

\* virt_to_index stays inside a table.
LEMMA IndexIsEntry ==
    ASSUME NEW l \in 0..(MaxLevels - 1), NEW v \in Nat
    PROVE  virt_to_index(l, v) \in Entries
  <1> DEFINE a == 2^level_order(l)
             b == 2^BitsPerLevel
  <1>1. BitsPerLevel \in Nat /\ MaxLevels \in Nat \ {0} /\ l \in Nat /\ l < MaxLevels
    BY TableAssumption
  <1>2. BitsPerLevel * l <= BitsPerLevel * MaxLevels /\ BitsPerLevel * 1 <= BitsPerLevel * MaxLevels
    BY <1>1
  <1>3. level_order(l) \in 0..(BitsPerLevel * MaxLevels) /\ BitsPerLevel \in 0..(BitsPerLevel * MaxLevels)
    BY <1>1, <1>2 DEF level_order
  <1>4. a \in Nat \ {0} /\ b \in Nat \ {0}
    BY <1>3, Powers
  <1> HIDE DEF a, b
  <1>5. v \div a \in Nat
    BY <1>4
  <1>6. (v \div a) % b \in 0..(b - 1)
    BY <1>4, <1>5
  <1> QED
    BY <1>6 DEF a, b, virt_to_index, Entries

-----------------------------------------------------------------------------
(* The walk of the hardware, in a given memory.                            *)

\* Tables have entries that are empty, pages or existing tables.
Shape(m) ==
    /\ m = [t \in Tables |-> [i \in Entries |-> m[t][i]]]
    /\ \A t \in Tables, i \in Entries : m[t][i].k = "table" => m[t][i].to \in Tables

Top == MaxLevels - 1
Step(m, v, l, x) == IF x.e.k = "table" THEN [e |-> m[x.e.to][virt_to_index(l, v)], l |-> l] ELSE x
First(m, v) == [e |-> m[Root][virt_to_index(Top, v)], l |-> Top]

\* f holds what the walk has found at level l and above.
Found(m, v, l, f) ==
    f = [k \in l..Top |-> IF k = Top THEN First(m, v) ELSE Step(m, v, k, f[k + 1])]

WalkIn(m, v) ==
    LET at[l \in 0..(MaxLevels - 1)] ==
            IF l = MaxLevels - 1 THEN [e |-> m[Root][virt_to_index(l, v)], l |-> l]
            ELSE IF at[l + 1].e.k = "table"
                 THEN [e |-> m[at[l + 1].e.to][virt_to_index(l, v)], l |-> l] ELSE at[l + 1]
    IN  at[0]

\* The recursive function in Walk exists and does what its definition says.
LEMMA WalkUnfolds ==
    ASSUME NEW m, NEW v
    PROVE  \E f : Found(m, v, 0, f) /\ WalkIn(m, v) = f[0]
  <1>1. Top \in Nat
    BY TableAssumption DEF Top
  <1> DEFINE Bad == {n \in 0..Top : ~ \E f : Found(m, v, Top - n, f)}
  <1>2. Bad = {}
    <2> SUFFICES ASSUME Bad # {} PROVE FALSE
      OBVIOUS
    <2>1. PICK n \in Bad : \A j \in Bad : n <= j
      BY <1>1, Smallest, Bad \subseteq Nat
    <2>2. n # 0
      <3>1. Found(m, v, Top - 0, [k \in (Top - 0)..Top |-> First(m, v)])
        BY <1>1 DEF Found
      <3> QED
        BY <3>1
    <2>3. n \in 0..Top /\ n - 1 \in 0..Top /\ ~ (n <= n - 1)
      BY <1>1, <2>2
    <2>4. n - 1 \notin Bad
      <3> HIDE DEF Bad
      <3> QED
        BY <2>1, <2>3
    <2>5. PICK f : Found(m, v, Top - (n - 1), f)
      BY <2>3, <2>4
    <2> DEFINE g == [k \in (Top - n)..Top |-> IF k = Top - n THEN Step(m, v, k, f[k + 1]) ELSE f[k]]
    <2>6. g = [k \in (Top - n)..Top |-> IF k = Top THEN First(m, v) ELSE Step(m, v, k, g[k + 1])]
      <3> SUFFICES ASSUME NEW k \in (Top - n)..Top
                   PROVE  g[k] = IF k = Top THEN First(m, v) ELSE Step(m, v, k, g[k + 1])
        OBVIOUS
      <3>1. CASE k = Top - n
        <4>1. k # Top /\ k + 1 \in (Top - n)..Top /\ k + 1 # Top - n
          BY <1>1, <2>2, <2>3, <3>1
        <4> QED
          BY <3>1, <4>1
      <3>2. CASE k # Top - n
        <4>1. k \in (Top - (n - 1))..Top
          BY <1>1, <2>3, <3>2
        <4>2. f[k] = IF k = Top THEN First(m, v) ELSE Step(m, v, k, f[k + 1])
          BY <2>5, <4>1 DEF Found
        <4>3. k # Top => k + 1 \in (Top - n)..Top /\ k + 1 # Top - n
          BY <1>1, <2>3, <4>1
        <4> QED
          BY <3>2, <4>2, <4>3
      <3> QED
        BY <3>1, <3>2
    <2>7. Found(m, v, Top - n, g)
      BY <2>6 DEF Found
    <2> QED
      BY <2>1, <2>7
  <1>3. PICK f : Found(m, v, 0, f)
    <2>1. Top \in 0..Top /\ Top \notin Bad /\ Top - Top = 0
      BY <1>1, <1>2
    <2> QED
      BY <2>1
  <1> DEFINE Rec(at) == at = [l \in 0..(MaxLevels - 1) |->
                 IF l = MaxLevels - 1 THEN [e |-> m[Root][virt_to_index(l, v)], l |-> l]
                 ELSE IF at[l + 1].e.k = "table"
                      THEN [e |-> m[at[l + 1].e.to][virt_to_index(l, v)], l |-> l] ELSE at[l + 1]]
  <1>4. ASSUME NEW at PROVE Rec(at) <=> Found(m, v, 0, at)
    BY DEF Found, First, Step, Top
  <1>5. Rec(CHOOSE at : Rec(at))
    <2>1. \E at : Rec(at)
      BY <1>3, <1>4
    <2> HIDE DEF Rec
    <2> QED
      BY <2>1
  <1>6. WalkIn(m, v) = (CHOOSE at : Rec(at))[0]
    BY DEF WalkIn
  <1> HIDE DEF Rec
  <1> QED
    BY <1>4, <1>5, <1>6

\* Writing to empty entries changes no translation that exists: a walk that
\* meets such an entry has found nothing.
LEMMA EmptyEntryUnused ==
    ASSUME NEW m, Shape(m), NEW n, NEW v \in Nat,
           \A t \in Tables, i \in Entries : n[t][i] = m[t][i] \/ m[t][i] = Empty
    PROVE  WalkIn(n, v) = WalkIn(m, v) \/ WalkIn(m, v).e = Empty
  <1>1. Top \in Nat /\ Root \in Tables
    BY TableAssumption DEF Top
  <1>3. PICK f : Found(m, v, 0, f) /\ WalkIn(m, v) = f[0]
    BY WalkUnfolds
  <1>4. PICK g : Found(n, v, 0, g) /\ WalkIn(n, v) = g[0]
    BY WalkUnfolds
  <1> DEFINE Same(l) == /\ f[l].e.k = "table" => f[l].e.to \in Tables
                        /\ g[l] = f[l] \/ f[l].e = Empty
             Bad == {k \in 0..Top : ~ Same(Top - k)}
  <1>5. Bad = {}
    <2> SUFFICES ASSUME Bad # {} PROVE FALSE
      OBVIOUS
    <2>1. PICK k \in Bad : \A j \in Bad : k <= j
      BY <1>1, Smallest, Bad \subseteq Nat
    <2>2. Same(Top)
      <3>1. f[Top] = First(m, v) /\ g[Top] = First(n, v)
        BY <1>1, <1>3, <1>4 DEF Found
      <3>2. virt_to_index(Top, v) \in Entries
        BY <1>1, IndexIsEntry DEF Top
      <3> QED
        BY <1>1, <3>1, <3>2 DEF First, Shape
    <2>3. k # 0
      <3>1. k = 0 => Top - k = Top
        BY <1>1
      <3> QED
        BY <2>1, <2>2, <3>1
    <2>4. k \in 0..Top /\ k - 1 \in 0..Top /\ ~ (k <= k - 1)
      BY <1>1, <2>3
    <2>5. k - 1 \notin Bad
      <3> HIDE DEF Bad
      <3> QED
        BY <2>1, <2>4
    <2> DEFINE l == Top - k
    <2>6. l \in 0..Top /\ l # Top /\ l \in Nat /\ Top - (k - 1) = l + 1
      BY <1>1, <2>3, <2>4
    <2>7. Same(l + 1)
      BY <2>4, <2>5, <2>6
    <2> HIDE DEF l
    <2>8. f[l] = Step(m, v, l, f[l + 1]) /\ g[l] = Step(n, v, l, g[l + 1])
      BY <1>3, <1>4, <2>6 DEF Found
    <2>9. virt_to_index(l, v) \in Entries
      BY <2>6, IndexIsEntry DEF Top
    <2>10. Same(l)
      <3>1. CASE f[l + 1].e = Empty
        BY <2>8, <3>1 DEF Step, Empty
      <3>2. CASE g[l + 1] = f[l + 1] /\ f[l + 1].e.k # "table"
        BY <2>8, <3>2 DEF Step
      <3>3. CASE g[l + 1] = f[l + 1] /\ f[l + 1].e.k = "table"
        <4>1. f[l + 1].e.to \in Tables
          BY <2>7, <3>3
        <4> QED
          BY <2>8, <2>9, <3>3, <4>1 DEF Step, Shape
      <3> QED
        BY <2>7, <3>1, <3>2, <3>3
    <2> QED
      BY <2>1, <2>10 DEF l
  <1>6. Same(0)
    <2>1. Top \in 0..Top /\ Top \notin Bad /\ Top - Top = 0
      BY <1>1, <1>5
    <2> QED
      BY <2>1
  <1> QED
    BY <1>3, <1>4, <1>6

-----------------------------------------------------------------------------
(* The flush flag.                                                         *)

\* A request in progress is a record with all its fields, and the table that it
\* is about to install exists.
InProgress(s) ==
    /\ s \in [pc : {s.pc}, r : {s.r}, t : {s.t}, l : {s.l}, old : {s.old}, new : {s.new}, todo : {s.todo},
              flush : BOOLEAN, lost : BOOLEAN, res : {s.res}, failed : BOOLEAN]
    /\ s.new.k = "table" => s.new.to \in Tables

\* A translation is gone: the flush is asked for, or the entry that held it is
\* about to be cleaned up.
Pending(s) == s.lost => s.flush \/ (s.pc = "cleanup" /\ s.old # Empty)

IInv ==
    /\ Shape(mem)
    /\ used \subseteq Tables
    /\ cpu = [c \in CPUs |-> cpu[c]]
    /\ \A c \in CPUs : InProgress(cpu[c]) /\ Pending(cpu[c])

\* A step in which one CPU goes on to s.
LEMMA OneGoes ==
    ASSUME IInv, NEW c \in CPUs, NEW s, Go(c, s), InProgress(s), Pending(s), Shape(mem)', used' \subseteq Tables
    PROVE  IInv'
  <1>1. cpu' = [d \in CPUs |-> IF d = c THEN s ELSE cpu[d]]
    BY DEF Go, IInv
  <1>2. \A d \in CPUs : cpu'[d] = s \/ cpu'[d] = cpu[d]
    BY <1>1
  <1>3. cpu' = [d \in CPUs |-> cpu'[d]]
    BY <1>1
  <1> QED
    BY <1>2, <1>3 DEF IInv

\* Reaching the end of the walk or of the call keeps what is pending.
LEMMA Moves ==
    ASSUME NEW s, InProgress(s), Pending(s), s.pc # "cleanup"
    PROVE  /\ InProgress(Arrive(s)) /\ Pending(Arrive(s))
           /\ \A t : InProgress(Descend(s, t)) /\ Pending(Descend(s, t))
           /\ InProgress(Done(s)) /\ Pending(Done(s))
  <1>1. ASSUME NEW u, InProgress(u), Pending(u), u.pc # "cleanup" PROVE InProgress(Arrive(u)) /\ Pending(Arrive(u))
    BY <1>1 DEF Arrive, InProgress, Pending
  <1>2. ASSUME NEW t PROVE InProgress(Descend(s, t)) /\ Pending(Descend(s, t))
    <2> DEFINE u == [s EXCEPT !.pc = "walk", !.t = t, !.l = s.l - 1, !.old = Empty, !.new = Empty]
    <2>1. InProgress(u) /\ Pending(u) /\ u.pc # "cleanup"
      BY DEF InProgress, Pending, Empty
    <2> HIDE DEF u
    <2>2. InProgress(Arrive(u)) /\ Pending(Arrive(u))
      BY <1>1, <2>1
    <2> QED
      BY <2>2 DEF Descend, u
  <1>3. InProgress(Done(s)) /\ Pending(Done(s))
    BY DEF Done, InProgress, Pending
  <1> QED
    BY <1>1, <1>2, <1>3

\* Writing one entry keeps the shape of the tables.
LEMMA WriteKeepsShape ==
    ASSUME NEW m, Shape(m), NEW t, NEW i, NEW x, x.k = "table" => x.to \in Tables
    PROVE  Shape([m EXCEPT ![t][i] = x])
  BY DEF Shape

\* A new table is one that is free.
LEMMA NewIsFree ==
    ASSUME used \subseteq Tables, Tables # used
    PROVE  NewTable \in Tables \ used
  <1>1. \E n \in Tables \ used : \A m \in Tables \ used : n <= m
    BY TableAssumption, Smallest, Tables \ used # {}, Tables \ used \subseteq Nat
  <1> QED
    BY <1>1 DEF NewTable, Min

LEMMA InitHolds == Init => IInv
  <1> SUFFICES ASSUME Init PROVE IInv
    OBVIOUS
  <1>1. Shape(mem)
    BY DEF Init, Shape, Empty
  <1>2. InProgress(Resting) /\ Pending(Resting)
    BY DEF InProgress, Pending, Resting, Empty
  <1> QED
    BY <1>1, <1>2, TableAssumption DEF Init, IInv

\* A leaf is written over an entry that was not empty, or nothing is lost.
LEMMA LeafOverEmpty ==
    ASSUME IInv, NEW c \in CPUs, FillLeaf(c), JobEntry(c) = Empty, NEW p \in Pages
    PROVE  Translation(p) = NoPage \/ Translation(p)' = Translation(p)
  <1> DEFINE t == Job(c).t
             i == virt_to_index(Job(c).l, Job(c).v)
             x == IF present(cpu[c].r) THEN Page(Job(c).v, cpu[c].r.w) ELSE Empty
  <1>1. mem' = [mem EXCEPT ![t][i] = x] /\ mem[t][i] = Empty
    BY DEF FillLeaf, JobEntry
  <1>2. p \in Nat
    BY DEF Pages
  <1> HIDE DEF t, i, x
  <1>3. WalkIn(mem', p) = WalkIn(mem, p) \/ WalkIn(mem, p).e = Empty
    <2>1. Shape(mem)
      BY DEF IInv
    <2>2. \A s \in Tables, j \in Entries : mem'[s][j] = mem[s][j] \/ mem[s][j] = Empty
      BY <1>1, <2>1 DEF Shape
    <2> QED
      BY <1>2, <2>1, <2>2, EmptyEntryUnused
  <1>4. Walk(p) = WalkIn(mem, p)
    BY DEF Walk, WalkIn
  <1>5. Walk(p)' = WalkIn(mem', p)
    BY DEF Walk, WalkIn
  <1>6. CASE WalkIn(mem, p).e = Empty
    BY <1>4, <1>6 DEF Translation, At, Empty
  <1>7. CASE WalkIn(mem', p) = WalkIn(mem, p)
    BY <1>4, <1>5, <1>7 DEF Translation
  <1> QED
    BY <1>3, <1>6, <1>7

LEMMA NextKeeps ==
    ASSUME IInv, [Next]_vars
    PROVE  IInv'
  <1>1. CASE UNCHANGED vars
    BY <1>1 DEF vars, IInv
  <1>2. ASSUME NEW c \in CPUs, Begin(c) PROVE IInv'
    <2>1. PICK r : Go(c, IF r.kind = "lookup" THEN [Resting EXCEPT !.pc = "lookup", !.r = r]
                         ELSE Arrive([Resting EXCEPT !.pc = "walk", !.r = r]))
      BY <1>2 DEF Begin
    <2> DEFINE u == [Resting EXCEPT !.pc = "walk", !.r = r]
               w == [Resting EXCEPT !.pc = "lookup", !.r = r]
    <2>2. /\ InProgress(u) /\ Pending(u) /\ u.pc # "cleanup"
          /\ InProgress(w) /\ Pending(w)
      BY DEF Resting, InProgress, Pending, Empty
    <2> HIDE DEF u, w
    <2>3. InProgress(Arrive(u)) /\ Pending(Arrive(u))
      BY <2>2, Moves
    <2>4. Shape(mem)' /\ used' \subseteq Tables
      BY <1>2 DEF Begin, IInv
    <2>5. Go(c, IF r.kind = "lookup" THEN w ELSE Arrive(u))
      BY <2>1 DEF u, w
    <2> QED
      BY <2>2, <2>3, <2>4, <2>5, OneGoes
  <1>3. ASSUME NEW c \in CPUs, WalkDown(c) \/ WalkNothing(c) \/ WalkOutOfMemory(c) PROVE IInv'
    <2>1. Shape(mem)' /\ used' \subseteq Tables
      BY <1>3 DEF WalkDown, WalkNothing, WalkOutOfMemory, IInv
    <2>2. InProgress(cpu[c]) /\ Pending(cpu[c]) /\ cpu[c].pc # "cleanup"
      BY <1>3 DEF WalkDown, WalkNothing, WalkOutOfMemory, NeedsTable, IInv
    <2>3. InProgress(Done(cpu[c])) /\ Pending(Done(cpu[c])) /\ \A t : InProgress(Descend(cpu[c], t)) /\ Pending(Descend(cpu[c], t))
      BY <2>2, Moves
    <2>4. InProgress([Done(cpu[c]) EXCEPT !.failed = TRUE]) /\ Pending([Done(cpu[c]) EXCEPT !.failed = TRUE])
      BY <2>3 DEF InProgress, Pending
    <2>5. CASE WalkDown(c)
      BY <2>1, <2>3, <2>5, OneGoes DEF WalkDown
    <2>6. CASE WalkNothing(c)
      BY <2>1, <2>3, <2>6, OneGoes DEF WalkNothing
    <2>7. CASE WalkOutOfMemory(c)
      BY <2>1, <2>4, <2>7, OneGoes DEF WalkOutOfMemory
    <2> QED
      BY <1>3, <2>5, <2>6, <2>7
  <1>4. ASSUME NEW c \in CPUs, WalkAlloc(c) PROVE IInv'
    <2> DEFINE t == NewTable
               s == [cpu[c] EXCEPT !.pc = "split", !.old = Read(c), !.new = Table(t),
                                   !.flush = @ \/ is_superpage(cpu[c].l, Read(c))]
               f == fill_from_superpage(cpu[c].l, Read(c))
    <2>1. t \in Tables
      BY <1>4, NewIsFree DEF WalkAlloc, IInv
    <2>2. mem' = [mem EXCEPT ![t] = f] /\ used' = used \cup {t} /\ Go(c, s)
      BY <1>4 DEF WalkAlloc
    <2>3. f = [i \in Entries |-> f[i]] /\ \A i \in Entries : f[i].k # "table"
      BY DEF fill_from_superpage, Page, Empty
    <2>4. InProgress(s) /\ Pending(s)
      <3>1. InProgress(cpu[c]) /\ Pending(cpu[c]) /\ cpu[c].pc = "walk"
        BY <1>4 DEF WalkAlloc, NeedsTable, IInv
      <3> QED
        BY <2>1, <3>1 DEF InProgress, Pending, Table
    <2> HIDE DEF t, s, f
    <2>5. Shape(mem)'
      BY <2>1, <2>2, <2>3 DEF Shape, IInv
    <2>6. used' \subseteq Tables
      BY <2>1, <2>2 DEF IInv
    <2> QED
      BY <2>2, <2>4, <2>5, <2>6, OneGoes
  <1>5. ASSUME NEW c \in CPUs, WalkInstall(c) PROVE IInv'
    <2>1. InProgress(cpu[c]) /\ Pending(cpu[c]) /\ cpu[c].pc = "split"
      BY <1>5 DEF WalkInstall, IInv
    <2>2. CASE Read(c) = cpu[c].old
      <3>1. mem' = [mem EXCEPT ![cpu[c].t][Index(c)] = cpu[c].new] /\ Go(c, Descend(cpu[c], cpu[c].new.to)) /\ used' = used
        BY <1>5, <2>2 DEF WalkInstall
      <3>2. Shape(mem)'
        BY <2>1, <3>1, WriteKeepsShape DEF IInv, InProgress
      <3>3. InProgress(Descend(cpu[c], cpu[c].new.to)) /\ Pending(Descend(cpu[c], cpu[c].new.to))
        BY <2>1, Moves
      <3> QED
        BY <3>1, <3>2, <3>3, OneGoes DEF IInv
    <2>3. CASE Read(c) # cpu[c].old
      <3> DEFINE s == [cpu[c] EXCEPT !.pc = "walk", !.old = Empty, !.new = Empty]
      <3>1. /\ mem' = [mem EXCEPT ![cpu[c].new.to] = [i \in Entries |-> Empty]]
            /\ Go(c, s) /\ used' \subseteq used
        BY <1>5, <2>3 DEF WalkInstall
      <3>2. Shape(mem)'
        BY <3>1 DEF IInv, Shape, Empty
      <3>3. InProgress(s) /\ Pending(s)
        BY <2>1 DEF InProgress, Pending, Empty
      <3> HIDE DEF s
      <3> QED
        BY <3>1, <3>2, <3>3, OneGoes DEF IInv
    <2> QED
      BY <2>2, <2>3
  <1>6. ASSUME NEW c \in CPUs, FillLeaf(c) PROVE IInv'
    <2> DEFINE x == IF present(cpu[c].r) THEN Page(Job(c).v, cpu[c].r.w) ELSE Empty
               lose == Changes(c, Pages)
               s == [cpu[c] EXCEPT !.pc = "cleanup", !.old = JobEntry(c), !.lost = lose]
    <2>1. InProgress(cpu[c]) /\ Pending(cpu[c]) /\ cpu[c].pc = "fill"
      BY <1>6 DEF FillLeaf, IInv
    <2>2. mem' = [mem EXCEPT ![Job(c).t][virt_to_index(Job(c).l, Job(c).v)] = x] /\ Go(c, s) /\ used' = used
      BY <1>6 DEF FillLeaf
    <2>3. x.k # "table"
      BY DEF Page, Empty
    <2>4. lose \in BOOLEAN /\ (JobEntry(c) = Empty /\ lose => cpu[c].lost)
      BY <1>6, <2>1, LeafOverEmpty DEF Changes, InProgress
    <2> HIDE DEF x, lose
    <2>5. Shape(mem)'
      BY <2>2, <2>3, WriteKeepsShape DEF IInv
    <2>6. InProgress(s) /\ Pending(s)
      BY <2>1, <2>4 DEF InProgress, Pending
    <2> HIDE DEF s
    <2> QED
      BY <2>2, <2>5, <2>6, OneGoes DEF IInv
  <1>7. ASSUME NEW c \in CPUs, cleanup(c) PROVE IInv'
    <2> DEFINE gone == {x.to : x \in {y \in Below(cpu[c].old) : y.k = "table"}}
               s == [NextJob(c) EXCEPT !.flush = @ \/ cpu[c].old # Empty]
    <2>1. InProgress(cpu[c]) /\ Pending(cpu[c]) /\ cpu[c].pc = "cleanup"
      BY <1>7 DEF cleanup, IInv
    <2>2. free_later(gone) /\ Go(c, s)
      BY <1>7 DEF cleanup
    <2> HIDE DEF gone
    <2>3. Shape(mem)' /\ used' \subseteq Tables
      BY <2>2 DEF free_later, IInv, Shape, Empty
    <2>4. InProgress(s) /\ Pending(s)
      BY <2>1 DEF InProgress, Pending, NextJob
    <2> HIDE DEF s
    <2> QED
      BY <2>2, <2>3, <2>4, OneGoes
  <1>8. ASSUME NEW c \in CPUs, FillDown(c) PROVE IInv'
    <2>1. InProgress(cpu[c]) /\ Pending(cpu[c]) /\ Shape(mem)' /\ used' \subseteq Tables
      BY <1>8 DEF FillDown, IInv
    <2>2. PICK q : Go(c, [cpu[c] EXCEPT !.todo = q])
      BY <1>8, <2>1 DEF FillDown, InProgress
    <2>3. InProgress([cpu[c] EXCEPT !.todo = q]) /\ Pending([cpu[c] EXCEPT !.todo = q])
      BY <2>1 DEF InProgress, Pending
    <2> QED
      BY <2>1, <2>2, <2>3, OneGoes
  <1>9. ASSUME NEW c \in CPUs, FillAlloc(c) PROVE IInv'
    <2> DEFINE s == [cpu[c] EXCEPT !.pc = "install", !.old = JobEntry(c), !.new = Table(NewTable)]
    <2>1. InProgress(cpu[c]) /\ Pending(cpu[c]) /\ cpu[c].pc = "fill" /\ Shape(mem)'
      BY <1>9 DEF FillAlloc, IInv
    <2>2. NewTable \in Tables
      BY <1>9, NewIsFree DEF FillAlloc, IInv
    <2>3. Go(c, s) /\ used' \subseteq Tables
      BY <1>9, <2>2 DEF FillAlloc, IInv
    <2>4. InProgress(s) /\ Pending(s)
      BY <2>1, <2>2 DEF InProgress, Pending, Table
    <2> HIDE DEF s
    <2> QED
      BY <2>1, <2>3, <2>4, OneGoes
  <1>10. ASSUME NEW c \in CPUs, FillInstall(c) PROVE IInv'
    <2> DEFINE s == [cpu[c] EXCEPT !.pc = "fill", !.old = Empty, !.new = Empty]
    <2>1. InProgress(cpu[c]) /\ Pending(cpu[c]) /\ cpu[c].pc = "install" /\ Go(c, s)
      BY <1>10 DEF FillInstall, IInv
    <2>2. used' \subseteq Tables
      BY <1>10 DEF FillInstall, IInv
    <2>3. Shape(mem)'
      <3> DEFINE t == Job(c).t
                 i == virt_to_index(Job(c).l, Job(c).v)
      <3>1. mem' = mem \/ mem' = [mem EXCEPT ![t][i] = cpu[c].new]
        BY <1>10 DEF FillInstall
      <3> HIDE DEF t, i
      <3>2. Shape([mem EXCEPT ![t][i] = cpu[c].new])
        BY <2>1, WriteKeepsShape DEF IInv, InProgress
      <3> QED
        BY <3>1, <3>2 DEF IInv
    <2>4. InProgress(s) /\ Pending(s)
      BY <2>1 DEF InProgress, Pending, Empty
    <2> HIDE DEF s
    <2> QED
      BY <2>1, <2>2, <2>3, <2>4, OneGoes
  <1>11. ASSUME NEW c \in CPUs, ReplaceRead(c) \/ lookup(c) PROVE IInv'
    <2>1. InProgress(cpu[c]) /\ Pending(cpu[c]) /\ cpu[c].pc # "cleanup" /\ Shape(mem)' /\ used' \subseteq Tables
      BY <1>11 DEF ReplaceRead, lookup, IInv
    <2>2. InProgress(Done(cpu[c])) /\ Pending(Done(cpu[c]))
      BY <2>1, Moves
    <2>3. \A x : InProgress([Done(cpu[c]) EXCEPT !.res = x]) /\ Pending([Done(cpu[c]) EXCEPT !.res = x])
      BY <2>2 DEF InProgress, Pending
    <2>4. /\ \A x : InProgress([cpu[c] EXCEPT !.pc = "swap", !.old = x]) /\ Pending([cpu[c] EXCEPT !.pc = "swap", !.old = x])
          /\ \A t, l : InProgress([cpu[c] EXCEPT !.t = t, !.l = l]) /\ Pending([cpu[c] EXCEPT !.t = t, !.l = l])
      BY <2>1 DEF InProgress, Pending
    <2>5. CASE ReplaceRead(c)
      BY <2>1, <2>3, <2>4, <2>5, OneGoes DEF ReplaceRead
    <2>6. CASE lookup(c)
      BY <2>1, <2>3, <2>4, <2>6, OneGoes DEF lookup
    <2> QED
      BY <1>11, <2>5, <2>6
  <1>12. ASSUME NEW c \in CPUs, ReplaceSwap(c) PROVE IInv'
    <2>1. InProgress(cpu[c]) /\ Pending(cpu[c]) /\ cpu[c].pc = "swap" /\ used' \subseteq Tables
      BY <1>12 DEF ReplaceSwap, IInv
    <2>2. InProgress(Done(cpu[c])) /\ Pending(Done(cpu[c]))
      BY <2>1, Moves
    <2>3. \A x : InProgress([Done(cpu[c]) EXCEPT !.res = x]) /\ Pending([Done(cpu[c]) EXCEPT !.res = x])
      BY <2>2 DEF InProgress, Pending
    <2>4. InProgress([cpu[c] EXCEPT !.pc = "replace", !.old = Empty]) /\ Pending([cpu[c] EXCEPT !.pc = "replace", !.old = Empty])
      BY <2>1 DEF InProgress, Pending
    <2>5. Shape(mem)'
      <3>1. ReplaceEntry(c).k # "table"
        BY DEF ReplaceEntry, Page
      <3>2. mem' = mem \/ mem' = [mem EXCEPT ![cpu[c].t][Index(c)] = ReplaceEntry(c)]
        BY <1>12 DEF ReplaceSwap
      <3>3. Shape([mem EXCEPT ![cpu[c].t][Index(c)] = ReplaceEntry(c)])
        BY <3>1, WriteKeepsShape DEF IInv
      <3> QED
        BY <3>2, <3>3 DEF IInv
    <2> QED
      BY <1>12, <2>1, <2>3, <2>4, <2>5, OneGoes DEF ReplaceSwap
  <1>13. ASSUME NEW c \in CPUs, Return(c) PROVE IInv'
    <2>1. InProgress(Resting) /\ Pending(Resting)
      BY DEF InProgress, Pending, Resting, Empty
    <2>2. Shape(mem)' /\ used' \subseteq Tables /\ Go(c, Resting)
      BY <1>13 DEF Return, IInv
    <2> QED
      BY <2>1, <2>2, OneGoes
  <1> QED
    BY <1>1, <1>2, <1>3, <1>4, <1>5, <1>6, <1>7, <1>8, <1>9, <1>10, <1>11, <1>12, <1>13 DEF Next

\* update() and fill_entries never return without asking for a TLB flush when a
\* translation that existed has gone or changed under them: cleanup() reports
\* every entry that was not empty, and over an empty entry nothing is lost.
THEOREM FlushIsReported == Spec => []FlushReported
  <1>1. Init => IInv
    BY InitHolds
  <1>2. IInv /\ [Next]_vars => IInv'
    BY NextKeeps
  <1>3. IInv => FlushReported
    BY DEF IInv, Pending, FlushReported
  <1> QED
    BY <1>1, <1>2, <1>3, PTL DEF Spec

-----------------------------------------------------------------------------
(* The forest of tables.                                                   *)

\* The tables form a forest.  A table is used at one level (lv), an entry leads to
\* a table one level below, free tables are empty, and a used table has one
\* owner: an entry, or a CPU that is about to link or to free it (P).
Points(m, s, i, t) == m[s][i].k = "table" /\ m[s][i].to = t
Forest(m, u, lv, P) ==
    /\ lv \in [Tables -> 0..Top] /\ u \subseteq Tables /\ Root \in u /\ lv[Root] = Top
    /\ \A t \in u, i \in Entries : m[t][i].k = "table" =>
           m[t][i].to \in u \ {Root} /\ lv[m[t][i].to] = lv[t] - 1
    /\ \A t \in Tables \ u, i \in Entries : m[t][i] = Empty
    /\ \A s, t \in u, i, j \in Entries :
           m[s][i].k = "table" /\ m[t][j].k = "table" /\ m[s][i].to = m[t][j].to => s = t /\ i = j
    /\ P \subseteq u \ {Root}
    /\ \A t \in P, s \in u, i \in Entries : ~ Points(m, s, i, t)
    /\ \A t \in u \ (P \cup {Root}) : \E s \in u, i \in Entries : Points(m, s, i, t)

\* The tables that a CPU owns and those that it goes on to access.
Priv(s) == IF s.pc \in {"split", "install"} THEN {s.new.to}
           ELSE IF s.pc = "cleanup" /\ s.old.k = "table" THEN {s.old.to} ELSE {}
Uses(s) == IF s.pc \in {"walk", "split", "replace", "swap", "lookup"} THEN {s.t}
           ELSE IF s.pc \in {"fill", "install", "cleanup"} THEN {s.todo[i].t : i \in DOMAIN s.todo} ELSE {}
Private(C) == UNION {Priv(C[c]) : c \in CPUs}

\* The tables of a request in progress are at the levels that it takes them for.
Jobs == [t : Tables, l : 0..Top, v : Nat]
Rising(q) == \A i, j \in DOMAIN q : i <= j => q[i].l <= q[j].l
Walking(lv, s) ==
    /\ s.l \in 0..Top /\ lv[s.t] = s.l
    /\ s.pc \in {"replace", "swap"} => s.l = 0
    /\ s.pc = "split" => s.l > 0 /\ s.new = Table(s.new.to) /\ lv[s.new.to] = s.l - 1 /\ s.old.k # "table"
Filling(lv, s) ==
    /\ s.todo \in Seq(Jobs) /\ Rising(s.todo)
    /\ \A i \in DOMAIN s.todo : lv[s.todo[i].t] = s.todo[i].l /\ (s.todo[i].l > 0 => MayFree(s.r))
    /\ s.pc \in {"install", "cleanup"} => s.todo # <<>>
    /\ s.pc = "install" => /\ Head(s.todo).l > 0 /\ s.new = Table(s.new.to) /\ s.old = Empty
                           /\ lv[s.new.to] = Head(s.todo).l - 1
    /\ s.pc = "cleanup" /\ s.old.k = "table" => lv[s.old.to] < Head(s.todo).l
CpuOk(u, lv, s) ==
    /\ s.pc \in {"idle", "done", "walk", "split", "replace", "swap", "lookup", "fill", "install", "cleanup"}
    /\ s.pc # "idle" => s.r \in ValidRequests
    /\ Uses(s) \subseteq u
    /\ s.pc \in {"walk", "split", "replace", "swap", "lookup"} => Walking(lv, s)
    /\ s.pc \in {"fill", "install", "cleanup"} => Filling(lv, s)

\* A table that is not linked yet is known to its CPU alone and leads nowhere.
Fresh(m, C, c) ==
    C[c].pc \in {"split", "install"} =>
        /\ \A d \in CPUs : C[c].new.to \notin Uses(C[d])
        /\ \A i \in Entries : m[C[c].new.to][i].k # "table" /\ (C[c].pc = "install" => m[C[c].new.to][i] = Empty)
Alone(C, c) == C[c].pc # "idle" /\ MayFree(C[c].r) => \A d \in CPUs \ {c} : C[d].pc = "idle"
Cpus(m, u, lv, C) ==
    \A c \in CPUs :
        /\ CpuOk(u, lv, C[c]) /\ Fresh(m, C, c) /\ Alone(C, c)
        /\ \A d \in CPUs \ {c} : Priv(C[c]) \cap Priv(C[d]) = {}

Held(m, u, lv, C) == Forest(m, u, lv, Private(C)) /\ Cpus(m, u, lv, C)

LInv ==
    /\ leaf_levels \in LeafLevels
    /\ \E lv \in [Tables -> 0..Top] : Held(mem, used, lv, cpu)

\* Induction over a range of numbers.
LEMMA Climb ==
    ASSUME NEW a \in Nat, NEW b \in Nat, NEW B, a \in B, \A k \in a..(b - 1) : k \in B => k + 1 \in B
    PROVE  a..b \subseteq B
  <1> DEFINE Bad == {k \in a..b : k \notin B}
  <1> SUFFICES ASSUME Bad # {} PROVE FALSE
    OBVIOUS
  <1>1. PICK n \in Bad : \A m \in Bad : n <= m
    BY Smallest, Bad \subseteq Nat
  <1>2. n \in a..b /\ n \notin B /\ n # a
    BY <1>1
  <1>3. n - 1 \in a..(b - 1) /\ n - 1 \in a..b /\ ~ (n <= n - 1) /\ (n - 1) + 1 = n
    BY <1>2
  <1>4. n - 1 \in B
    BY <1>1, <1>3
  <1> QED
    BY <1>2, <1>3, <1>4

\* The recursive function in Below exists: after k rounds it has the entries up
\* to k levels below e.
Grow(m, X) == X \cup UNION {{m[x.to][i] : i \in Entries} : x \in {y \in X : y.k = "table"}}
Layers(m, e, n, f) == f = [k \in 0..n |-> IF k = 0 THEN {e} ELSE Grow(m, f[k - 1])]

BelowIn(m, e) ==
    LET below[n \in 0..MaxLevels] ==
            IF n = 0 THEN {e}
            ELSE below[n - 1] \cup UNION {{m[x.to][i] : i \in Entries} : x \in {y \in below[n - 1] : y.k = "table"}}
    IN  below[MaxLevels]

LEMMA BelowUnfolds ==
    ASSUME NEW m, NEW e
    PROVE  \E f : Layers(m, e, MaxLevels, f) /\ BelowIn(m, e) = f[MaxLevels]
  <1>1. MaxLevels \in Nat
    BY TableAssumption
  <1> DEFINE Good == {n \in Nat : \E f : Layers(m, e, n, f)}
  <1>2. 0 \in Good
    <2>1. Layers(m, e, 0, [k \in 0..0 |-> {e}])
      BY DEF Layers
    <2> QED
      BY <2>1
  <1>3. ASSUME NEW n \in 0..(MaxLevels - 1), n \in Good PROVE n + 1 \in Good
    <2>1. PICK f : Layers(m, e, n, f)
      BY <1>3
    <2> DEFINE g == [k \in 0..(n + 1) |-> IF k = n + 1 THEN Grow(m, f[k - 1]) ELSE f[k]]
    <2>2. g = [k \in 0..(n + 1) |-> IF k = 0 THEN {e} ELSE Grow(m, g[k - 1])]
      <3> SUFFICES ASSUME NEW k \in 0..(n + 1) PROVE g[k] = IF k = 0 THEN {e} ELSE Grow(m, g[k - 1])
        OBVIOUS
      <3>1. CASE k = n + 1
        <4>1. k # 0 /\ k - 1 \in 0..(n + 1) /\ k - 1 # n + 1
          BY <3>1
        <4> QED
          BY <3>1, <4>1
      <3>2. CASE k # n + 1
        <4>1. k \in 0..n
          BY <3>2
        <4>2. f[k] = IF k = 0 THEN {e} ELSE Grow(m, f[k - 1])
          BY <2>1, <4>1 DEF Layers
        <4>3. k # 0 => k - 1 \in 0..(n + 1) /\ k - 1 # n + 1
          BY <4>1
        <4> QED
          BY <3>2, <4>2, <4>3
      <3> QED
        BY <3>1, <3>2
    <2>3. Layers(m, e, n + 1, g)
      BY <2>2 DEF Layers
    <2> QED
      BY <2>3
  <1>4. PICK f : Layers(m, e, MaxLevels, f)
    <2>1. 0..MaxLevels \subseteq Good
      <3> HIDE DEF Good
      <3> QED
        BY <1>1, <1>2, <1>3, Climb
    <2> QED
      BY <1>1, <2>1
  <1> DEFINE Rec(below) == below = [n \in 0..MaxLevels |->
                 IF n = 0 THEN {e}
                 ELSE below[n - 1] \cup UNION {{m[x.to][i] : i \in Entries} : x \in {y \in below[n - 1] : y.k = "table"}}]
  <1>5. ASSUME NEW below PROVE Rec(below) <=> Layers(m, e, MaxLevels, below)
    BY DEF Layers, Grow
  <1>6. Rec(CHOOSE below : Rec(below))
    <2>1. \E below : Rec(below)
      BY <1>4, <1>5
    <2> HIDE DEF Rec
    <2> QED
      BY <2>1
  <1>7. BelowIn(m, e) = (CHOOSE below : Rec(below))[MaxLevels]
    BY DEF BelowIn
  <1> HIDE DEF Rec
  <1> QED
    BY <1>5, <1>6, <1>7

\* The tables below an entry: the smallest set that has the one it leads to and
\* those that the entries of a table in the set lead to.
SubTables(m, e) == {x.to : x \in {y \in BelowIn(m, e) : y.k = "table"}}
Closed(m, u, K) == \A t \in K \cap u, i \in Entries : m[t][i].k = "table" => m[t][i].to \in K

LEMMA SubTablesAre ==
    ASSUME NEW m, NEW u, NEW lv, NEW P, Forest(m, u, lv, P), NEW e, e.k = "table" => e.to \in u
    PROVE  /\ e.k # "table" => SubTables(m, e) = {}
           /\ e.k = "table" => e.to \in SubTables(m, e)
           /\ SubTables(m, e) \subseteq u
           /\ Closed(m, u, SubTables(m, e))
           /\ \A K : (e.k = "table" => e.to \in K) /\ Closed(m, u, K) => SubTables(m, e) \subseteq K
  <1> DEFINE Lv == MaxLevels
  <1>1. Lv \in Nat \ {0} /\ Top = Lv - 1
    BY TableAssumption DEF Top
  <1>2. PICK f : Layers(m, e, Lv, f) /\ BelowIn(m, e) = f[Lv]
    BY BelowUnfolds
  <1> HIDE DEF Lv
  <1>3. f[0] = {e}
    BY <1>1, <1>2 DEF Layers
  <1>4. \A k \in 0..(Lv - 1) : \A x : x \in f[k + 1] <=>
            x \in f[k] \/ \E y \in f[k], i \in Entries : y.k = "table" /\ x = m[y.to][i]
    <2> SUFFICES ASSUME NEW k \in 0..(Lv - 1)
                 PROVE  \A x : x \in f[k + 1] <=>
                            x \in f[k] \/ \E y \in f[k], i \in Entries : y.k = "table" /\ x = m[y.to][i]
      OBVIOUS
    <2>1. k + 1 \in 0..Lv /\ k + 1 # 0 /\ (k + 1) - 1 = k
      BY <1>1
    <2>2. f[k + 1] = Grow(m, f[k])
      BY <1>2, <2>1 DEF Layers
    <2> QED
      BY <2>2 DEF Grow
  <1>5. /\ lv \in [Tables -> 0..Top] /\ u \subseteq Tables
        /\ \A t \in u, i \in Entries : m[t][i].k = "table" =>
               m[t][i].to \in u /\ lv[m[t][i].to] = lv[t] - 1
    BY DEF Forest
  <1>6. \A t : t \in SubTables(m, e) <=> \E x \in f[Lv] : x.k = "table" /\ x.to = t
    BY <1>2 DEF SubTables
  <1>7. ASSUME NEW x, NEW a \in 0..Lv, x \in f[a] PROVE x \in f[Lv]
    <2> DEFINE B == {k \in Nat : x \in f[k]}
    <2>1. a \in B /\ \A k \in a..(Lv - 1) : k \in B => k + 1 \in B
      BY <1>1, <1>4, <1>7
    <2> HIDE DEF B
    <2>2. a..Lv \subseteq B
      BY <1>1, <2>1, Climb, a \in Nat
    <2> QED
      BY <1>1, <2>2 DEF B
  <1>8. ASSUME e.k = "table"
        PROVE  \A x \in f[Lv] : x.k = "table" =>
                   /\ x.to \in u /\ lv[e.to] - lv[x.to] \in 0..Top /\ x \in f[lv[e.to] - lv[x.to]]
    <2> DEFINE Fits(x) == /\ x.to \in u /\ lv[e.to] - lv[x.to] \in 0..Top
                          /\ x \in f[lv[e.to] - lv[x.to]]
               B == {k \in Nat : \A x \in f[k] : x.k = "table" => Fits(x)}
    <2>1. 0 \in B
      <3>1. lv[e.to] \in 0..Top /\ lv[e.to] - lv[e.to] = 0 /\ 0 \in 0..Top
        BY <1>1, <1>5, <1>8
      <3>2. Fits(e)
        BY <1>3, <1>8, <3>1
      <3> HIDE DEF Fits
      <3> QED
        BY <1>3, <3>2
    <2>2. ASSUME NEW k \in 0..(Lv - 1), k \in B PROVE k + 1 \in B
      <3> SUFFICES ASSUME NEW x \in f[k + 1], x.k = "table" PROVE Fits(x)
        BY <1>1
      <3>1. CASE x \in f[k]
        BY <2>2, <3>1
      <3>2. CASE x \notin f[k]
        <4>1. PICK y \in f[k] : \E i \in Entries : y.k = "table" /\ x = m[y.to][i]
          BY <1>4, <3>2
        <4>2. PICK i \in Entries : y.k = "table" /\ x = m[y.to][i]
          BY <4>1
        <4>3. Fits(y)
          BY <2>2, <4>2
        <4>4. x.to \in u /\ lv[x.to] = lv[y.to] - 1 /\ lv[x.to] \in 0..Top /\ lv[y.to] \in 0..Top
          BY <1>5, <4>2, <4>3
        <4> DEFINE b == lv[e.to] - lv[y.to]
        <4>5. lv[e.to] \in 0..Top
          BY <1>5, <1>8
        <4>6. b \in 0..(Lv - 1) /\ b + 1 = lv[e.to] - lv[x.to] /\ b + 1 \in 0..Top
          BY <1>1, <4>3, <4>4, <4>5
        <4>7. x \in f[b + 1]
          BY <1>4, <4>2, <4>3, <4>6
        <4> QED
          BY <4>4, <4>6, <4>7
      <3> QED
        BY <3>1, <3>2
    <2> HIDE DEF B
    <2>3. 0..Lv \subseteq B
      BY <1>1, <2>1, <2>2, Climb
    <2> QED
      BY <1>1, <2>3 DEF B
  <1>9. ASSUME e.k # "table" PROVE SubTables(m, e) = {}
    <2> DEFINE B == {k \in Nat : f[k] = {e}}
    <2>1. 0 \in B /\ \A k \in 0..(Lv - 1) : k \in B => k + 1 \in B
      <3>1. ASSUME NEW k \in 0..(Lv - 1), f[k] = {e} PROVE f[k + 1] = {e}
        BY <1>4, <1>9, <3>1
      <3> QED
        BY <1>1, <1>3, <3>1
    <2> HIDE DEF B
    <2>2. 0..Lv \subseteq B
      BY <1>1, <2>1, Climb
    <2> QED
      BY <1>1, <1>6, <1>9, <2>2 DEF B
  <1>10. e.k = "table" => e.to \in SubTables(m, e)
    <2>1. e \in f[Lv]
      BY <1>1, <1>3, <1>7
    <2> QED
      BY <1>6, <2>1
  <1>11. SubTables(m, e) \subseteq u
    BY <1>6, <1>8, <1>9
  <1>12. ASSUME NEW t \in SubTables(m, e), NEW i \in Entries, m[t][i].k = "table"
         PROVE  m[t][i].to \in SubTables(m, e)
    <2>1. e.k = "table"
      BY <1>9
    <2>2. PICK y \in f[Lv] : y.k = "table" /\ y.to = t
      BY <1>6
    <2>3. y.to \in u /\ lv[e.to] - lv[y.to] \in 0..Top /\ y \in f[lv[e.to] - lv[y.to]]
      BY <1>8, <2>1, <2>2
    <2> DEFINE b == lv[e.to] - lv[y.to]
               x == m[t][i]
    <2>4. lv[x.to] = lv[y.to] - 1 /\ lv[x.to] \in 0..Top /\ lv[y.to] \in 0..Top /\ lv[e.to] \in 0..Top
      BY <1>5, <1>12, <2>1, <2>2, <2>3
    <2>5. b \in 0..(Lv - 1) /\ b + 1 \in 0..Lv
      BY <1>1, <2>3, <2>4
    <2>6. x \in f[b + 1]
      BY <1>4, <2>2, <2>3, <2>5
    <2> HIDE DEF b
    <2>7. x \in f[Lv]
      BY <1>7, <2>5, <2>6
    <2> QED
      BY <1>6, <1>12, <2>7
  <1>13. ASSUME NEW K, e.k = "table" => e.to \in K, Closed(m, u, K) PROVE SubTables(m, e) \subseteq K
    <2>1. CASE e.k # "table"
      BY <1>9, <2>1
    <2>2. CASE e.k = "table"
      <3> DEFINE B == {k \in Nat : \A x \in f[k] : x.k = "table" => x.to \in K \cap u}
      <3>1. 0 \in B
        BY <1>3, <1>13, <2>2
      <3>2. ASSUME NEW k \in 0..(Lv - 1), k \in B PROVE k + 1 \in B
        <4> SUFFICES ASSUME NEW x \in f[k + 1], x.k = "table" PROVE x.to \in K \cap u
          BY <1>1
        <4>1. CASE x \in f[k]
          BY <3>2, <4>1
        <4>2. CASE x \notin f[k]
          <5>1. PICK y \in f[k] : \E i \in Entries : y.k = "table" /\ x = m[y.to][i]
            BY <1>4, <4>2
          <5> QED
            BY <1>5, <1>13, <3>2, <5>1 DEF Closed
        <4> QED
          BY <4>1, <4>2
      <3> HIDE DEF B
      <3>3. 0..Lv \subseteq B
        BY <1>1, <3>1, <3>2, Climb
      <3> QED
        BY <1>1, <1>6, <3>3 DEF B
    <2> QED
      BY <2>1, <2>2
  <1>14. Closed(m, u, SubTables(m, e))
    BY <1>12 DEF Closed
  <1> QED
    BY <1>9, <1>10, <1>11, <1>13, <1>14

\* What happens to the forest: one entry of s is written.
OneEntry(m, n, s, i) == \A t \in Tables, j \in Entries : t # s \/ j # i => n[t][j] = m[t][j]

LEMMA Rewrites ==
    ASSUME NEW m, NEW n, NEW u, NEW lv, NEW P, Forest(m, u, lv, P), NEW s \in u, NEW i \in Entries,
           OneEntry(m, n, s, i), m[s][i].k # "table", n[s][i].k # "table"
    PROVE  Forest(n, u, lv, P)
  <1>1. \A t \in Tables, j \in Entries : n[t][j] = m[t][j] \/ (t = s /\ j = i)
    BY DEF OneEntry
  <1>2. \A t \in u, j \in Entries : n[t][j].k = "table" \/ m[t][j].k = "table" => n[t][j] = m[t][j]
    BY <1>1 DEF Forest
  <1>3. \A t \in Tables \ u, j \in Entries : n[t][j] = m[t][j]
    BY <1>1
  <1>4. \A t \in u \ (P \cup {Root}) : \E r \in u, j \in Entries : Points(n, r, j, t)
    <2>1. \A t \in u \ (P \cup {Root}) : \E r \in u, j \in Entries : Points(m, r, j, t)
      BY DEF Forest
    <2> QED
      BY <1>2, <2>1 DEF Points
  <1>5. \A t \in P, r \in u, j \in Entries : ~ Points(n, r, j, t)
    BY <1>2 DEF Forest, Points
  <1> QED
    BY <1>2, <1>3, <1>4, <1>5 DEF Forest

LEMMA Links ==
    ASSUME NEW m, NEW n, NEW u, NEW lv, NEW P, Forest(m, u, lv, P), NEW s \in u, NEW i \in Entries,
           OneEntry(m, n, s, i), m[s][i].k # "table", NEW t \in P, n[s][i] = Table(t), lv[t] = lv[s] - 1
    PROVE  Forest(n, u, lv, P \ {t})
  <1>1. n[s][i].k = "table" /\ n[s][i].to = t
    BY DEF Table
  <1>2. \A r \in Tables, j \in Entries : r # s \/ j # i => n[r][j] = m[r][j]
    BY DEF OneEntry
  <1>3. /\ lv \in [Tables -> 0..Top] /\ u \subseteq Tables /\ Root \in u /\ lv[Root] = Top /\ P \subseteq u \ {Root}
        /\ \A r \in u, j \in Entries : m[r][j].k = "table" =>
               m[r][j].to \in u \ {Root} /\ lv[m[r][j].to] = lv[r] - 1
        /\ \A r \in Tables \ u, j \in Entries : m[r][j] = Empty
        /\ \A p \in P, r \in u, j \in Entries : ~ Points(m, r, j, p)
    BY DEF Forest
  <1>4. \A r \in u, j \in Entries : n[r][j].k = "table" =>
            n[r][j].to \in u \ {Root} /\ lv[n[r][j].to] = lv[r] - 1
    BY <1>1, <1>2, <1>3
  <1>5. \A r \in Tables \ u, j \in Entries : n[r][j] = Empty
    BY <1>2, <1>3
  <1>6. \A r, q \in u, j, k \in Entries :
           n[r][j].k = "table" /\ n[q][k].k = "table" /\ n[r][j].to = n[q][k].to => r = q /\ j = k
    <2>1. \A r \in u, j \in Entries : m[r][j].k = "table" => m[r][j].to # t
      BY <1>3 DEF Points
    <2>2. \A r, q \in u, j, k \in Entries :
           m[r][j].k = "table" /\ m[q][k].k = "table" /\ m[r][j].to = m[q][k].to => r = q /\ j = k
      BY DEF Forest
    <2> SUFFICES ASSUME NEW r \in u, NEW q \in u, NEW j \in Entries, NEW k \in Entries,
                        n[r][j].k = "table", n[q][k].k = "table", n[r][j].to = n[q][k].to
                 PROVE  r = q /\ j = k
      OBVIOUS
    <2>3. n[r][j] = m[r][j] \/ (r = s /\ j = i)
      BY <1>2, <1>3
    <2>4. n[q][k] = m[q][k] \/ (q = s /\ k = i)
      BY <1>2, <1>3
    <2>5. CASE n[r][j] = m[r][j] /\ n[q][k] = m[q][k]
      BY <2>2, <2>5
    <2>6. CASE n[r][j] = m[r][j] /\ (q = s /\ k = i)
      BY <1>1, <2>1, <2>6
    <2>7. CASE n[q][k] = m[q][k] /\ (r = s /\ j = i)
      BY <1>1, <2>1, <2>7
    <2> QED
      BY <2>3, <2>4, <2>5, <2>6, <2>7
  <1>7. \A p \in P \ {t}, r \in u, j \in Entries : ~ Points(n, r, j, p)
    BY <1>1, <1>2, <1>3 DEF Points
  <1>8. \A p \in u \ ((P \ {t}) \cup {Root}) : \E r \in u, j \in Entries : Points(n, r, j, p)
    <2>1. \A p \in u \ (P \cup {Root}) : \E r \in u, j \in Entries : Points(m, r, j, p)
      BY DEF Forest
    <2>2. \A p, r \in u, j \in Entries : Points(m, r, j, p) => Points(n, r, j, p)
      BY <1>2, <1>3 DEF Points
    <2>3. Points(n, s, i, t)
      BY <1>1 DEF Points
    <2> QED
      BY <2>1, <2>2, <2>3
  <1> QED
    BY <1>3, <1>4, <1>5, <1>6, <1>7, <1>8 DEF Forest

LEMMA Unlinks ==
    ASSUME NEW m, NEW n, NEW u, NEW lv, NEW P, Forest(m, u, lv, P), NEW s \in u, NEW i \in Entries,
           OneEntry(m, n, s, i), m[s][i].k = "table", n[s][i].k # "table"
    PROVE  Forest(n, u, lv, P \cup {m[s][i].to})
  <1> DEFINE t == m[s][i].to
  <1>1. \A r \in Tables, j \in Entries : r # s \/ j # i => n[r][j] = m[r][j]
    BY DEF OneEntry
  <1>2. /\ lv \in [Tables -> 0..Top] /\ u \subseteq Tables /\ Root \in u /\ lv[Root] = Top /\ P \subseteq u \ {Root}
        /\ \A r \in u, j \in Entries : m[r][j].k = "table" =>
               m[r][j].to \in u \ {Root} /\ lv[m[r][j].to] = lv[r] - 1
        /\ \A r \in Tables \ u, j \in Entries : m[r][j] = Empty
        /\ \A p \in P, r \in u, j \in Entries : ~ Points(m, r, j, p)
        /\ \A r, q \in u, j, k \in Entries :
               m[r][j].k = "table" /\ m[q][k].k = "table" /\ m[r][j].to = m[q][k].to => r = q /\ j = k
        /\ \A p \in u \ (P \cup {Root}) : \E r \in u, j \in Entries : Points(m, r, j, p)
    BY DEF Forest
  <1>3. \A r \in u, j \in Entries : n[r][j].k = "table" => n[r][j] = m[r][j] /\ (r # s \/ j # i)
    BY <1>1, <1>2
  <1>4. t \in u \ {Root}
    BY <1>2
  <1> HIDE DEF t
  <1>5. \A r \in Tables \ u, j \in Entries : n[r][j] = Empty
    BY <1>1, <1>2
  <1>6. \A p \in P \cup {t}, r \in u, j \in Entries : ~ Points(n, r, j, p)
    <2>1. ASSUME NEW r \in u, NEW j \in Entries, Points(n, r, j, t) PROVE FALSE
      <3>1. n[r][j].k = "table" /\ n[r][j].to = t
        BY <2>1 DEF Points
      <3>2. m[r][j].k = "table" /\ m[r][j].to = m[s][i].to /\ (r # s \/ j # i)
        BY <1>3, <3>1 DEF t
      <3> QED
        BY <1>2, <3>2
    <2> QED
      BY <1>2, <1>3, <2>1 DEF Points
  <1>7. \A p \in u \ ((P \cup {t}) \cup {Root}) : \E r \in u, j \in Entries : Points(n, r, j, p)
    <2> SUFFICES ASSUME NEW p \in u \ ((P \cup {t}) \cup {Root}) PROVE \E r \in u, j \in Entries : Points(n, r, j, p)
      OBVIOUS
    <2>1. PICK r \in u, j \in Entries : Points(m, r, j, p)
      BY <1>2
    <2>2. r # s \/ j # i
      BY <2>1 DEF Points, t
    <2>3. Points(n, r, j, p)
      BY <1>1, <1>2, <2>1, <2>2 DEF Points
    <2> QED
      BY <2>3
  <1>8. Forest(n, u, lv, P \cup {t})
    <2>1. \A r \in u, j \in Entries : n[r][j].k = "table" =>
               n[r][j].to \in u \ {Root} /\ lv[n[r][j].to] = lv[r] - 1
      BY <1>2, <1>3
    <2>2. \A r, q \in u, j, k \in Entries :
               n[r][j].k = "table" /\ n[q][k].k = "table" /\ n[r][j].to = n[q][k].to => r = q /\ j = k
      <3> SUFFICES ASSUME NEW r \in u, NEW q \in u, NEW j \in Entries, NEW k \in Entries,
                          n[r][j].k = "table", n[q][k].k = "table", n[r][j].to = n[q][k].to
                   PROVE  r = q /\ j = k
        OBVIOUS
      <3>1. n[r][j] = m[r][j] /\ n[q][k] = m[q][k]
        BY <1>3
      <3> QED
        BY <1>2, <3>1
    <2>3. lv \in [Tables -> 0..Top] /\ u \subseteq Tables /\ Root \in u /\ lv[Root] = Top /\ P \cup {t} \subseteq u \ {Root}
      BY <1>2, <1>4
    <2> QED
      BY <1>5, <1>6, <1>7, <2>1, <2>2, <2>3 DEF Forest
  <1> QED
    BY <1>8 DEF t

\* A free table is taken into use: it alone changes, and it leads nowhere.
Filled(m, n, t) ==
    /\ \A r \in Tables \ {t}, j \in Entries : n[r][j] = m[r][j]
    /\ \A j \in Entries : n[t][j].k # "table"

LEMMA Allocs ==
    ASSUME NEW m, NEW n, NEW u, NEW lv, NEW P, Forest(m, u, lv, P), NEW t \in Tables \ u, NEW l \in 0..Top,
           Filled(m, n, t)
    PROVE  Forest(n, u \cup {t}, [lv EXCEPT ![t] = l], P \cup {t})
  <1> DEFINE kv == [lv EXCEPT ![t] = l]
  <1>1. /\ lv \in [Tables -> 0..Top] /\ u \subseteq Tables /\ Root \in u /\ lv[Root] = Top /\ P \subseteq u \ {Root}
        /\ \A r \in u, j \in Entries : m[r][j].k = "table" =>
               m[r][j].to \in u \ {Root} /\ lv[m[r][j].to] = lv[r] - 1
        /\ \A r \in Tables \ u, j \in Entries : m[r][j] = Empty
        /\ \A p \in P, r \in u, j \in Entries : ~ Points(m, r, j, p)
        /\ \A r, q \in u, j, k \in Entries :
               m[r][j].k = "table" /\ m[q][k].k = "table" /\ m[r][j].to = m[q][k].to => r = q /\ j = k
        /\ \A p \in u \ (P \cup {Root}) : \E r \in u, j \in Entries : Points(m, r, j, p)
    BY DEF Forest
  <1>2. kv \in [Tables -> 0..Top] /\ \A r \in u : kv[r] = lv[r]
    BY <1>1
  <1> HIDE DEF kv
  <1>3. \A r \in u, j \in Entries : n[r][j] = m[r][j]
    BY <1>1 DEF Filled
  <1>4. \A r \in u \cup {t}, j \in Entries : n[r][j].k = "table" => r \in u /\ n[r][j] = m[r][j]
    BY <1>3 DEF Filled
  <1>5. \A r \in u \cup {t}, j \in Entries : n[r][j].k = "table" =>
               n[r][j].to \in (u \cup {t}) \ {Root} /\ kv[n[r][j].to] = kv[r] - 1
    BY <1>1, <1>2, <1>4
  <1>6. \A p \in P \cup {t}, r \in u \cup {t}, j \in Entries : ~ Points(n, r, j, p)
    BY <1>1, <1>4 DEF Points
  <1>7. \A r, q \in u \cup {t}, j, k \in Entries :
               n[r][j].k = "table" /\ n[q][k].k = "table" /\ n[r][j].to = n[q][k].to => r = q /\ j = k
    BY <1>1, <1>4
  <1>8. \A p \in (u \cup {t}) \ ((P \cup {t}) \cup {Root}) : \E r \in u \cup {t}, j \in Entries : Points(n, r, j, p)
    BY <1>1, <1>3 DEF Points
  <1>9. Forest(n, u \cup {t}, kv, P \cup {t})
    BY <1>1, <1>2, <1>5, <1>6, <1>7, <1>8 DEF Forest, Filled
  <1> QED
    BY <1>9 DEF kv

\* A table goes with everything below it, and nothing else does.  The tables of G
\* are cleared.
Erased(m, n, G) == \A r \in Tables, j \in Entries : n[r][j] = IF r \in G THEN Empty ELSE m[r][j]

LEMMA Frees ==
    ASSUME NEW m, NEW n, NEW u, NEW lv, NEW P, Forest(m, u, lv, P), NEW e, e.k = "table", e.to \in P,
           NEW G, G = SubTables(m, e), Erased(m, n, G)
    PROVE  /\ Forest(n, u \ G, lv, P \ {e.to})
           /\ \A r \in G : lv[r] <= lv[e.to] /\ (r # e.to => r \notin P)
  <1>1. /\ lv \in [Tables -> 0..Top] /\ u \subseteq Tables /\ Root \in u /\ lv[Root] = Top /\ P \subseteq u \ {Root}
        /\ \A r \in u, j \in Entries : m[r][j].k = "table" =>
               m[r][j].to \in u \ {Root} /\ lv[m[r][j].to] = lv[r] - 1
        /\ \A r \in Tables \ u, j \in Entries : m[r][j] = Empty
        /\ \A p \in P, r \in u, j \in Entries : ~ Points(m, r, j, p)
        /\ \A r, q \in u, j, k \in Entries :
               m[r][j].k = "table" /\ m[q][k].k = "table" /\ m[r][j].to = m[q][k].to => r = q /\ j = k
        /\ \A p \in u \ (P \cup {Root}) : \E r \in u, j \in Entries : Points(m, r, j, p)
    BY DEF Forest
  <1>2. /\ e.to \in G /\ G \subseteq u /\ Closed(m, u, G)
        /\ \A K : e.to \in K /\ Closed(m, u, K) => G \subseteq K
    BY <1>1, SubTablesAre
  <1>3. \A r \in Tables, j \in Entries : n[r][j] = IF r \in G THEN Empty ELSE m[r][j]
    BY DEF Erased
  <1>4. ASSUME NEW y \in G, y # e.to,
               \A s \in G, j \in Entries : m[s][j].k = "table" => m[s][j].to # y
        PROVE  FALSE
    <2>1. Closed(m, u, G \ {y})
      BY <1>2, <1>4 DEF Closed
    <2> QED
      BY <1>2, <1>4, <2>1
  <1>5. \A r \in u \ G, j \in Entries : m[r][j].k = "table" => m[r][j].to \notin G
    <2> SUFFICES ASSUME NEW r \in u \ G, NEW j \in Entries, m[r][j].k = "table", m[r][j].to \in G PROVE FALSE
      OBVIOUS
    <2>1. m[r][j].to # e.to
      BY <1>1 DEF Points
    <2>2. \A s \in G, k \in Entries : m[s][k].k = "table" => m[s][k].to # m[r][j].to
      BY <1>1, <1>2
    <2> QED
      BY <1>4, <2>1, <2>2
  <1>6. ASSUME NEW r \in G, r # e.to PROVE r \notin P
    <2> SUFFICES ASSUME r \in P PROVE FALSE
      OBVIOUS
    <2>1. \A s \in G, j \in Entries : m[s][j].k = "table" => m[s][j].to # r
      BY <1>1, <1>2 DEF Points
    <2> QED
      BY <1>4, <1>6, <2>1
  <1>7. Root \notin G
    <2> SUFFICES ASSUME Root \in G PROVE FALSE
      OBVIOUS
    <2>1. \A s \in G, j \in Entries : m[s][j].k = "table" => m[s][j].to # Root
      BY <1>1, <1>2
    <2> QED
      BY <1>1, <1>4, <2>1
  <1>8. \A r \in G : lv[r] <= lv[e.to]
    <2> DEFINE K == {r \in u : lv[r] <= lv[e.to]}
    <2>1. \A r \in u : lv[r] \in 0..Top
      BY <1>1
    <2>2. Top \in Nat
      BY TableAssumption DEF Top
    <2>3. e.to \in K
      BY <1>1, <2>1, <2>2
    <2>4. ASSUME NEW r \in K, NEW j \in Entries, m[r][j].k = "table" PROVE m[r][j].to \in K
      <3>1. m[r][j].to \in u /\ lv[m[r][j].to] = lv[r] - 1
        BY <1>1, <2>4
      <3>2. lv[r] \in 0..Top /\ lv[e.to] \in 0..Top /\ lv[r] <= lv[e.to]
        BY <1>1, <2>1
      <3>3. lv[r] - 1 <= lv[e.to]
        BY <2>2, <3>2
      <3> QED
        BY <3>1, <3>3
    <2>5. Closed(m, u, K)
      BY <2>4 DEF Closed
    <2> HIDE DEF K
    <2>6. G \subseteq K
      BY <1>2, <2>3, <2>5
    <2> QED
      BY <2>6 DEF K
  <1> DEFINE v == u \ G
  <1>9. \A r \in v, j \in Entries : n[r][j] = m[r][j]
    BY <1>1, <1>3
  <1>10. \A r \in v, j \in Entries : n[r][j].k = "table" =>
               n[r][j].to \in v \ {Root} /\ lv[n[r][j].to] = lv[r] - 1
    BY <1>1, <1>5, <1>9
  <1>11. \A r \in Tables \ v, j \in Entries : n[r][j] = Empty
    BY <1>1, <1>3
  <1>12. P \ {e.to} \subseteq v \ {Root}
    BY <1>1, <1>6
  <1>13. \A p \in P \ {e.to}, r \in v, j \in Entries : ~ Points(n, r, j, p)
    BY <1>1, <1>9 DEF Points
  <1>14. \A p \in v \ ((P \ {e.to}) \cup {Root}) : \E r \in v, j \in Entries : Points(n, r, j, p)
    <2> SUFFICES ASSUME NEW p \in v \ ((P \ {e.to}) \cup {Root}) PROVE \E r \in v, j \in Entries : Points(n, r, j, p)
      OBVIOUS
    <2>1. p \in u \ (P \cup {Root}) /\ p \notin G
      BY <1>2
    <2>2. PICK r \in u, j \in Entries : Points(m, r, j, p)
      BY <1>1, <2>1
    <2>3. r \notin G
      BY <1>2, <2>1, <2>2 DEF Closed, Points
    <2>4. Points(n, r, j, p)
      BY <1>9, <2>2, <2>3 DEF Points
    <2> QED
      BY <2>3, <2>4
  <1>15. \A r, q \in v, j, k \in Entries :
               n[r][j].k = "table" /\ n[q][k].k = "table" /\ n[r][j].to = n[q][k].to => r = q /\ j = k
    BY <1>1, <1>9
  <1>16. v \subseteq Tables /\ Root \in v
    BY <1>1, <1>7
  <1> HIDE DEF v
  <1>17. Forest(n, v, lv, P \ {e.to})
    BY <1>1, <1>10, <1>11, <1>12, <1>13, <1>14, <1>15, <1>16 DEF Forest
  <1> QED
    BY <1>6, <1>8, <1>17 DEF v

\* A CPU that keeps its tables at their levels is as it was.
LEMMA Keeps ==
    ASSUME NEW u, NEW v, NEW lv, NEW kv, NEW s, CpuOk(u, lv, s),
           \A t \in Uses(s) \cup Priv(s) : t \in v /\ kv[t] = lv[t]
    PROVE  CpuOk(v, kv, s)
  <1>1. ASSUME s.pc \in {"walk", "split", "replace", "swap", "lookup"} PROVE Walking(kv, s)
    <2>1. Walking(lv, s) /\ kv[s.t] = lv[s.t]
      BY <1>1 DEF CpuOk, Uses
    <2>2. s.pc = "split" => kv[s.new.to] = lv[s.new.to]
      BY DEF Priv
    <2> QED
      BY <2>1, <2>2 DEF Walking
  <1>2. ASSUME s.pc \in {"fill", "install", "cleanup"} PROVE Filling(kv, s)
    <2>1. Filling(lv, s) /\ \A i \in DOMAIN s.todo : kv[s.todo[i].t] = lv[s.todo[i].t]
      BY <1>2 DEF CpuOk, Uses
    <2>2. s.pc = "install" => kv[s.new.to] = lv[s.new.to]
      BY DEF Priv
    <2>3. s.pc = "cleanup" /\ s.old.k = "table" => kv[s.old.to] = lv[s.old.to]
      BY DEF Priv
    <2> QED
      BY <2>1, <2>2, <2>3 DEF Filling
  <1>3. Uses(s) \subseteq v
    OBVIOUS
  <1> QED
    BY <1>1, <1>2, <1>3 DEF CpuOk

\* The tables that CPUs have allocated and not linked.
News(C) == {C[d].new.to : d \in {c \in CPUs : C[c].pc \in {"split", "install"}}}

LEMMA NewsAre ==
    ASSUME NEW m, NEW u, NEW lv, NEW C, Cpus(m, u, lv, C)
    PROVE  News(C) \subseteq Private(C) /\ \A d \in CPUs : Uses(C[d]) \cap News(C) = {}
  BY DEF News, Private, Priv, Cpus, Fresh

\* One CPU goes on to s: what it has to be alone for has not grown.
Goes(C, D, c, s) == s.pc = "idle" \/ (C[c].pc # "idle" /\ s.r = C[c].r) \/ \A d \in CPUs : Alone(D, d)

\* The other CPUs keep their tables, and nobody meets a table that is not linked yet.
Apart(m, n, v, kv, C, c, s) ==
    /\ \A d \in CPUs \ {c} : /\ CpuOk(v, kv, C[d]) /\ Priv(s) \cap Priv(C[d]) = {}
                             /\ C[d].pc \in {"split", "install"} =>
                                    /\ C[d].new.to \notin Uses(s)
                                    /\ \A i \in Entries : n[C[d].new.to][i] = m[C[d].new.to][i]
                             /\ s.pc \in {"split", "install"} => s.new.to \notin Uses(C[d])
    /\ s.pc \in {"split", "install"} =>
           /\ s.new.to \notin Uses(s)
           /\ \A i \in Entries : n[s.new.to][i].k # "table" /\ (s.pc = "install" => n[s.new.to][i] = Empty)

LEMMA StepOk ==
    ASSUME NEW m, NEW n, NEW u, NEW v, NEW lv, NEW kv, NEW C, NEW D, NEW c \in CPUs, NEW s,
           Cpus(m, u, lv, C), D = [C EXCEPT ![c] = s], C = [d \in CPUs |-> C[d]],
           CpuOk(v, kv, s), Apart(m, n, v, kv, C, c, s),
           Goes(C, D, c, s)
    PROVE  Cpus(n, v, kv, D) /\ Private(D) = (Private(C) \ Priv(C[c])) \cup Priv(s)
  <1>1. D[c] = s /\ \A d \in CPUs \ {c} : D[d] = C[d]
    OBVIOUS
  <1>2. \A d \in CPUs : CpuOk(v, kv, D[d])
    BY <1>1 DEF Apart
  <1>3. \A d \in CPUs : Fresh(n, D, d)
    <2>1. Fresh(n, D, c)
      BY <1>1 DEF Fresh, Apart
    <2>2. ASSUME NEW d \in CPUs \ {c} PROVE Fresh(n, D, d)
      <3>1. Fresh(m, C, d)
        BY DEF Cpus
      <3>2. \A e \in CPUs : C[d].pc \in {"split", "install"} => C[d].new.to \notin Uses(D[e])
        BY <1>1, <3>1 DEF Fresh, Apart
      <3> QED
        BY <1>1, <3>1, <3>2 DEF Fresh, Apart
    <2> QED
      BY <2>1, <2>2
  <1>4. \A d \in CPUs : Alone(D, d)
    <2>1. \A d \in CPUs : Alone(C, d)
      BY DEF Cpus
    <2> QED
      BY <1>1, <2>1 DEF Alone, Goes
  <1>5. \A d \in CPUs : \A e \in CPUs \ {d} : Priv(D[d]) \cap Priv(D[e]) = {}
    <2>1. \A d \in CPUs : \A e \in CPUs \ {d} : Priv(C[d]) \cap Priv(C[e]) = {}
      BY DEF Cpus
    <2> QED
      BY <1>1, <2>1 DEF Apart
  <1>6. Cpus(n, v, kv, D)
    BY <1>2, <1>3, <1>4, <1>5 DEF Cpus
  <1>7. Private(D) = (Private(C) \ Priv(C[c])) \cup Priv(s)
    <2>1. \A t : t \in Private(D) <=> t \in Priv(s) \/ \E d \in CPUs \ {c} : t \in Priv(C[d])
      BY <1>1 DEF Private
    <2>2. \A t : t \in Private(C) <=> t \in Priv(C[c]) \/ \E d \in CPUs \ {c} : t \in Priv(C[d])
      BY DEF Private
    <2>3. \A d \in CPUs \ {c} : Priv(C[c]) \cap Priv(C[d]) = {}
      BY DEF Cpus
    <2> QED
      BY <2>1, <2>2, <2>3
  <1> QED
    BY <1>6, <1>7

\* A step of one CPU that changes no table.
LEMMA QuietOk ==
    ASSUME NEW m, NEW u, NEW lv, NEW C, NEW D, NEW c \in CPUs, NEW s,
           Forest(m, u, lv, Private(C)), Cpus(m, u, lv, C), D = [C EXCEPT ![c] = s], C = [d \in CPUs |-> C[d]],
           CpuOk(u, lv, s), Priv(C[c]) = {}, Priv(s) = {}, Uses(s) \cap News(C) = {},
           s.pc \notin {"split", "install"}, 
           Goes(C, D, c, s)
    PROVE  Cpus(m, u, lv, D) /\ Forest(m, u, lv, Private(D))
  <1>1. Apart(m, m, u, lv, C, c, s)
    BY DEF Apart, Cpus, News
  <1>2. Cpus(m, u, lv, D) /\ Private(D) = (Private(C) \ Priv(C[c])) \cup Priv(s)
    BY <1>1, StepOk
  <1>3. Private(D) = Private(C)
    BY <1>2
  <1> QED
    BY <1>2, <1>3

\* The jobs of fill_entries, for an order that has whole entries of a level.
Spans(o, l) == o - level_order(l) \in 0..(BitsPerLevel * MaxLevels)
JobsOf(q, t, l) == q \in Seq(Jobs) /\ \A i \in DOMAIN q : q[i].t = t /\ q[i].l = l

LEMMA FillJobsAre ==
    ASSUME NEW t \in Tables, NEW l \in 0..Top, NEW x \in Nat, NEW o \in Nat,
           Spans(o, l), NEW q, q = FillJobs(t, l, x, o)
    PROVE  JobsOf(q, t, l)
  <1> DEFINE k == 2^(o - level_order(l))
             w == 2^level_order(l)
  <1>1. BitsPerLevel \in Nat /\ MaxLevels \in Nat \ {0} /\ Top = MaxLevels - 1
    BY TableAssumption DEF Top
  <1>2. k \in Nat
    BY Powers DEF Spans
  <1>3. w \in Nat
    <2>1. l \in Nat /\ l <= MaxLevels
      BY <1>1
    <2>2. l * BitsPerLevel <= BitsPerLevel * MaxLevels /\ l * BitsPerLevel \in Nat
      <3>1. PICK j \in Nat : MaxLevels = l + j
        <4>1. MaxLevels - l \in Nat /\ MaxLevels = l + (MaxLevels - l)
          BY <1>1, <2>1
        <4> QED
          BY <4>1
      <3>2. BitsPerLevel * MaxLevels = l * BitsPerLevel + j * BitsPerLevel /\ j * BitsPerLevel \in Nat /\ l * BitsPerLevel \in Nat
        BY <1>1, <2>1, <3>1
      <3> QED
        BY <3>2
    <2>3. level_order(l) \in 0..(BitsPerLevel * MaxLevels)
      BY <1>1, <2>2 DEF level_order
    <2> QED
      BY <2>3, Powers
  <1>4. q = [i \in 1..k |-> [t |-> t, l |-> l, v |-> x + (i - 1) * w]]
    BY DEF FillJobs
  <1> HIDE DEF k, w
  <1>5. ASSUME NEW i \in 1..k PROVE [t |-> t, l |-> l, v |-> x + (i - 1) * w] \in Jobs
    <2>1. i - 1 \in Nat
      BY <1>2
    <2>2. (i - 1) * w \in Nat
      BY <1>3, <2>1
    <2>3. x + (i - 1) * w \in Nat
      BY <2>2
    <2> QED
      BY <2>3 DEF Jobs
  <1>6. q \in [1..k -> Jobs]
    BY <1>4, <1>5
  <1>7. q \in Seq(Jobs)
    BY <1>2, <1>6
  <1>8. \A i \in DOMAIN q : q[i].t = t /\ q[i].l = l
    BY <1>4
  <1> QED
    BY <1>7, <1>8 DEF JobsOf

LEMMA LevelIsNat ==
    ASSUME NEW r \in ValidRequests
    PROVE  modified_level(r) \in Nat
  <1>1. r.o \in Nat /\ BitsPerLevel \in Nat \ {0}
    BY TableAssumption DEF ValidRequests, Requests, Orders
  <1>2. \A a \in Nat, b \in Nat \ {0} : a \div b \in Nat
    OBVIOUS
  <1> QED
    BY <1>1, <1>2 DEF modified_level

\* A level that a request reaches.
LEMMA Reached ==
    ASSUME NEW r \in ValidRequests, NEW l \in 0..Top, l <= modified_level(r)
    PROVE  /\ r.o \in Nat /\ r.v \in Nat /\ r.o - level_order(l) \in 0..(BitsPerLevel * MaxLevels)
           /\ l > 0 => MayFree(r)
  <1>1. BitsPerLevel \in Nat \ {0} /\ MaxLevels \in Nat \ {0} /\ Top = MaxLevels - 1
    BY TableAssumption DEF Top
  <1>2. r.o \in Nat /\ r.v \in Nat /\ r.o <= BitsPerLevel * MaxLevels
    BY <1>1 DEF ValidRequests, Requests, Orders, Pages
  <1>3. CASE l = 0
    <2>1. level_order(l) = 0
      BY <1>1, <1>3 DEF level_order
    <2> QED
      BY <1>1, <1>2, <1>3, <2>1
  <1>4. CASE l # 0
    <2>1. r.kind = "update" /\ l <= r.o \div BitsPerLevel
      BY <1>4 DEF modified_level
    <2> DEFINE k == r.o \div BitsPerLevel
    <2>2. k \in Nat /\ r.o = BitsPerLevel * k + (r.o % BitsPerLevel) /\ r.o % BitsPerLevel \in Nat
      <3>1. \A a \in Nat, b \in Nat \ {0} : a \div b \in Nat /\ a = b * (a \div b) + (a % b) /\ a % b \in Nat
        OBVIOUS
      <3> QED
        BY <1>1, <1>2, <3>1
    <2> HIDE DEF k
    <2>3. l \in Nat /\ l <= k /\ 1 <= l
      BY <1>1, <1>4, <2>1 DEF k
    <2>4. PICK j \in Nat : k = l + j
      <3>1. k - l \in Nat /\ k = l + (k - l)
        BY <2>2, <2>3
      <3> QED
        BY <3>1
    <2>5. BitsPerLevel * k = l * BitsPerLevel + j * BitsPerLevel /\ j * BitsPerLevel \in Nat /\ l * BitsPerLevel \in Nat
      BY <1>1, <2>3, <2>4
    <2>6. l * BitsPerLevel <= r.o
      BY <1>2, <2>2, <2>5
    <2>7. PICK i \in Nat : l = 1 + i
      <3>1. l - 1 \in Nat /\ l = 1 + (l - 1)
        BY <2>3
      <3> QED
        BY <3>1
    <2>8. l * BitsPerLevel = BitsPerLevel + i * BitsPerLevel /\ i * BitsPerLevel \in Nat
      BY <1>1, <2>7
    <2>9. r.o >= BitsPerLevel
      BY <1>1, <1>2, <2>6, <2>8
    <2>10. level_order(l) = l * BitsPerLevel
      BY DEF level_order
    <2>11. BitsPerLevel * MaxLevels \in Nat
      BY <1>1
    <2>12. r.o - level_order(l) \in 0..(BitsPerLevel * MaxLevels)
      <3> DEFINE x == l * BitsPerLevel
                 y == BitsPerLevel * MaxLevels
      <3>1. x \in Nat /\ y \in Nat /\ x <= r.o /\ r.o <= y
        BY <1>2, <2>5, <2>6, <2>11
      <3> HIDE DEF x, y
      <3>2. r.o - x \in 0..y
        BY <1>2, <3>1
      <3> QED
        BY <2>10, <3>2 DEF x, y
    <2> QED
      BY <1>2, <2>1, <2>9, <2>12 DEF MayFree
  <1> QED
    BY <1>3, <1>4

\* The walk has got to table t at level l.
LEMMA ArriveOk ==
    ASSUME NEW u, u \subseteq Tables, NEW lv, NEW s, InProgress(s), s.pc = "walk", s.r \in ValidRequests, s.t \in u,
           s.l \in 0..Top, lv[s.t] = s.l
    PROVE  /\ CpuOk(u, lv, Arrive(s)) /\ Uses(Arrive(s)) \subseteq {s.t} /\ Priv(Arrive(s)) = {}
           /\ Arrive(s).r = s.r /\ Arrive(s).pc \in {"walk", "replace", "fill"}
  <1>1. CASE s.l > modified_level(s.r)
    <2>1. Arrive(s) = s
      BY <1>1 DEF Arrive
    <2> QED
      BY <2>1 DEF CpuOk, Uses, Priv, Walking
  <1>2. s.l <= modified_level(s.r) \/ s.l > modified_level(s.r)
    <2>1. modified_level(s.r) \in Int
      BY TableAssumption DEF modified_level, ValidRequests, Requests, Orders
    <2> QED
      BY <2>1
  <1>3. CASE s.l <= modified_level(s.r) /\ ~ (s.l > modified_level(s.r)) /\ s.r.kind = "replace"
    <2> DEFINE z == [s EXCEPT !.pc = "replace"]
    <2>1. Arrive(s) = z
      BY <1>3 DEF Arrive
    <2>2. z.pc = "replace" /\ z.t = s.t /\ z.l = s.l /\ z.r = s.r
      BY DEF InProgress
    <2>3. s.l = 0
      BY <1>3, TableAssumption DEF modified_level, Top
    <2> HIDE DEF z
    <2> QED
      BY <2>1, <2>2, <2>3 DEF CpuOk, Uses, Priv, Walking
  <1>4. CASE s.l <= modified_level(s.r) /\ ~ (s.l > modified_level(s.r)) /\ s.r.kind # "replace"
    <2> DEFINE q == FillJobs(s.t, s.l, s.r.v, s.r.o)
               z == [s EXCEPT !.pc = "fill", !.todo = q, !.t = Root, !.l = 0]
    <2>1. Arrive(s) = z
      BY <1>4 DEF Arrive
    <2>2. z.pc = "fill" /\ z.todo = q /\ z.r = s.r
      BY DEF InProgress
    <2>3. q \in Seq(Jobs) /\ \A i \in DOMAIN q : q[i].t = s.t /\ q[i].l = s.l
      <3>1. s.r.o \in Nat /\ s.r.v \in Nat /\ Spans(s.r.o, s.l) /\ s.t \in Tables
        BY <1>4, Reached DEF Spans
      <3>2. JobsOf(q, s.t, s.l)
        BY <3>1, FillJobsAre
      <3> QED
        BY <3>2 DEF JobsOf
    <2>4. s.l > 0 => MayFree(s.r)
      BY <1>4, Reached
    <2> HIDE DEF q, z
    <2>5. Rising(q)
      <3>1. s.l <= s.l
        BY TableAssumption DEF Top
      <3> QED
        BY <2>3, <3>1 DEF Rising
    <2>6. Filling(lv, z)
      BY <2>2, <2>3, <2>4, <2>5 DEF Filling
    <2>7. Uses(z) \subseteq {s.t}
      BY <2>2, <2>3 DEF Uses
    <2> QED
      BY <2>1, <2>2, <2>6, <2>7 DEF CpuOk, Priv
  <1> QED
    BY <1>1, <1>2, <1>3, <1>4

-----------------------------------------------------------------------------
(* The steps.                                                              *)

\* What is known of a CPU.
LEMMA Knows ==
    ASSUME IInv, NEW lv, Held(mem, used, lv, cpu), NEW c \in CPUs
    PROVE  /\ CpuOk(used, lv, cpu[c]) /\ Fresh(mem, cpu, c) /\ Alone(cpu, c) /\ InProgress(cpu[c])
           /\ Uses(cpu[c]) \subseteq used /\ Uses(cpu[c]) \cap News(cpu) = {}
           /\ Priv(cpu[c]) \subseteq used \ {Root}
           /\ \A d \in CPUs \ {c} : Priv(cpu[c]) \cap Priv(cpu[d]) = {}
           /\ used \subseteq Tables /\ Root \in used /\ Root \notin News(cpu) /\ lv[Root] = Top
  <1>1. Cpus(mem, used, lv, cpu) /\ Forest(mem, used, lv, Private(cpu))
    BY DEF Held
  <1>2. News(cpu) \subseteq Private(cpu) /\ \A d \in CPUs : Uses(cpu[d]) \cap News(cpu) = {}
    BY <1>1, NewsAre
  <1>3. Private(cpu) \subseteq used \ {Root} /\ used \subseteq Tables /\ Root \in used /\ lv[Root] = Top
    BY <1>1 DEF Forest
  <1>4. Priv(cpu[c]) \subseteq Private(cpu)
    BY DEF Private
  <1>5. /\ CpuOk(used, lv, cpu[c]) /\ Fresh(mem, cpu, c) /\ Alone(cpu, c)
        /\ \A d \in CPUs \ {c} : Priv(cpu[c]) \cap Priv(cpu[d]) = {}
    BY <1>1 DEF Cpus
  <1>6. Uses(cpu[c]) \subseteq used
    BY <1>5 DEF CpuOk
  <1>7. InProgress(cpu[c])
    BY DEF IInv
  <1> QED
    BY <1>2, <1>3, <1>4, <1>5, <1>6, <1>7

\* What an entry leads to.
LEMMA Leads ==
    ASSUME NEW lv, Held(mem, used, lv, cpu), NEW t \in used, NEW i \in Entries, mem[t][i].k = "table"
    PROVE  /\ mem[t][i].to \in used /\ mem[t][i].to \notin Private(cpu) /\ mem[t][i].to \notin News(cpu)
           /\ lv[mem[t][i].to] = lv[t] - 1 /\ lv[t] \in 1..Top /\ lv[t] - 1 \in 0..Top
  <1>1. Cpus(mem, used, lv, cpu) /\ Forest(mem, used, lv, Private(cpu))
    BY DEF Held
  <1>2. News(cpu) \subseteq Private(cpu)
    BY <1>1, NewsAre
  <1>3. mem[t][i].to \in used /\ lv[mem[t][i].to] = lv[t] - 1 /\ used \subseteq Tables /\ lv \in [Tables -> 0..Top]
    BY <1>1 DEF Forest
  <1>4. mem[t][i].to \notin Private(cpu)
    BY <1>1 DEF Forest, Points
  <1>5. lv[t] \in 0..Top /\ lv[t] - 1 \in 0..Top
    BY <1>3
  <1>6. Top \in Nat
    BY TableAssumption DEF Top
  <1>7. lv[t] \in 1..Top
    BY <1>5, <1>6
  <1> QED
    BY <1>2, <1>3, <1>4, <1>5, <1>7

\* The entry that a walk is at.
LEMMA WalkAt ==
    ASSUME IInv, NEW lv, Held(mem, used, lv, cpu), NEW c \in CPUs,
           cpu[c].pc \in {"walk", "split", "replace", "swap", "lookup"}
    PROVE  /\ cpu[c].r \in ValidRequests /\ Index(c) \in Entries /\ cpu[c].t \in used
           /\ cpu[c].l \in 0..Top /\ lv[cpu[c].t] = cpu[c].l /\ Walking(lv, cpu[c]) /\ Uses(cpu[c]) = {cpu[c].t}
           /\ Read(c).k = "table" =>
                  /\ Read(c).to \in used /\ Read(c).to \notin News(cpu) /\ lv[Read(c).to] = cpu[c].l - 1
                  /\ cpu[c].l \in 1..Top /\ cpu[c].l - 1 \in 0..Top
  <1>1. CpuOk(used, lv, cpu[c])
    BY Knows
  <1>2. Uses(cpu[c]) = {cpu[c].t}
    BY DEF Uses
  <1>3. cpu[c].r \in ValidRequests /\ cpu[c].t \in used /\ Walking(lv, cpu[c])
    BY <1>1, <1>2 DEF CpuOk
  <1>4. cpu[c].l \in 0..Top /\ lv[cpu[c].t] = cpu[c].l
    BY <1>3 DEF Walking
  <1>5. cpu[c].r.v \in Nat
    BY <1>3 DEF ValidRequests, Requests, Pages
  <1>6. Index(c) \in Entries
    BY <1>4, <1>5, IndexIsEntry DEF Index, Top
  <1>7. Read(c) = mem[cpu[c].t][Index(c)]
    BY DEF Read
  <1> QED
    BY <1>2, <1>3, <1>4, <1>6, <1>7, Leads

\* The entry that fill_entries is at.
LEMMA FillAt ==
    ASSUME IInv, NEW lv, Held(mem, used, lv, cpu), NEW c \in CPUs,
           cpu[c].pc \in {"fill", "install", "cleanup"}, cpu[c].todo # <<>>
    PROVE  LET i == virt_to_index(Job(c).l, Job(c).v)
           IN  /\ cpu[c].r \in ValidRequests /\ Filling(lv, cpu[c])
               /\ Uses(cpu[c]) = {cpu[c].todo[k].t : k \in DOMAIN cpu[c].todo}
               /\ Job(c) \in Jobs /\ Job(c) = cpu[c].todo[1] /\ 1 \in DOMAIN cpu[c].todo
               /\ i \in Entries /\ JobEntry(c) = mem[Job(c).t][i]
               /\ Job(c).t \in used /\ Job(c).t \in Uses(cpu[c]) /\ Job(c).l \in 0..Top /\ lv[Job(c).t] = Job(c).l
               /\ Job(c).v \in Nat
               /\ Job(c).l > 0 => MayFree(cpu[c].r) /\ \A d \in CPUs \ {c} : cpu[d].pc = "idle"
               /\ JobEntry(c).k = "table" =>
                      /\ JobEntry(c).to \in used /\ JobEntry(c).to \notin News(cpu) /\ JobEntry(c).to \notin Private(cpu)
                      /\ lv[JobEntry(c).to] = Job(c).l - 1 /\ Job(c).l \in 1..Top /\ Job(c).l - 1 \in 0..Top
  <1> DEFINE i == virt_to_index(Job(c).l, Job(c).v)
  <1>1. CpuOk(used, lv, cpu[c]) /\ Alone(cpu, c)
    BY Knows
  <1>2. Uses(cpu[c]) = {cpu[c].todo[k].t : k \in DOMAIN cpu[c].todo}
    BY DEF Uses
  <1>3. cpu[c].r \in ValidRequests /\ Filling(lv, cpu[c]) /\ Uses(cpu[c]) \subseteq used
    BY <1>1 DEF CpuOk
  <1>4. cpu[c].todo \in Seq(Jobs)
    BY <1>3 DEF Filling
  <1>5. Job(c) = cpu[c].todo[1] /\ 1 \in DOMAIN cpu[c].todo /\ Job(c) \in Jobs
    BY <1>4 DEF Job
  <1>6. Job(c).t \in Uses(cpu[c]) /\ Job(c).t \in used /\ lv[Job(c).t] = Job(c).l /\ (Job(c).l > 0 => MayFree(cpu[c].r))
    <2>1. lv[cpu[c].todo[1].t] = cpu[c].todo[1].l /\ (cpu[c].todo[1].l > 0 => MayFree(cpu[c].r))
      BY <1>3, <1>5 DEF Filling
    <2>2. cpu[c].todo[1].t \in Uses(cpu[c])
      BY <1>2, <1>5
    <2> QED
      BY <1>3, <1>5, <2>1, <2>2
  <1>7. Job(c).l \in 0..Top /\ Job(c).v \in Nat
    BY <1>5 DEF Jobs
  <1>8. i \in Entries
    BY <1>7, IndexIsEntry DEF Top
  <1>9. JobEntry(c) = mem[Job(c).t][i]
    BY DEF JobEntry
  <1>10. MayFree(cpu[c].r) => \A d \in CPUs \ {c} : cpu[d].pc = "idle"
    BY <1>1 DEF Alone
  <1>11. JobEntry(c).k = "table" =>
             /\ JobEntry(c).to \in used /\ JobEntry(c).to \notin News(cpu) /\ JobEntry(c).to \notin Private(cpu)
             /\ lv[JobEntry(c).to] = Job(c).l - 1 /\ Job(c).l \in 1..Top /\ Job(c).l - 1 \in 0..Top
    BY <1>6, <1>8, <1>9, Leads
  <1>12. Job(c).l > 0 => MayFree(cpu[c].r) /\ \A d \in CPUs \ {c} : cpu[d].pc = "idle"
    BY <1>6, <1>10
  <1> HIDE DEF i
  <1>13. /\ cpu[c].r \in ValidRequests /\ Filling(lv, cpu[c])
         /\ Job(c) \in Jobs /\ Job(c) = cpu[c].todo[1] /\ 1 \in DOMAIN cpu[c].todo
         /\ i \in Entries /\ JobEntry(c) = mem[Job(c).t][i]
         /\ Job(c).t \in used /\ Job(c).t \in Uses(cpu[c]) /\ Job(c).l \in 0..Top /\ lv[Job(c).t] = Job(c).l
         /\ Job(c).v \in Nat
    BY <1>3, <1>5, <1>6, <1>7, <1>8, <1>9
  <1> QED
    BY <1>2, <1>11, <1>12, <1>13, Zenon DEF i

\* A step that changes no table.
LEMMA Quiet ==
    ASSUME IInv, NEW lv, Held(mem, used, lv, cpu), NEW c \in CPUs, NEW s, Go(c, s), UNCHANGED <<mem, used>>,
           CpuOk(used, lv, s), Priv(cpu[c]) = {}, Priv(s) = {}, Uses(s) \cap News(cpu) = {},
           s.pc \notin {"split", "install"},
           Goes(cpu, cpu', c, s)
    PROVE  Held(mem', used', lv, cpu')
  <1>1. cpu' = [cpu EXCEPT ![c] = s] /\ cpu = [d \in CPUs |-> cpu[d]]
    BY DEF Go, IInv
  <1>2. Cpus(mem, used, lv, cpu') /\ Forest(mem, used, lv, Private(cpu'))
    BY <1>1, QuietOk DEF Held
  <1> QED
    BY <1>2 DEF Held

\* A request that ends.
LEMMA Ends ==
    ASSUME IInv, NEW lv, Held(mem, used, lv, cpu), NEW c \in CPUs, NEW s, Go(c, s), UNCHANGED <<mem, used>>,
           cpu[c].pc \in {"walk", "replace", "swap", "lookup"}, s.pc = "done", s.r = cpu[c].r
    PROVE  Held(mem', used', lv, cpu')
  <1>1. cpu[c].r \in ValidRequests
    BY WalkAt
  <1>2. Priv(cpu[c]) = {} /\ Priv(s) = {} /\ Uses(s) = {}
    BY DEF Priv, Uses
  <1>3. CpuOk(used, lv, s)
    BY <1>1, <1>2 DEF CpuOk
  <1>4. Goes(cpu, cpu', c, s)
    BY DEF Goes
  <1> QED
    BY <1>2, <1>3, <1>4, Quiet

\* Where no leaf may be written there is a level below.
LEMMA DeepJob ==
    ASSUME NEW c, leaf_levels \in LeafLevels, ~ WritesLeaf(c), Job(c).l \in 0..Top
    PROVE  Job(c).l > 0 /\ Job(c).l \in 1..Top /\ Job(c).l - 1 \in 0..Top
  <1> DEFINE l == Job(c).l
  <1>1. leaf_levels \in Nat /\ leaf_levels >= 1 /\ Top \in Nat
    BY TableAssumption DEF Top
  <1>2. ~ (l < leaf_levels)
    BY DEF WritesLeaf
  <1> HIDE DEF l
  <1>3. l \in 0..Top
    BY DEF l
  <1>4. l > 0 /\ l \in 1..Top /\ l - 1 \in 0..Top
    BY <1>1, <1>2, <1>3
  <1> QED
    BY <1>4 DEF l

\* A walk that goes on or starts at t.
LEMMA Arrives ==
    ASSUME IInv, NEW lv, Held(mem, used, lv, cpu), NEW c \in CPUs, NEW s, InProgress(s), s.pc = "walk",
           s.r \in ValidRequests, s.t \in used, s.t \notin News(cpu), s.l \in 0..Top, lv[s.t] = s.l,
           Go(c, Arrive(s)), UNCHANGED <<mem, used>>, cpu[c].pc \in {"walk", "idle"}, Goes(cpu, cpu', c, Arrive(s))
    PROVE  Held(mem', used', lv, cpu')
  <1>1. used \subseteq Tables
    BY Knows
  <1>2. /\ CpuOk(used, lv, Arrive(s)) /\ Uses(Arrive(s)) \subseteq {s.t} /\ Priv(Arrive(s)) = {}
        /\ Arrive(s).r = s.r /\ Arrive(s).pc \in {"walk", "replace", "fill"}
    BY <1>1, ArriveOk
  <1>3. Priv(cpu[c]) = {}
    BY DEF Priv
  <1>4. Uses(Arrive(s)) \cap News(cpu) = {} /\ Arrive(s).pc \notin {"split", "install"}
    BY <1>2
  <1> QED
    BY <1>2, <1>3, <1>4, Quiet

LEMMA BeginKeeps ==
    ASSUME ~ Concurrent, IInv, NEW lv, Held(mem, used, lv, cpu), NEW c \in CPUs, Begin(c)
    PROVE  Held(mem', used', lv, cpu')
  <1>1. PICK r \in ValidRequests :
            /\ Busy = {} \/ ~ (MayFree(r) \/ \E d \in Busy : MayFree(cpu[d].r))
            /\ Go(c, IF r.kind = "lookup" THEN [Resting EXCEPT !.pc = "lookup", !.r = r]
                     ELSE Arrive([Resting EXCEPT !.pc = "walk", !.r = r]))
    BY Zenon DEF Begin
  <1>2. cpu[c].pc = "idle" /\ UNCHANGED <<mem, used>>
    BY DEF Begin
  <1>3. cpu = [d \in CPUs |-> cpu[d]] /\ \A d \in CPUs : Alone(cpu, d)
    BY Knows DEF IInv
  <1>4. Root \in used /\ Root \notin News(cpu) /\ lv[Root] = Top
    BY Knows
  <1>5. Top \in 0..Top
    BY TableAssumption DEF Top
  <1>6. ASSUME NEW s, Go(c, s), s.r = r PROVE Goes(cpu, cpu', c, s)
    <2>1. cpu'[c] = s /\ \A d \in CPUs \ {c} : cpu'[d] = cpu[d]
      BY <1>3, <1>6 DEF Go
    <2>2. \A d \in CPUs : cpu[d].pc # "idle" => d \in Busy /\ d # c
      BY <1>2 DEF Busy
    <2>3. ASSUME NEW d \in CPUs PROVE Alone(cpu', d)
      <3>1. CASE d = c
        BY <1>1, <1>6, <2>1, <2>2, <3>1 DEF Alone
      <3>2. CASE d # c
        BY <1>1, <2>1, <2>2, <3>2 DEF Alone
      <3> QED
        BY <3>1, <3>2
    <2> QED
      BY <2>3 DEF Goes
  <1>7. CASE r.kind = "lookup"
    <2> DEFINE s == [Resting EXCEPT !.pc = "lookup", !.r = r]
    <2>1. s.pc = "lookup" /\ s.r = r /\ s.t = Root /\ s.l = Top
      BY DEF Resting, Top
    <2>2. Go(c, s)
      BY <1>1, <1>7
    <2> HIDE DEF s
    <2>3. Uses(s) = {Root} /\ Priv(s) = {} /\ Priv(cpu[c]) = {}
      BY <1>2, <2>1 DEF Uses, Priv
    <2>4. CpuOk(used, lv, s)
      BY <1>4, <1>5, <2>1, <2>3 DEF CpuOk, Walking
    <2>5. Goes(cpu, cpu', c, s)
      BY <1>6, <2>1, <2>2
    <2>6. Uses(s) \cap News(cpu) = {} /\ s.pc \notin {"split", "install"}
      BY <1>4, <2>1, <2>3
    <2> QED
      BY <1>2, <2>2, <2>3, <2>4, <2>5, <2>6, Quiet
  <1>8. CASE r.kind # "lookup"
    <2> DEFINE s == [Resting EXCEPT !.pc = "walk", !.r = r]
    <2>1. s.pc = "walk" /\ s.r = r /\ s.t = Root /\ s.l = Top /\ InProgress(s)
      BY DEF Resting, Top, InProgress, Empty
    <2>2. Go(c, Arrive(s))
      BY <1>1, <1>8
    <2> HIDE DEF s
    <2>3. Arrive(s).r = r
      BY <1>4, <1>5, <2>1, ArriveOk, Knows
    <2>4. Goes(cpu, cpu', c, Arrive(s))
      BY <1>6, <2>2, <2>3
    <2> QED
      BY <1>2, <1>4, <1>5, <2>1, <2>2, <2>4, Arrives
  <1> QED
    BY <1>7, <1>8

LEMMA WalkDownKeeps ==
    ASSUME IInv, NEW lv, Held(mem, used, lv, cpu), NEW c \in CPUs, WalkDown(c)
    PROVE  Held(mem', used', lv, cpu')
  <1> DEFINE s == [cpu[c] EXCEPT !.pc = "walk", !.t = Read(c).to, !.l = cpu[c].l - 1, !.old = Empty, !.new = Empty]
  <1>1. cpu[c].pc = "walk" /\ Read(c).k = "table" /\ UNCHANGED <<mem, used>> /\ Go(c, Arrive(s))
    BY DEF WalkDown, Descend
  <1>2. InProgress(cpu[c])
    BY Knows
  <1>3. s.pc = "walk" /\ s.t = Read(c).to /\ s.l = cpu[c].l - 1 /\ s.r = cpu[c].r /\ InProgress(s)
    BY <1>2 DEF InProgress, Empty
  <1> HIDE DEF s
  <1>4. /\ s.r \in ValidRequests /\ s.t \in used /\ s.t \notin News(cpu) /\ s.l \in 0..Top /\ lv[s.t] = s.l
    BY <1>1, <1>3, WalkAt
  <1>5. Arrive(s).r = cpu[c].r
    BY <1>3, <1>4, ArriveOk, Knows
  <1>6. Goes(cpu, cpu', c, Arrive(s))
    BY <1>1, <1>5 DEF Goes
  <1> QED
    BY <1>1, <1>3, <1>4, <1>6, Arrives

LEMMA WalkEndsKeep ==
    ASSUME IInv, NEW lv, Held(mem, used, lv, cpu), NEW c \in CPUs, WalkNothing(c) \/ WalkOutOfMemory(c)
    PROVE  Held(mem', used', lv, cpu')
  <1>1. PICK s \in {Done(cpu[c]), [Done(cpu[c]) EXCEPT !.failed = TRUE]} :
            Go(c, s) /\ UNCHANGED <<mem, used>> /\ cpu[c].pc = "walk"
    BY DEF WalkNothing, WalkOutOfMemory, NeedsTable
  <1>2. InProgress(cpu[c])
    BY Knows
  <1>3. s.pc = "done" /\ s.r = cpu[c].r
    BY <1>2 DEF InProgress, Done
  <1> QED
    BY <1>1, <1>3, Ends

LEMMA ReplaceReadKeeps ==
    ASSUME IInv, NEW lv, Held(mem, used, lv, cpu), NEW c \in CPUs, ReplaceRead(c)
    PROVE  Held(mem', used', lv, cpu')
  <1>1. cpu[c].pc = "replace" /\ UNCHANGED <<mem, used>>
    BY DEF ReplaceRead
  <1>2. InProgress(cpu[c])
    BY Knows
  <1>3. CASE Read(c).w = "w"
    <2> DEFINE s == [Done(cpu[c]) EXCEPT !.res = At(Read(c), 0)]
    <2>1. s.pc = "done" /\ s.r = cpu[c].r
      BY <1>2 DEF InProgress, Done
    <2>2. Go(c, s)
      BY <1>3 DEF ReplaceRead
    <2> HIDE DEF s
    <2> QED
      BY <1>1, <2>1, <2>2, Ends
  <1>4. CASE Read(c).w # "w"
    <2> DEFINE s == [cpu[c] EXCEPT !.pc = "swap", !.old = Read(c)]
    <2>1. s.pc = "swap" /\ s.r = cpu[c].r /\ s.t = cpu[c].t /\ s.l = cpu[c].l
      BY <1>2 DEF InProgress
    <2>2. Go(c, s)
      BY <1>4 DEF ReplaceRead
    <2> HIDE DEF s
    <2>3. /\ cpu[c].r \in ValidRequests /\ cpu[c].t \in used /\ Walking(lv, cpu[c])
          /\ Uses(cpu[c]) = {cpu[c].t}
      BY <1>1, WalkAt
    <2>4. Uses(s) = Uses(cpu[c]) /\ Priv(s) = {} /\ Priv(cpu[c]) = {}
      BY <1>1, <2>1, <2>3 DEF Uses, Priv
    <2>5. CpuOk(used, lv, s)
      BY <1>1, <2>1, <2>3, <2>4 DEF CpuOk, Walking
    <2>6. Goes(cpu, cpu', c, s) /\ Uses(s) \cap News(cpu) = {} /\ s.pc \notin {"split", "install"}
      BY <1>1, <2>1, <2>4, Knows DEF Goes
    <2> QED
      BY <1>1, <2>2, <2>4, <2>5, <2>6, Quiet
  <1> QED
    BY <1>3, <1>4

LEMMA LookupKeeps ==
    ASSUME IInv, NEW lv, Held(mem, used, lv, cpu), NEW c \in CPUs, lookup(c)
    PROVE  Held(mem', used', lv, cpu')
  <1>1. cpu[c].pc = "lookup" /\ UNCHANGED <<mem, used>>
    BY DEF lookup
  <1>2. InProgress(cpu[c])
    BY Knows
  <1>3. CASE Read(c).k = "table"
    <2> DEFINE s == [cpu[c] EXCEPT !.t = Read(c).to, !.l = @ - 1]
    <2>1. s.pc = "lookup" /\ s.r = cpu[c].r /\ s.t = Read(c).to /\ s.l = cpu[c].l - 1
      BY <1>1, <1>2 DEF InProgress
    <2>2. Go(c, s)
      BY <1>3 DEF lookup
    <2> HIDE DEF s
    <2>3. /\ cpu[c].r \in ValidRequests /\ s.t \in used /\ s.t \notin News(cpu) /\ s.l \in 0..Top /\ lv[s.t] = s.l
      BY <1>1, <1>3, <2>1, WalkAt
    <2>4. Uses(s) = {s.t} /\ Priv(s) = {} /\ Priv(cpu[c]) = {}
      BY <1>1, <2>1 DEF Uses, Priv
    <2>5. CpuOk(used, lv, s)
      BY <2>1, <2>3, <2>4 DEF CpuOk, Walking
    <2>6. Goes(cpu, cpu', c, s) /\ Uses(s) \cap News(cpu) = {} /\ s.pc \notin {"split", "install"}
      BY <1>1, <2>1, <2>3, <2>4 DEF Goes
    <2> QED
      BY <1>1, <2>2, <2>4, <2>5, <2>6, Quiet
  <1>4. CASE Read(c).k # "table"
    <2> DEFINE x == At(Read(c), cpu[c].r.v % 2^level_order(cpu[c].l))
               s == [Done(cpu[c]) EXCEPT !.res = x]
    <2>1. Go(c, s)
      BY <1>4 DEF lookup
    <2> HIDE DEF x
    <2>2. s.pc = "done" /\ s.r = cpu[c].r
      BY <1>2 DEF InProgress, Done
    <2> HIDE DEF s
    <2> QED
      BY <1>1, <2>1, <2>2, Ends
  <1> QED
    BY <1>3, <1>4

LEMMA ReturnKeeps ==
    ASSUME IInv, NEW lv, Held(mem, used, lv, cpu), NEW c \in CPUs, Return(c)
    PROVE  Held(mem', used', lv, cpu')
  <1>1. cpu[c].pc = "done" /\ UNCHANGED <<mem, used>> /\ Go(c, Resting)
    BY DEF Return
  <1>2. Resting.pc = "idle"
    BY DEF Resting
  <1>3. Priv(cpu[c]) = {} /\ Priv(Resting) = {} /\ Uses(Resting) = {}
    BY <1>1, <1>2 DEF Priv, Uses
  <1>4. CpuOk(used, lv, Resting) /\ Goes(cpu, cpu', c, Resting) /\ Resting.pc \notin {"split", "install"}
    BY <1>2, <1>3 DEF CpuOk, Goes
  <1> QED
    BY <1>1, <1>3, <1>4, Quiet

\* A step that changes tables.
LEMMA Moved ==
    ASSUME IInv, NEW lv, Held(mem, used, lv, cpu), NEW c \in CPUs, NEW s, Go(c, s), NEW kv,
           CpuOk(used', kv, s), Apart(mem, mem', used', kv, cpu, c, s), cpu[c].pc # "idle", s.r = cpu[c].r,
           Forest(mem', used', kv, (Private(cpu) \ Priv(cpu[c])) \cup Priv(s))
    PROVE  Held(mem', used', kv, cpu')
  <1>1. cpu' = [cpu EXCEPT ![c] = s] /\ cpu = [d \in CPUs |-> cpu[d]]
    BY DEF Go, IInv
  <1>2. Goes(cpu, cpu', c, s)
    BY DEF Goes
  <1>3. Cpus(mem', used', kv, cpu') /\ Private(cpu') = (Private(cpu) \ Priv(cpu[c])) \cup Priv(s)
    BY <1>1, <1>2, StepOk DEF Held
  <1> QED
    BY <1>3 DEF Held

\* One entry of a table that the CPU goes on to use is written.
LEMMA WriteApart ==
    ASSUME IInv, NEW lv, Held(mem, used, lv, cpu), NEW c \in CPUs, NEW s, NEW t \in Uses(cpu[c]), NEW i,
           OneEntry(mem, mem', t, i), s.pc \notin {"split", "install"},
           \A d \in CPUs \ {c} : Priv(s) \cap Priv(cpu[d]) = {},
           \A d \in CPUs \ {c} : cpu[d].pc \in {"split", "install"} => cpu[d].new.to \notin Uses(s)
    PROVE  Apart(mem, mem', used, lv, cpu, c, s)
  <1>1. ASSUME NEW d \in CPUs \ {c}, cpu[d].pc \in {"split", "install"}
        PROVE  cpu[d].new.to \in Tables /\ cpu[d].new.to # t
    <2>1. Priv(cpu[d]) = {cpu[d].new.to} /\ Priv(cpu[d]) \subseteq used /\ used \subseteq Tables
      BY <1>1, Knows DEF Priv
    <2>2. cpu[d].new.to \notin Uses(cpu[c])
      BY <1>1, Knows DEF Fresh
    <2> QED
      BY <2>1, <2>2
  <1>2. \A d \in CPUs : CpuOk(used, lv, cpu[d])
    BY Knows
  <1> QED
    BY <1>1, <1>2 DEF Apart, OneEntry

LEMMA ReplaceSwapKeeps ==
    ASSUME IInv, NEW lv, Held(mem, used, lv, cpu), NEW c \in CPUs, ReplaceSwap(c)
    PROVE  Held(mem', used', lv, cpu')
  <1>1. cpu[c].pc = "swap" /\ used' = used
    BY DEF ReplaceSwap
  <1>2. InProgress(cpu[c])
    BY Knows
  <1>3. /\ cpu[c].r \in ValidRequests /\ cpu[c].t \in used /\ Walking(lv, cpu[c]) /\ Index(c) \in Entries
        /\ Uses(cpu[c]) = {cpu[c].t} /\ cpu[c].l = 0 /\ (Read(c).k = "table" => cpu[c].l \in 1..Top)
    <2>1. /\ cpu[c].r \in ValidRequests /\ cpu[c].t \in used /\ Walking(lv, cpu[c]) /\ Index(c) \in Entries
          /\ Uses(cpu[c]) = {cpu[c].t} /\ (Read(c).k = "table" => cpu[c].l \in 1..Top)
      BY <1>1, WalkAt
    <2> QED
      BY <1>1, <2>1 DEF Walking
  <1>4. used \subseteq Tables /\ Shape(mem)
    BY Knows DEF IInv
  <1>5. CASE Read(c) = cpu[c].old
    <2> DEFINE x == ReplaceEntry(c)
               s == [Done(cpu[c]) EXCEPT !.res = At(x, 0)]
               i == Index(c)
    <2>1. Go(c, s) /\ mem' = [mem EXCEPT ![cpu[c].t][i] = x]
      BY <1>5 DEF ReplaceSwap
    <2>2. x.k = "page"
      BY DEF ReplaceEntry, Page
    <2>3. mem[cpu[c].t][i].k # "table"
      <3>1. ~ (0 \in 1..Top)
        BY TableAssumption DEF Top
      <3> QED
        BY <1>3, <3>1 DEF Read
    <2>4. i \in Entries
      BY <1>3
    <2> HIDE DEF x, i
    <2>5. s.pc = "done" /\ s.r = cpu[c].r
      BY <1>2 DEF InProgress, Done
    <2> HIDE DEF s
    <2>6. OneEntry(mem, mem', cpu[c].t, i) /\ mem'[cpu[c].t][i] = x
      <3> DEFINE t == cpu[c].t
      <3>1. t \in Tables /\ mem' = [mem EXCEPT ![t][i] = x] /\ Shape(mem)
        BY <1>3, <1>4, <2>1
      <3> HIDE DEF t
      <3>2. OneEntry(mem, mem', t, i) /\ mem'[t][i] = x
        BY <2>4, <3>1 DEF Shape, OneEntry
      <3> QED
        BY <3>2 DEF t
    <2>7. Priv(cpu[c]) = {} /\ Priv(s) = {} /\ Uses(s) = {}
      BY <1>1, <2>5 DEF Priv, Uses
    <2>8. CpuOk(used, lv, s)
      BY <1>3, <2>5, <2>7 DEF CpuOk
    <2>9. Apart(mem, mem', used, lv, cpu, c, s)
      BY <1>3, <2>5, <2>6, <2>7, WriteApart
    <2>10. Forest(mem', used, lv, Private(cpu))
      BY <1>3, <2>2, <2>3, <2>4, <2>6, Rewrites DEF Held
    <2>11. (Private(cpu) \ Priv(cpu[c])) \cup Priv(s) = Private(cpu)
      BY <2>7
    <2> QED
      BY <1>1, <2>1, <2>5, <2>8, <2>9, <2>10, <2>11, Moved
  <1>6. CASE Read(c) # cpu[c].old
    <2> DEFINE s == [cpu[c] EXCEPT !.pc = "replace", !.old = Empty]
    <2>1. s.pc = "replace" /\ s.r = cpu[c].r /\ s.t = cpu[c].t /\ s.l = cpu[c].l
      BY <1>2 DEF InProgress
    <2>2. Go(c, s) /\ UNCHANGED <<mem, used>>
      BY <1>6 DEF ReplaceSwap
    <2> HIDE DEF s
    <2>4. Uses(s) = Uses(cpu[c]) /\ Priv(s) = {} /\ Priv(cpu[c]) = {}
      BY <1>1, <1>3, <2>1 DEF Uses, Priv
    <2>5. CpuOk(used, lv, s)
      BY <1>1, <1>3, <2>1, <2>4 DEF CpuOk, Walking
    <2>6. Goes(cpu, cpu', c, s) /\ Uses(s) \cap News(cpu) = {} /\ s.pc \notin {"split", "install"}
      BY <1>1, <2>1, <2>4, Knows DEF Goes
    <2> QED
      BY <1>1, <2>2, <2>4, <2>5, <2>6, Quiet
  <1> QED
    BY <1>5, <1>6

\* Table t is allocated for level l, which CPU c goes on to fill or to link.
LEMMA AllocOk ==
    ASSUME IInv, NEW lv, Held(mem, used, lv, cpu), NEW c \in CPUs, NEW s, Go(c, s), NEW t \in Tables \ used,
           used' = used \cup {t}, NEW l \in 0..Top,
           Filled(mem, mem', t), s.pc = "install" => \A j \in Entries : mem'[t][j] = Empty,
           s.pc \in {"split", "install"}, s.new.to = t, Priv(cpu[c]) = {},
           CpuOk(used \cup {t}, [lv EXCEPT ![t] = l], s), Uses(s) \subseteq Uses(cpu[c]), cpu[c].pc # "idle", s.r = cpu[c].r
    PROVE  \E kv \in [Tables -> 0..Top] : Held(mem', used', kv, cpu')
  <1> DEFINE kv == [lv EXCEPT ![t] = l]
  <1>1. Forest(mem', used', kv, Private(cpu) \cup {t})
    <2>1. Forest(mem, used, lv, Private(cpu)) /\ Filled(mem, mem', t)
      BY DEF Held
    <2>2. Forest(mem', used \cup {t}, [lv EXCEPT ![t] = l], Private(cpu) \cup {t})
      BY <2>1, Allocs
    <2> QED
      BY <2>2
  <1>2. lv \in [Tables -> 0..Top]
    BY DEF Held, Forest
  <1>3. kv \in [Tables -> 0..Top] /\ \A r \in used : kv[r] = lv[r]
    BY <1>2, Knows
  <1>4. CpuOk(used', kv, s)
    OBVIOUS
  <1> HIDE DEF kv
  <1>5. ASSUME NEW d \in CPUs \ {c}
        PROVE  /\ CpuOk(used', kv, cpu[d]) /\ t \notin Uses(cpu[d]) /\ t \notin Priv(cpu[d])
               /\ cpu[d].pc \in {"split", "install"} =>
                      /\ cpu[d].new.to \notin Uses(s)
                      /\ \A i \in Entries : mem'[cpu[d].new.to][i] = mem[cpu[d].new.to][i]
    <2>1. CpuOk(used, lv, cpu[d]) /\ Uses(cpu[d]) \subseteq used /\ Priv(cpu[d]) \subseteq used /\ used \subseteq Tables
      BY Knows
    <2>2. CpuOk(used', kv, cpu[d])
      BY <1>3, <2>1, Keeps
    <2>3. ASSUME cpu[d].pc \in {"split", "install"}
          PROVE  cpu[d].new.to \in used /\ cpu[d].new.to \notin Uses(cpu[c])
      <3>1. Priv(cpu[d]) = {cpu[d].new.to}
        BY <2>3 DEF Priv
      <3>2. cpu[d].new.to \notin Uses(cpu[c])
        BY <2>3, Knows DEF Fresh
      <3> QED
        BY <2>1, <3>1, <3>2
    <2> QED
      BY <2>1, <2>2, <2>3 DEF Filled
  <1>6. Priv(s) = {t}
    BY DEF Priv
  <1>7. Apart(mem, mem', used', kv, cpu, c, s)
    <2>1. t \notin Uses(s)
      BY Knows
    <2> QED
      BY <1>5, <1>6, <2>1 DEF Apart, Filled
  <1>8. (Private(cpu) \ Priv(cpu[c])) \cup Priv(s) = Private(cpu) \cup {t}
    BY <1>6
  <1>9. Held(mem', used', kv, cpu')
    BY <1>1, <1>4, <1>7, <1>8, Moved
  <1> QED
    BY <1>3, <1>9

LEMMA WalkAllocKeeps ==
    ASSUME IInv, NEW lv, Held(mem, used, lv, cpu), NEW c \in CPUs, WalkAlloc(c)
    PROVE  \E kv \in [Tables -> 0..Top] : Held(mem', used', kv, cpu')
  <1> DEFINE t == NewTable
             b == cpu[c].flush \/ is_superpage(cpu[c].l, Read(c))
             s == [cpu[c] EXCEPT !.pc = "split", !.old = Read(c), !.new = Table(t), !.flush = b]
             f == fill_from_superpage(cpu[c].l, Read(c))
             kv == [lv EXCEPT ![t] = cpu[c].l - 1]
  <1>1. /\ cpu[c].pc = "walk" /\ cpu[c].l > modified_level(cpu[c].r) /\ Read(c).k # "table" /\ Tables # used
        /\ used' = used \cup {t} /\ mem' = [mem EXCEPT ![t] = f] /\ Go(c, s)
    BY DEF WalkAlloc, NeedsTable
  <1>2. InProgress(cpu[c]) /\ used \subseteq Tables /\ Uses(cpu[c]) \subseteq used
    BY Knows
  <1>3. t \in Tables \ used
    BY <1>1, <1>2, NewIsFree
  <1>4. \A j \in Entries : f[j].k # "table"
    BY DEF fill_from_superpage, Page, Empty
  <1> HIDE DEF f
  <1>5. /\ s.pc = "split" /\ s.r = cpu[c].r /\ s.t = cpu[c].t /\ s.l = cpu[c].l /\ s.old = Read(c)
        /\ s.new = Table(t) /\ s.new.to = t
    <2> HIDE DEF b
    <2> QED
      BY <1>2 DEF InProgress, Table
  <1> HIDE DEF s, t
  <1>6. /\ cpu[c].r \in ValidRequests /\ cpu[c].t \in used /\ Walking(lv, cpu[c])
        /\ Uses(cpu[c]) = {cpu[c].t} /\ cpu[c].l \in 0..Top /\ lv[cpu[c].t] = cpu[c].l
    BY <1>1, WalkAt
  <1>7. cpu[c].l > 0 /\ cpu[c].l - 1 \in 0..Top
    <2>1. modified_level(cpu[c].r) \in Nat
      BY <1>6, LevelIsNat
    <2>2. Top \in Nat
      BY TableAssumption DEF Top
    <2> QED
      BY <1>1, <1>6, <2>1, <2>2
  <1>8. Uses(s) = {cpu[c].t} /\ Priv(cpu[c]) = {}
    BY <1>1, <1>5 DEF Uses, Priv
  <1>9. lv \in [Tables -> 0..Top]
    BY DEF Held, Forest
  <1>10. kv[t] = cpu[c].l - 1 /\ kv[cpu[c].t] = cpu[c].l
    BY <1>2, <1>3, <1>6, <1>9
  <1> HIDE DEF kv
  <1>11. Walking(kv, s)
    BY <1>1, <1>5, <1>6, <1>7, <1>10 DEF Walking
  <1>12. CpuOk(used \cup {t}, kv, s)
    BY <1>5, <1>6, <1>8, <1>11 DEF CpuOk
  <1>13. Filled(mem, mem', t) /\ s.pc # "install"
    <2>1. Shape(mem)
      BY DEF IInv
    <2> QED
      BY <1>1, <1>3, <1>4, <1>5, <2>1 DEF Shape, Filled
  <1>14. cpu[c].pc # "idle" /\ s.pc \in {"split", "install"} /\ Uses(s) \subseteq Uses(cpu[c])
    BY <1>1, <1>5, <1>6, <1>8
  <1>15. CpuOk(used \cup {t}, [lv EXCEPT ![t] = cpu[c].l - 1], s)
    BY <1>12 DEF kv
  <1> QED
    BY <1>1, <1>3, <1>5, <1>7, <1>8, <1>13, <1>14, <1>15, AllocOk

\* CPU c links its new table t into entry i of table w.
LEMMA LinkOk ==
    ASSUME IInv, NEW lv, Held(mem, used, lv, cpu), NEW c \in CPUs, NEW s, Go(c, s), used' = used,
           cpu[c].pc \in {"split", "install"}, NEW w \in Uses(cpu[c]), NEW i \in Entries,
           mem[w][i].k # "table", mem' = [mem EXCEPT ![w][i] = cpu[c].new],
           cpu[c].new = Table(cpu[c].new.to), lv[cpu[c].new.to] = lv[w] - 1,
           CpuOk(used, lv, s), Uses(s) \subseteq Uses(cpu[c]) \cup {cpu[c].new.to}, Priv(s) = {},
           s.pc \notin {"split", "install"}, s.r = cpu[c].r
    PROVE  Held(mem', used', lv, cpu')
  <1> DEFINE t == cpu[c].new.to
  <1>1. Priv(cpu[c]) = {t}
    BY DEF Priv
  <1>2. /\ w \in used /\ used \subseteq Tables /\ t \in used /\ \A d \in CPUs \ {c} : Priv(cpu[c]) \cap Priv(cpu[d]) = {}
    BY <1>1, Knows
  <1>3. OneEntry(mem, mem', w, i) /\ mem'[w][i] = Table(t)
    BY <1>2 DEF Shape, OneEntry, IInv
  <1> HIDE DEF t
  <1>4. t \in Private(cpu)
    BY <1>1 DEF Private
  <1>5. Forest(mem', used, lv, Private(cpu) \ {t})
    BY <1>2, <1>3, <1>4, Links DEF Held, t
  <1>6. ASSUME NEW d \in CPUs \ {c}, cpu[d].pc \in {"split", "install"} PROVE cpu[d].new.to \notin Uses(s)
    <2>1. Priv(cpu[d]) = {cpu[d].new.to}
      BY <1>6 DEF Priv
    <2>2. cpu[d].new.to # t
      BY <1>1, <1>2, <2>1
    <2>3. cpu[d].new.to \notin Uses(cpu[c])
      BY <1>6, Knows DEF Fresh
    <2> QED
      BY <2>2, <2>3 DEF t
  <1>7. Apart(mem, mem', used, lv, cpu, c, s)
    <2>1. \A d \in CPUs \ {c} : Priv(s) \cap Priv(cpu[d]) = {}
      OBVIOUS
    <2> QED
      BY <1>3, <1>6, <2>1, WriteApart
  <1>8. (Private(cpu) \ Priv(cpu[c])) \cup Priv(s) = Private(cpu) \ {t}
    BY <1>1
  <1>9. cpu[c].pc # "idle"
    OBVIOUS
  <1> QED
    BY <1>5, <1>7, <1>8, <1>9, Moved

\* A table of CPU c is given back, with what is below it.
LEMMA FreeOk ==
    ASSUME IInv, NEW lv, Held(mem, used, lv, cpu), NEW c \in CPUs, NEW s, Go(c, s), NEW e, e.k = "table",
           Priv(cpu[c]) = {e.to}, NEW G, G = SubTables(mem, e), used' = used \ G, Erased(mem, mem', G),
           \A d \in CPUs \ {c} : Uses(cpu[d]) \cap G = {},
           CpuOk(used, lv, s), Uses(s) \subseteq Uses(cpu[c]), Uses(s) \cap G = {}, Priv(s) = {},
           s.pc \notin {"split", "install"}, cpu[c].pc # "idle", s.r = cpu[c].r
    PROVE  Held(mem', used', lv, cpu')
  <1>1. e.to \in Private(cpu)
    BY DEF Private
  <1>2. /\ Forest(mem', used \ G, lv, Private(cpu) \ {e.to})
        /\ \A r \in G : r # e.to => r \notin Private(cpu)
    <2>1. Forest(mem, used, lv, Private(cpu))
      BY DEF Held
    <2> DEFINE P == Private(cpu)
    <2> HIDE DEF P
    <2>2. Forest(mem', used \ G, lv, P \ {e.to})
      BY <1>1, <2>1, Frees DEF P
    <2>3. \A r \in G : lv[r] <= lv[e.to] /\ (r # e.to => r \notin P)
      BY <1>1, <2>1, Frees DEF P
    <2> QED
      BY <2>2, <2>3 DEF P
  <1>3. ASSUME NEW d \in CPUs \ {c} PROVE Priv(cpu[d]) \cap G = {} /\ Priv(cpu[d]) \subseteq used
    <2>1. Priv(cpu[d]) \subseteq Private(cpu)
      BY DEF Private
    <2>2. e.to \notin Priv(cpu[d])
      BY Knows
    <2> QED
      BY <1>2, <2>1, <2>2, Knows
  <1>4. ASSUME NEW d \in CPUs \ {c} PROVE CpuOk(used', lv, cpu[d])
    <2>1. CpuOk(used, lv, cpu[d]) /\ Uses(cpu[d]) \subseteq used /\ Uses(cpu[d]) \cap G = {}
      BY Knows
    <2>2. \A t \in Uses(cpu[d]) \cup Priv(cpu[d]) : t \in used'
      BY <1>3, <2>1
    <2> QED
      BY <2>1, <2>2, Keeps
  <1>5. CpuOk(used', lv, s)
    <2>1. \A t \in Uses(s) \cup Priv(s) : t \in used'
      BY Knows
    <2> QED
      BY <2>1, Keeps
  <1>6. ASSUME NEW d \in CPUs \ {c}, cpu[d].pc \in {"split", "install"}
        PROVE  cpu[d].new.to \notin Uses(s) /\ \A i \in Entries : mem'[cpu[d].new.to][i] = mem[cpu[d].new.to][i]
    <2>1. Priv(cpu[d]) = {cpu[d].new.to}
      BY <1>6 DEF Priv
    <2>2. cpu[d].new.to \in used /\ cpu[d].new.to \notin G /\ used \subseteq Tables
      BY <1>3, <2>1, Knows
    <2>3. cpu[d].new.to \notin Uses(cpu[c])
      BY <1>6, Knows DEF Fresh
    <2> QED
      BY <2>2, <2>3 DEF Erased
  <1>7. Apart(mem, mem', used', lv, cpu, c, s)
    BY <1>4, <1>6 DEF Apart
  <1>8. (Private(cpu) \ Priv(cpu[c])) \cup Priv(s) = Private(cpu) \ {e.to}
    OBVIOUS
  <1>9. Forest(mem', used', lv, (Private(cpu) \ Priv(cpu[c])) \cup Priv(s))
    BY <1>2, <1>8
  <1> QED
    BY <1>5, <1>7, <1>9, Moved

\* A new table that leads nowhere is all that is below it.
LEMMA FreshAlone ==
    ASSUME IInv, NEW lv, Held(mem, used, lv, cpu), NEW c \in CPUs, cpu[c].pc \in {"split", "install"}
    PROVE  /\ cpu[c].new.k = "table" /\ Priv(cpu[c]) = {cpu[c].new.to} /\ SubTables(mem, cpu[c].new) = {cpu[c].new.to}
           /\ \A d \in CPUs : cpu[c].new.to \notin Uses(cpu[d])
  <1>1. CpuOk(used, lv, cpu[c]) /\ Fresh(mem, cpu, c) /\ Priv(cpu[c]) \subseteq used
    BY Knows
  <1>2. Priv(cpu[c]) = {cpu[c].new.to}
    BY DEF Priv
  <1>3. cpu[c].new = Table(cpu[c].new.to)
    BY <1>1 DEF CpuOk, Walking, Filling
  <1>4. cpu[c].new.k = "table"
    BY <1>3 DEF Table
  <1>5. Closed(mem, used, {cpu[c].new.to})
    BY <1>1 DEF Fresh, Closed
  <1>6. SubTables(mem, cpu[c].new) = {cpu[c].new.to}
    <2> DEFINE e == cpu[c].new
    <2>1. Forest(mem, used, lv, Private(cpu)) /\ e.k = "table" /\ e.to \in used
      BY <1>1, <1>2, <1>4 DEF Held
    <2>2. /\ e.to \in SubTables(mem, e)
          /\ \A K : e.to \in K /\ Closed(mem, used, K) => SubTables(mem, e) \subseteq K
      <3> HIDE DEF e
      <3> QED
        BY <2>1, SubTablesAre
    <2>3. SubTables(mem, e) \subseteq {e.to}
      BY <1>5, <2>2
    <2> QED
      BY <2>2, <2>3
  <1> QED
    BY <1>1, <1>2, <1>4, <1>6 DEF Fresh

LEMMA WalkInstallKeeps ==
    ASSUME IInv, NEW lv, Held(mem, used, lv, cpu), NEW c \in CPUs, WalkInstall(c)
    PROVE  Held(mem', used', lv, cpu')
  <1> DEFINE t == cpu[c].new.to
  <1>1. cpu[c].pc = "split"
    BY DEF WalkInstall
  <1>2. InProgress(cpu[c]) /\ used \subseteq Tables /\ Priv(cpu[c]) \subseteq used
    BY Knows
  <1>3. /\ cpu[c].new.k = "table" /\ Priv(cpu[c]) = {t} /\ SubTables(mem, cpu[c].new) = {t}
        /\ \A d \in CPUs : t \notin Uses(cpu[d])
    BY <1>1, FreshAlone
  <1>4. /\ cpu[c].r \in ValidRequests /\ cpu[c].t \in used /\ Walking(lv, cpu[c]) /\ Index(c) \in Entries
        /\ Uses(cpu[c]) = {cpu[c].t} /\ cpu[c].l \in 0..Top /\ lv[cpu[c].t] = cpu[c].l
    BY <1>1, WalkAt
  <1>5. cpu[c].l > 0 /\ cpu[c].new = Table(t) /\ lv[t] = cpu[c].l - 1 /\ cpu[c].old.k # "table"
    BY <1>1, <1>4 DEF Walking
  <1>6. CASE Read(c) = cpu[c].old
    <2> DEFINE s == [cpu[c] EXCEPT !.pc = "walk", !.t = t, !.l = cpu[c].l - 1, !.old = Empty, !.new = Empty]
               i == Index(c)
    <2>1. mem' = [mem EXCEPT ![cpu[c].t][i] = cpu[c].new] /\ used' = used /\ Go(c, Arrive(s))
      BY <1>6 DEF WalkInstall, Descend
    <2>2. s.pc = "walk" /\ s.t = t /\ s.l = cpu[c].l - 1 /\ s.r = cpu[c].r /\ InProgress(s)
      BY <1>2 DEF InProgress, Empty
    <2> HIDE DEF s
    <2>3. s.r \in ValidRequests /\ s.t \in used /\ s.l \in 0..Top /\ lv[s.t] = s.l
      <3>1. Top \in Nat
        BY TableAssumption DEF Top
      <3> QED
        BY <1>2, <1>3, <1>4, <1>5, <2>2, <3>1
    <2>4. /\ CpuOk(used, lv, Arrive(s)) /\ Uses(Arrive(s)) \subseteq {t} /\ Priv(Arrive(s)) = {}
          /\ Arrive(s).r = cpu[c].r /\ Arrive(s).pc \notin {"split", "install"}
      BY <1>2, <2>2, <2>3, ArriveOk
    <2>5. mem[cpu[c].t][i].k # "table" /\ i \in Entries /\ cpu[c].t \in Uses(cpu[c])
      BY <1>4, <1>5, <1>6 DEF Read
    <2>6. lv[t] = lv[cpu[c].t] - 1 /\ cpu[c].pc \in {"split", "install"}
      BY <1>1, <1>4, <1>5
    <2>7. Uses(Arrive(s)) \subseteq Uses(cpu[c]) \cup {t}
      BY <2>4
    <2> HIDE DEF i
    <2> QED
      BY <1>5, <2>1, <2>4, <2>5, <2>6, <2>7, LinkOk
  <1>7. CASE Read(c) # cpu[c].old
    <2> DEFINE s == [cpu[c] EXCEPT !.pc = "walk", !.old = Empty, !.new = Empty]
    <2>1. Go(c, s) /\ used' = used \ {t} /\ mem' = [mem EXCEPT ![t] = [i \in Entries |-> Empty]]
      BY <1>7 DEF WalkInstall
    <2>2. s.pc = "walk" /\ s.t = cpu[c].t /\ s.l = cpu[c].l /\ s.r = cpu[c].r
      BY <1>2 DEF InProgress
    <2> HIDE DEF s
    <2>3. Uses(s) = {cpu[c].t} /\ Priv(s) = {}
      BY <2>2 DEF Uses, Priv
    <2>4. CpuOk(used, lv, s)
      BY <1>4, <2>2, <2>3 DEF CpuOk, Walking
    <2>5. Erased(mem, mem', {t})
      <3>1. Shape(mem) /\ t \in Tables
        BY <1>2, <1>3 DEF IInv
      <3> QED
        BY <2>1, <3>1 DEF Shape, Erased
    <2>6. \A d \in CPUs \ {c} : Uses(cpu[d]) \cap {t} = {}
      BY <1>3
    <2>7. Uses(s) \subseteq Uses(cpu[c]) /\ Uses(s) \cap {t} = {}
      BY <1>3, <1>4, <2>3
    <2>8. s.pc \notin {"split", "install"} /\ cpu[c].pc # "idle"
      BY <1>1, <2>2
    <2> QED
      BY <1>3, <2>1, <2>2, <2>3, <2>4, <2>5, <2>6, <2>7, <2>8, FreeOk
  <1> QED
    BY <1>6, <1>7

LEMMA FillAllocKeeps ==
    ASSUME IInv, NEW lv, Held(mem, used, lv, cpu), NEW c \in CPUs, FillAlloc(c), leaf_levels \in LeafLevels
    PROVE  \E kv \in [Tables -> 0..Top] : Held(mem', used', kv, cpu')
  <1> DEFINE t == NewTable
             s == [cpu[c] EXCEPT !.pc = "install", !.old = JobEntry(c), !.new = Table(t)]
             l == Job(c).l - 1
             kv == [lv EXCEPT ![t] = l]
  <1>1. /\ cpu[c].pc = "fill" /\ cpu[c].todo # <<>> /\ ~ WritesLeaf(c) /\ JobEntry(c) = Empty /\ Tables # used
        /\ used' = used \cup {t} /\ mem' = mem /\ Go(c, s)
    BY DEF FillAlloc
  <1>2. InProgress(cpu[c]) /\ used \subseteq Tables /\ Uses(cpu[c]) \subseteq used
    BY Knows
  <1>3. t \in Tables \ used
    BY <1>1, <1>2, NewIsFree
  <1>4. /\ s.pc = "install" /\ s.r = cpu[c].r /\ s.todo = cpu[c].todo /\ s.old = Empty
        /\ s.new = Table(t) /\ s.new.to = t
    BY <1>1, <1>2 DEF InProgress, Table
  <1> HIDE DEF s, t
  <1>5. /\ cpu[c].r \in ValidRequests /\ Filling(lv, cpu[c]) /\ Job(c).l \in 0..Top
        /\ Uses(cpu[c]) = {cpu[c].todo[k].t : k \in DOMAIN cpu[c].todo}
    BY <1>1, FillAt
  <1>6. Job(c).l > 0 /\ l \in 0..Top
    BY <1>1, <1>5, DeepJob
  <1>7. Uses(s) = Uses(cpu[c]) /\ Priv(cpu[c]) = {}
    BY <1>1, <1>4, <1>5 DEF Uses, Priv
  <1>8. lv \in [Tables -> 0..Top] /\ \A j \in Entries : mem[t][j] = Empty
    BY <1>3 DEF Held, Forest
  <1>9. kv[t] = l /\ \A r \in used : kv[r] = lv[r]
    BY <1>2, <1>3, <1>8
  <1> HIDE DEF kv
  <1>10. \A k \in DOMAIN s.todo : kv[s.todo[k].t] = lv[s.todo[k].t]
    BY <1>2, <1>4, <1>5, <1>9
  <1>11. Filling(kv, s)
    <2>1. Job(c) = Head(s.todo) /\ s.todo # <<>>
      BY <1>1, <1>4 DEF Job
    <2> QED
      BY <1>4, <1>5, <1>6, <1>9, <1>10, <2>1 DEF Filling
  <1>12. CpuOk(used \cup {t}, kv, s)
    BY <1>2, <1>4, <1>5, <1>7, <1>11 DEF CpuOk
  <1>13. Filled(mem, mem', t) /\ \A j \in Entries : mem'[t][j] = Empty
    BY <1>1, <1>8 DEF Empty, Filled
  <1>14. cpu[c].pc # "idle" /\ s.pc \in {"split", "install"} /\ Uses(s) \subseteq Uses(cpu[c])
    BY <1>1, <1>4, <1>7
  <1>15. CpuOk(used \cup {t}, [lv EXCEPT ![t] = l], s)
    BY <1>12 DEF kv
  <1> HIDE DEF l
  <1> QED
    BY <1>1, <1>3, <1>4, <1>6, <1>7, <1>13, <1>14, <1>15, AllocOk

LEMMA FillInstallKeeps ==
    ASSUME IInv, NEW lv, Held(mem, used, lv, cpu), NEW c \in CPUs, FillInstall(c)
    PROVE  Held(mem', used', lv, cpu')
  <1> DEFINE t == cpu[c].new.to
             s == [cpu[c] EXCEPT !.pc = "fill", !.old = Empty, !.new = Empty]
             i == virt_to_index(Job(c).l, Job(c).v)
  <1>1. cpu[c].pc = "install" /\ Go(c, s)
    BY DEF FillInstall
  <1>2. InProgress(cpu[c]) /\ used \subseteq Tables /\ Priv(cpu[c]) \subseteq used /\ CpuOk(used, lv, cpu[c])
        /\ Uses(cpu[c]) \subseteq used
    BY Knows
  <1>3. /\ cpu[c].new.k = "table" /\ Priv(cpu[c]) = {t} /\ SubTables(mem, cpu[c].new) = {t}
        /\ \A d \in CPUs : t \notin Uses(cpu[d])
    BY <1>1, FreshAlone
  <1>4. cpu[c].todo # <<>> /\ Head(cpu[c].todo).l > 0 /\ cpu[c].new = Table(t) /\ cpu[c].old = Empty
        /\ lv[t] = Job(c).l - 1
    BY <1>1, <1>2 DEF CpuOk, Filling, Job
  <1>5. /\ cpu[c].r \in ValidRequests /\ Filling(lv, cpu[c]) /\ i \in Entries /\ JobEntry(c) = mem[Job(c).t][i]
        /\ Job(c).t \in Uses(cpu[c]) /\ lv[Job(c).t] = Job(c).l
        /\ Uses(cpu[c]) = {cpu[c].todo[k].t : k \in DOMAIN cpu[c].todo}
    BY <1>1, <1>4, FillAt
  <1>6. s.pc = "fill" /\ s.r = cpu[c].r /\ s.todo = cpu[c].todo
    BY <1>2 DEF InProgress
  <1> HIDE DEF s
  <1>7. Uses(s) = Uses(cpu[c]) /\ Priv(s) = {}
    BY <1>5, <1>6 DEF Uses, Priv
  <1>8. CpuOk(used, lv, s)
    <2>1. Filling(lv, s)
      BY <1>5, <1>6 DEF Filling
    <2> QED
      BY <1>2, <1>5, <1>6, <1>7, <2>1 DEF CpuOk
  <1>9. s.pc \notin {"split", "install"} /\ cpu[c].pc # "idle"
    BY <1>1, <1>6
  <1>10. CASE JobEntry(c) = cpu[c].old
    <2>0. used' = used
      BY <1>10 DEF FillInstall
    <2>1. mem' = [mem EXCEPT ![Job(c).t][i] = cpu[c].new]
      BY <1>10 DEF FillInstall
    <2>2. mem[Job(c).t][i].k # "table"
      BY <1>4, <1>5, <1>10 DEF Empty
    <2>3. lv[t] = lv[Job(c).t] - 1 /\ cpu[c].pc \in {"split", "install"} /\ Uses(s) \subseteq Uses(cpu[c]) \cup {t}
      BY <1>1, <1>4, <1>5, <1>7
    <2> DEFINE w == Job(c).t
    <2>4. w \in Uses(cpu[c]) /\ mem[w][i].k # "table" /\ mem' = [mem EXCEPT ![w][i] = cpu[c].new] /\ lv[t] = lv[w] - 1
      BY <1>5, <2>1, <2>2, <2>3
    <2> HIDE DEF w, i
    <2> QED
      BY <1>1, <1>4, <1>5, <1>6, <1>7, <1>8, <1>9, <2>0, <2>3, <2>4, LinkOk
  <1>11. CASE JobEntry(c) # cpu[c].old
    <2>1. used' = used \ {t} /\ mem' = mem
      BY <1>11 DEF FillInstall
    <2>2. Fresh(mem, cpu, c)
      BY Knows
    <2>3. Erased(mem, mem', {t})
      BY <1>1, <2>1, <2>2 DEF Erased, Fresh
    <2>4. \A d \in CPUs \ {c} : Uses(cpu[d]) \cap {t} = {}
      BY <1>3
    <2>5. Uses(s) \subseteq Uses(cpu[c]) /\ Uses(s) \cap {t} = {}
      BY <1>3, <1>7
    <2> QED
      BY <1>1, <1>3, <1>6, <1>7, <1>8, <1>9, <2>1, <2>3, <2>4, <2>5, FreeOk
  <1> QED
    BY <1>10, <1>11

LEMMA FillLeafKeeps ==
    ASSUME IInv, NEW lv, Held(mem, used, lv, cpu), NEW c \in CPUs, FillLeaf(c)
    PROVE  Held(mem', used', lv, cpu')
  <1> DEFINE w == Job(c).t
             i == virt_to_index(Job(c).l, Job(c).v)
             x == IF present(cpu[c].r) THEN Page(Job(c).v, cpu[c].r.w) ELSE Empty
             b == Changes(c, Pages)
             s == [cpu[c] EXCEPT !.pc = "cleanup", !.old = JobEntry(c), !.lost = b]
  <1>1. cpu[c].pc = "fill" /\ cpu[c].todo # <<>> /\ used' = used /\ mem' = [mem EXCEPT ![w][i] = x] /\ Go(c, s)
    BY DEF FillLeaf
  <1>2. x.k # "table"
    BY DEF Page, Empty
  <1> HIDE DEF x, b
  <1>3. InProgress(cpu[c]) /\ used \subseteq Tables /\ Uses(cpu[c]) \subseteq used /\ Shape(mem)
    BY Knows DEF IInv
  <1>4. s.pc = "cleanup" /\ s.old = JobEntry(c) /\ s.r = cpu[c].r /\ s.todo = cpu[c].todo
    BY <1>3 DEF InProgress
  <1> HIDE DEF s
  <1>5. /\ cpu[c].r \in ValidRequests /\ Filling(lv, cpu[c]) /\ i \in Entries /\ JobEntry(c) = mem[w][i]
        /\ w \in Uses(cpu[c]) /\ w \in used /\ lv[w] = Job(c).l /\ Job(c).l \in 0..Top
        /\ Uses(cpu[c]) = {cpu[c].todo[k].t : k \in DOMAIN cpu[c].todo}
    BY <1>1, FillAt
  <1>6. /\ Job(c).l > 0 => \A d \in CPUs \ {c} : cpu[d].pc = "idle"
        /\ JobEntry(c).k = "table" =>
               /\ JobEntry(c).to \notin Private(cpu) /\ lv[JobEntry(c).to] = Job(c).l - 1 /\ Job(c).l \in 1..Top
    BY <1>1, FillAt
  <1> HIDE DEF w, i
  <1>7. OneEntry(mem, mem', w, i) /\ mem'[w][i] = x
    BY <1>1, <1>3, <1>5 DEF Shape, OneEntry
  <1>8. Uses(s) = Uses(cpu[c]) /\ Priv(cpu[c]) = {}
    BY <1>1, <1>4, <1>5 DEF Uses, Priv
  <1>9. CpuOk(used, lv, s)
    <2>1. s.old.k = "table" => lv[s.old.to] < Head(s.todo).l
      <3>1. \A k \in 1..Top : k - 1 < k
        BY TableAssumption DEF Top
      <3> QED
        BY <1>4, <1>6, <3>1 DEF Job
    <2>2. Filling(lv, s)
      BY <1>1, <1>4, <1>5, <2>1 DEF Filling
    <2> QED
      BY <1>3, <1>4, <1>5, <1>8, <2>2 DEF CpuOk
  <1>10. \A d \in CPUs \ {c} : cpu[d].pc \in {"split", "install"} => cpu[d].new.to \notin Uses(s)
    BY <1>8, Knows DEF Fresh
  <1>11. s.pc \notin {"split", "install"} /\ cpu[c].pc # "idle"
    BY <1>1, <1>4
  <1>12. CASE JobEntry(c).k = "table"
    <2> DEFINE t == JobEntry(c).to
    <2>1. Priv(s) = {t}
      BY <1>4, <1>12 DEF Priv
    <2>2. Job(c).l > 0
      BY <1>6, <1>12, TableAssumption DEF Top
    <2>3. \A d \in CPUs \ {c} : Priv(s) \cap Priv(cpu[d]) = {}
      BY <1>6, <2>2 DEF Priv
    <2>4. Apart(mem, mem', used, lv, cpu, c, s)
      BY <1>5, <1>7, <1>10, <1>11, <2>3, WriteApart
    <2>5. mem[w][i].k = "table" /\ mem[w][i].to = t /\ mem'[w][i].k # "table"
      BY <1>2, <1>5, <1>7, <1>12
    <2> HIDE DEF t
    <2>6. Forest(mem', used, lv, Private(cpu) \cup {t})
      <3>1. Forest(mem, used, lv, Private(cpu))
        BY DEF Held
      <3>2. Forest(mem', used, lv, Private(cpu) \cup {mem[w][i].to})
        BY <1>5, <1>7, <2>5, <3>1, Unlinks
      <3> QED
        BY <2>5, <3>2
    <2>7. (Private(cpu) \ Priv(cpu[c])) \cup Priv(s) = Private(cpu) \cup {t}
      BY <1>8, <2>1
    <2> QED
      BY <1>1, <1>4, <1>9, <1>11, <2>4, <2>6, <2>7, Moved
  <1>13. CASE JobEntry(c).k # "table"
    <2>1. Priv(s) = {}
      BY <1>4, <1>13 DEF Priv
    <2>2. \A d \in CPUs \ {c} : Priv(s) \cap Priv(cpu[d]) = {}
      BY <2>1
    <2>3. Apart(mem, mem', used, lv, cpu, c, s)
      BY <1>5, <1>7, <1>10, <1>11, <2>2, WriteApart
    <2>4. Forest(mem', used, lv, Private(cpu))
      <3>1. Forest(mem, used, lv, Private(cpu)) /\ mem[w][i].k # "table" /\ mem'[w][i].k # "table"
        BY <1>2, <1>5, <1>7, <1>13 DEF Held
      <3> QED
        BY <1>5, <1>7, <3>1, Rewrites
    <2>5. (Private(cpu) \ Priv(cpu[c])) \cup Priv(s) = Private(cpu)
      BY <1>8, <2>1
    <2> QED
      BY <1>1, <1>4, <1>9, <1>11, <2>3, <2>4, <2>5, Moved
  <1> QED
    BY <1>12, <1>13

\* The jobs that are left.
LEMMA TailOk ==
    ASSUME NEW q \in Seq(Jobs), Rising(q), q # <<>>
    PROVE  /\ Tail(q) \in Seq(Jobs) /\ Rising(Tail(q))
           /\ \A i \in DOMAIN Tail(q) : /\ i + 1 \in DOMAIN q /\ Tail(q)[i] = q[i + 1]
                                        /\ Head(q).l <= Tail(q)[i].l
           /\ Len(q) = 1 => Tail(q) = <<>>
  <1> DEFINE p == Tail(q)
  <1>1. Len(q) \in Nat \ {0} /\ DOMAIN q = 1..Len(q) /\ Head(q) = q[1]
    OBVIOUS
  <1>2. p \in Seq(Jobs) /\ Len(p) = Len(q) - 1 /\ \A i \in 1..Len(p) : p[i] = q[i + 1]
    OBVIOUS
  <1>3. DOMAIN p = 1..Len(p)
    BY <1>2
  <1> HIDE DEF p
  <1>4. \A i \in DOMAIN p : i + 1 \in DOMAIN q /\ 1 <= i + 1 /\ p[i] = q[i + 1]
    BY <1>1, <1>2, <1>3
  <1>5. \A i \in DOMAIN p : Head(q).l <= p[i].l
    BY <1>1, <1>4 DEF Rising
  <1>6. Rising(p)
    <2> SUFFICES ASSUME NEW i \in DOMAIN p, NEW j \in DOMAIN p, i <= j PROVE p[i].l <= p[j].l
      BY DEF Rising
    <2>1. i + 1 <= j + 1
      BY <1>2, <1>3
    <2> QED
      BY <1>4, <2>1 DEF Rising
  <1>7. Len(q) = 1 => p = <<>>
    BY <1>1, <1>2
  <1> QED
    BY <1>2, <1>4, <1>5, <1>6, <1>7 DEF p

LEMMA CleanupKeeps ==
    ASSUME IInv, NEW lv, Held(mem, used, lv, cpu), NEW c \in CPUs, cleanup(c)
    PROVE  Held(mem', used', lv, cpu')
  <1> DEFINE e == cpu[c].old
             G == SubTables(mem, e)
             q == cpu[c].todo
             b == NextJob(c).flush \/ cpu[c].old # Empty
             s == [NextJob(c) EXCEPT !.flush = b]
  <1>1. /\ cpu[c].pc = "cleanup" /\ Go(c, s) /\ used' = used \ G
        /\ mem' = [t \in Tables |-> IF t \in G THEN [i \in Entries |-> Empty] ELSE mem[t]]
    BY DEF cleanup, free_later, SubTables, Below, BelowIn
  <1>2. InProgress(cpu[c]) /\ used \subseteq Tables /\ Uses(cpu[c]) \subseteq used /\ Shape(mem) /\ CpuOk(used, lv, cpu[c])
    BY Knows DEF IInv
  <1>3. q # <<>>
    BY <1>1, <1>2 DEF CpuOk, Filling
  <1>4. s.pc = (IF Len(q) = 1 THEN "done" ELSE "fill") /\ s.r = cpu[c].r /\ s.todo = Tail(q)
    <2> HIDE DEF b
    <2> QED
      BY <1>2 DEF InProgress, NextJob
  <1> HIDE DEF s, b
  <1>5. /\ cpu[c].r \in ValidRequests /\ Filling(lv, cpu[c]) /\ Job(c).l \in 0..Top
        /\ Uses(cpu[c]) = {q[k].t : k \in DOMAIN q}
        /\ Job(c).l > 0 => \A d \in CPUs \ {c} : cpu[d].pc = "idle"
    BY <1>1, <1>3, FillAt
  <1>6. q \in Seq(Jobs) /\ Rising(q)
    BY <1>5 DEF Filling
  <1>7. /\ Tail(q) \in Seq(Jobs) /\ Rising(Tail(q))
        /\ \A i \in DOMAIN Tail(q) : /\ i + 1 \in DOMAIN q /\ Tail(q)[i] = q[i + 1]
                                     /\ Head(q).l <= Tail(q)[i].l
    BY <1>3, <1>6, TailOk
  <1>8. Uses(s) = {} \/ Uses(s) = {Tail(q)[k].t : k \in DOMAIN Tail(q)}
    BY <1>4 DEF Uses
  <1>9. Uses(s) \subseteq Uses(cpu[c])
    BY <1>5, <1>7, <1>8
  <1>10. Priv(s) = {} /\ s.pc \notin {"split", "install"} /\ cpu[c].pc # "idle"
    BY <1>1, <1>4 DEF Priv
  <1>11. CpuOk(used, lv, s)
    <2>1. \A k \in DOMAIN Tail(q) : lv[Tail(q)[k].t] = Tail(q)[k].l /\ (Tail(q)[k].l > 0 => MayFree(cpu[c].r))
      BY <1>5, <1>7 DEF Filling
    <2>2. s.pc = "fill" => Filling(lv, s)
      BY <1>4, <1>7, <2>1 DEF Filling
    <2> QED
      BY <1>2, <1>4, <1>5, <1>9, <2>2 DEF CpuOk
  <1>12. Erased(mem, mem', G)
    BY <1>1 DEF Erased
  <1>13. CASE e.k = "table"
    <2>1. Priv(cpu[c]) = {e.to}
      BY <1>1, <1>13 DEF Priv
    <2>2. e.to \in Private(cpu) /\ e.to \in used
      BY <2>1, Knows DEF Private
    <2>3. Forest(mem, used, lv, Private(cpu))
      BY DEF Held
    <2>4. lv \in [Tables -> 0..Top] /\ Top \in Nat
      BY <2>3, TableAssumption DEF Forest, Top
    <2>5. lv[e.to] < Head(q).l /\ Head(q).l \in Nat /\ lv[e.to] \in Nat
      BY <1>1, <1>2, <1>5, <1>13, <2>2, <2>4 DEF Filling, Job
    <2>6. \A r \in G : lv[r] <= lv[e.to]
      <3> HIDE DEF e
      <3> DEFINE P == Private(cpu)
      <3>1. Forest(mem, used, lv, P) /\ e.to \in P
        BY <2>2, <2>3
      <3> HIDE DEF P, G
      <3>2. G = SubTables(mem, e)
        BY DEF G
      <3> QED
        BY <1>12, <1>13, <3>1, <3>2, Frees
    <2>7. G \subseteq used
      <3> HIDE DEF e
      <3> QED
        BY <1>13, <2>2, <2>3, SubTablesAre
    <2> HIDE DEF G
    <2>8. Uses(s) \cap G = {}
      <3> SUFFICES ASSUME NEW k \in DOMAIN Tail(q), Tail(q)[k].t \in G PROVE FALSE
        BY <1>8
      <3> DEFINE a == Tail(q)[k]
      <3>1. lv[a.t] = a.l /\ Head(q).l <= a.l
        BY <1>5, <1>7 DEF Filling
      <3>2. lv[a.t] <= lv[e.to] /\ lv[a.t] \in Nat
        BY <1>2, <2>4, <2>6, <2>7
      <3>3. \A x, y, z \in Nat : ~ (x <= y /\ y < z /\ z <= x)
        OBVIOUS
      <3>4. lv[a.t] <= lv[e.to] /\ lv[e.to] < Head(q).l /\ Head(q).l <= lv[a.t]
        BY <2>5, <3>1, <3>2
      <3> HIDE DEF a, q, e
      <3> QED
        BY <2>5, <3>2, <3>3, <3>4
    <2>9. \A d \in CPUs \ {c} : Uses(cpu[d]) \cap G = {}
      <3>1. Job(c).l > 0
        BY <2>5 DEF Job
      <3> QED
        BY <1>5, <3>1 DEF Uses
    <2>10. G = SubTables(mem, e) /\ used' = used \ G /\ Go(c, s)
      BY <1>1 DEF G
    <2> HIDE DEF e
    <2> QED
      BY <1>4, <1>9, <1>10, <1>11, <1>12, <1>13, <2>1, <2>8, <2>9, <2>10, FreeOk
  <1>14. CASE e.k # "table"
    <2>1. G = {}
      <3> HIDE DEF e
      <3>1. Forest(mem, used, lv, Private(cpu))
        BY DEF Held
      <3> QED
        BY <1>14, <3>1, SubTablesAre
    <2>2. mem' = mem /\ used' = used
      BY <1>1, <1>2, <2>1 DEF Shape
    <2>3. Priv(cpu[c]) = {}
      BY <1>1, <1>14 DEF Priv
    <2>4. Uses(s) \cap News(cpu) = {} /\ Goes(cpu, cpu', c, s)
      BY <1>4, <1>9, <1>10, Knows DEF Goes
    <2> QED
      BY <1>1, <1>10, <1>11, <2>2, <2>3, <2>4, Quiet
  <1> QED
    BY <1>13, <1>14

LEMMA FillDownKeeps ==
    ASSUME IInv, NEW lv, Held(mem, used, lv, cpu), NEW c \in CPUs, FillDown(c), leaf_levels \in LeafLevels
    PROVE  Held(mem', used', lv, cpu')
  <1> DEFINE q == cpu[c].todo
             t == JobEntry(c).to
             l == Job(c).l
             p == FillJobs(t, l - 1, Job(c).v, level_order(l))
             s == [cpu[c] EXCEPT !.todo = p \o Tail(q)]
  <1>1. /\ cpu[c].pc = "fill" /\ q # <<>> /\ ~ WritesLeaf(c) /\ JobEntry(c).k = "table"
        /\ UNCHANGED <<mem, used>> /\ Go(c, s)
    BY DEF FillDown
  <1>2. InProgress(cpu[c]) /\ used \subseteq Tables /\ Uses(cpu[c]) \subseteq used
    BY Knows
  <1> HIDE DEF p
  <1>3. s.pc = "fill" /\ s.r = cpu[c].r /\ s.todo = p \o Tail(q)
    BY <1>1, <1>2 DEF InProgress
  <1> HIDE DEF s
  <1>4. /\ cpu[c].r \in ValidRequests /\ Filling(lv, cpu[c]) /\ l \in 0..Top /\ Job(c).v \in Nat
        /\ Uses(cpu[c]) = {q[k].t : k \in DOMAIN q} /\ (l > 0 => MayFree(cpu[c].r))
        /\ t \in used /\ t \notin News(cpu) /\ lv[t] = l - 1 /\ l \in 1..Top /\ l - 1 \in 0..Top
    BY <1>1, FillAt
  <1>5. q \in Seq(Jobs) /\ Rising(q) /\ Head(q).l = l
    BY <1>4 DEF Filling, Job
  <1>6. /\ Tail(q) \in Seq(Jobs) /\ Rising(Tail(q))
        /\ \A i \in DOMAIN Tail(q) : /\ i + 1 \in DOMAIN q /\ Tail(q)[i] = q[i + 1]
                                     /\ Head(q).l <= Tail(q)[i].l
    BY <1>1, <1>5, TailOk
  <1>7. p \in Seq(Jobs) /\ \A i \in DOMAIN p : p[i].t = t /\ p[i].l = l - 1
    <2> HIDE DEF l, t
    <2>1. BitsPerLevel \in Nat \ {0} /\ MaxLevels \in Nat \ {0} /\ Top = MaxLevels - 1
      BY TableAssumption DEF Top
    <2>2. PICK k \in Nat : l = k + 1
      <3>1. l - 1 \in Nat /\ l = (l - 1) + 1
        BY <1>4, <2>1
      <3> QED
        BY <3>1
    <2>3. l * BitsPerLevel = (l - 1) * BitsPerLevel + BitsPerLevel /\ (l - 1) * BitsPerLevel \in Nat
      <3>1. l - 1 = k
        BY <2>2
      <3>2. (k + 1) * BitsPerLevel = k * BitsPerLevel + BitsPerLevel /\ k * BitsPerLevel \in Nat
        BY <2>1
      <3> QED
        BY <2>2, <3>1, <3>2
    <2>4. BitsPerLevel <= BitsPerLevel * MaxLevels /\ BitsPerLevel * MaxLevels \in Nat
      <3>1. PICK j \in Nat : MaxLevels = j + 1
        <4>1. MaxLevels - 1 \in Nat /\ MaxLevels = (MaxLevels - 1) + 1
          BY <2>1
        <4> QED
          BY <4>1
      <3>2. BitsPerLevel * (j + 1) = BitsPerLevel * j + BitsPerLevel /\ BitsPerLevel * j \in Nat
        BY <2>1
      <3> QED
        BY <2>1, <3>1, <3>2
    <2>5. level_order(l) \in Nat /\ level_order(l) - level_order(l - 1) \in 0..(BitsPerLevel * MaxLevels)
      <3> DEFINE a == (l - 1) * BitsPerLevel
                 b == BitsPerLevel * MaxLevels
      <3>1. level_order(l) = a + BitsPerLevel /\ level_order(l - 1) = a
        BY <2>3 DEF level_order
      <3>2. a \in Nat /\ b \in Nat /\ BitsPerLevel <= b /\ BitsPerLevel \in Nat
        BY <2>1, <2>3, <2>4
      <3> HIDE DEF a, b
      <3>3. a + BitsPerLevel \in Nat /\ (a + BitsPerLevel) - a \in 0..b
        BY <3>2
      <3> QED
        BY <3>1, <3>3 DEF b
    <2>6. t \in Tables
      BY <1>2, <1>4
    <2> DEFINE a == l - 1
               o == level_order(l)
               x == Job(c).v
    <2>7. a \in 0..Top /\ o \in Nat /\ x \in Nat /\ o - level_order(a) \in 0..(BitsPerLevel * MaxLevels) /\ p = FillJobs(t, a, x, o)
      BY <1>4, <2>5 DEF p
    <2> HIDE DEF a, o, x
    <2>8. p \in Seq(Jobs) /\ \A i \in DOMAIN p : p[i].t = t /\ p[i].l = a
      <3>1. t \in Tables /\ a \in 0..Top /\ x \in Nat /\ o \in Nat /\ Spans(o, a) /\ p = FillJobs(t, a, x, o)
        BY <2>6, <2>7 DEF Spans
      <3>2. JobsOf(p, t, a)
        BY <3>1, FillJobsAre
      <3> QED
        BY <3>2 DEF JobsOf
    <2> QED
      BY <2>8 DEF a
  <1> DEFINE z == p \o Tail(q)
             n == Len(p)
  <1>8. /\ z \in Seq(Jobs) /\ n \in Nat /\ Len(Tail(q)) \in Nat
        /\ DOMAIN z = 1..(n + Len(Tail(q))) /\ DOMAIN p = 1..n /\ DOMAIN Tail(q) = 1..Len(Tail(q))
        /\ \A i \in DOMAIN z : z[i] = IF i <= n THEN p[i] ELSE Tail(q)[i - n]
    BY <1>6, <1>7
  <1> HIDE DEF z, n
  <1>9. \A i \in DOMAIN z : (i <= n => i \in DOMAIN p) /\ (~ (i <= n) => i - n \in DOMAIN Tail(q))
    BY <1>8
  <1>10. \A i \in DOMAIN z :
             \/ i <= n /\ z[i].t = t /\ z[i].l = l - 1
             \/ ~ (i <= n) /\ i - n \in DOMAIN Tail(q) /\ z[i] = Tail(q)[i - n]
    BY <1>7, <1>8, <1>9
  <1>11. \A k \in DOMAIN Tail(q) :
             /\ Tail(q)[k].t \in Uses(cpu[c]) /\ lv[Tail(q)[k].t] = Tail(q)[k].l
             /\ Tail(q)[k].l > 0 => MayFree(cpu[c].r)
    BY <1>4, <1>6 DEF Filling
  <1>12. Rising(z)
    <2> SUFFICES ASSUME NEW i \in DOMAIN z, NEW j \in DOMAIN z, i <= j PROVE z[i].l <= z[j].l
      BY DEF Rising
    <2>1. i \in Nat /\ j \in Nat
      BY <1>8
    <2>2. CASE i <= n /\ j <= n
      <3>1. z[i].l = l - 1 /\ z[j].l = l - 1
        BY <1>10, <2>2
      <3> HIDE DEF l
      <3> QED
        BY <1>4, <3>1, TableAssumption DEF Top
    <2>3. CASE i <= n /\ ~ (j <= n)
      <3>1. z[i].l = l - 1 /\ l <= z[j].l /\ z[j] \in Jobs
        <4>1. z[i].l = l - 1
          BY <1>10, <2>3
        <4>2. j - n \in DOMAIN Tail(q) /\ z[j] = Tail(q)[j - n]
          BY <1>10, <2>3
        <4>3. l <= z[j].l
          BY <1>5, <1>6, <4>2
        <4>4. z[j] \in Jobs
          BY <1>8
        <4> QED
          BY <4>1, <4>3, <4>4
      <3>2. z[j].l \in 0..Top
        BY <3>1 DEF Jobs
      <3> HIDE DEF l
      <3> QED
        BY <1>4, <3>1, <3>2, TableAssumption DEF Top
    <2>4. CASE ~ (i <= n) /\ ~ (j <= n)
      <3>1. i - n \in DOMAIN Tail(q) /\ j - n \in DOMAIN Tail(q) /\ z[i] = Tail(q)[i - n] /\ z[j] = Tail(q)[j - n]
        BY <1>10, <2>4
      <3>2. i - n <= j - n
        BY <1>8, <2>1
      <3> QED
        BY <1>6, <3>1, <3>2 DEF Rising
    <2>5. ~ (~ (i <= n) /\ j <= n)
      BY <1>8, <2>1
    <2> QED
      BY <2>2, <2>3, <2>4, <2>5
  <1>13. \A i \in DOMAIN z : lv[z[i].t] = z[i].l /\ (z[i].l > 0 => MayFree(cpu[c].r))
    <2>1. MayFree(cpu[c].r)
      <3> HIDE DEF l
      <3> QED
        BY <1>4, TableAssumption DEF Top
    <2> QED
      BY <1>4, <1>10, <1>11, <2>1
  <1>14. Uses(s) = {z[k].t : k \in DOMAIN z}
    BY <1>3 DEF Uses, z
  <1>15. Uses(s) \subseteq Uses(cpu[c]) \cup {t}
    BY <1>10, <1>11, <1>14
  <1>16. CpuOk(used, lv, s)
    <2>1. Filling(lv, s)
      BY <1>3, <1>8, <1>12, <1>13 DEF Filling, z
    <2> QED
      BY <1>2, <1>3, <1>4, <1>15, <2>1 DEF CpuOk
  <1>17. Priv(cpu[c]) = {} /\ Priv(s) = {} /\ s.pc \notin {"split", "install"}
    BY <1>1, <1>3 DEF Priv
  <1>18. Uses(s) \cap News(cpu) = {}
    BY <1>4, <1>15, Knows
  <1>19. Goes(cpu, cpu', c, s)
    BY <1>1, <1>3 DEF Goes
  <1> QED
    BY <1>1, <1>16, <1>17, <1>18, <1>19, Quiet

-----------------------------------------------------------------------------
LEMMA LInit == Init => LInv
  <1> SUFFICES ASSUME Init PROVE LInv
    OBVIOUS
  <1>1. leaf_levels \in LeafLevels /\ mem = [t \in Tables |-> [i \in Entries |-> Empty]] /\ used = {Root}
        /\ cpu = [c \in CPUs |-> Resting]
    BY DEF Init
  <1> DEFINE lv == [t \in Tables |-> Top]
  <1>2. Top \in 0..Top /\ Root \in Tables
    BY TableAssumption DEF Top
  <1>3. lv \in [Tables -> 0..Top]
    BY <1>2
  <1>4. \A c \in CPUs : cpu[c].pc = "idle"
    BY <1>1 DEF Resting
  <1>5. \A c \in CPUs : Priv(cpu[c]) = {} /\ Uses(cpu[c]) = {}
    BY <1>4 DEF Priv, Uses
  <1>6. Private(cpu) = {}
    BY <1>5 DEF Private
  <1>7. \A t \in Tables, i \in Entries : mem[t][i] = Empty /\ mem[t][i].k # "table"
    BY <1>1 DEF Empty
  <1>8. Forest(mem, used, lv, Private(cpu))
    <2>1. lv[Root] = Top
      BY <1>2
    <2> HIDE DEF lv
    <2> QED
      BY <1>1, <1>2, <1>3, <1>6, <1>7, <2>1 DEF Forest
  <1> HIDE DEF lv
  <1>9. Cpus(mem, used, lv, cpu)
    <2> SUFFICES ASSUME NEW c \in CPUs
                 PROVE  /\ CpuOk(used, lv, cpu[c]) /\ Fresh(mem, cpu, c) /\ Alone(cpu, c)
                        /\ \A d \in CPUs \ {c} : Priv(cpu[c]) \cap Priv(cpu[d]) = {}
      BY DEF Cpus
    <2>1. CpuOk(used, lv, cpu[c])
      BY <1>4, <1>5 DEF CpuOk
    <2>2. Fresh(mem, cpu, c) /\ Alone(cpu, c)
      BY <1>4 DEF Fresh, Alone
    <2> QED
      BY <1>5, <2>1, <2>2
  <1> QED
    BY <1>1, <1>3, <1>8, <1>9 DEF LInv, Held

LEMMA LNext ==
    ASSUME ~ Concurrent, IInv, LInv, [Next]_vars
    PROVE  LInv'
  <1>1. PICK lv \in [Tables -> 0..Top] : Held(mem, used, lv, cpu)
    BY DEF LInv
  <1>2. leaf_levels \in LeafLevels
    BY DEF LInv
  <1>3. leaf_levels' = leaf_levels
    <2>0. ASSUME NEW c \in CPUs, Begin(c) PROVE leaf_levels' = leaf_levels
      BY <2>0, Zenon DEF Begin
    <2>1. ASSUME NEW c \in CPUs, WalkDown(c) \/ WalkNothing(c) \/ WalkOutOfMemory(c) PROVE leaf_levels' = leaf_levels
      BY <2>1 DEF WalkDown, WalkNothing, WalkOutOfMemory
    <2>2. ASSUME NEW c \in CPUs, WalkAlloc(c) \/ WalkInstall(c) \/ FillLeaf(c) \/ cleanup(c) PROVE leaf_levels' = leaf_levels
      BY <2>2 DEF WalkAlloc, WalkInstall, FillLeaf, cleanup
    <2>3. ASSUME NEW c \in CPUs, FillDown(c) \/ FillAlloc(c) \/ FillInstall(c) PROVE leaf_levels' = leaf_levels
      BY <2>3 DEF FillDown, FillAlloc, FillInstall
    <2>4. ASSUME NEW c \in CPUs, ReplaceRead(c) \/ ReplaceSwap(c) \/ lookup(c) \/ Return(c) PROVE leaf_levels' = leaf_levels
      BY <2>4 DEF ReplaceRead, ReplaceSwap, lookup, Return
    <2>5. CASE UNCHANGED vars
      BY <2>5 DEF vars
    <2> QED
      BY <2>0, <2>1, <2>2, <2>3, <2>4, <2>5 DEF Next
  <1> SUFFICES \E kv \in [Tables -> 0..Top] : Held(mem', used', kv, cpu')
    BY <1>2, <1>3 DEF LInv
  <1>4. CASE UNCHANGED vars
    <2>1. mem' = mem /\ used' = used /\ cpu' = cpu
      BY <1>4 DEF vars
    <2> QED
      BY <1>1, <2>1
  <1>5. ASSUME NEW c \in CPUs, Begin(c) PROVE Held(mem', used', lv, cpu')
    BY <1>1, <1>5, BeginKeeps
  <1>6. ASSUME NEW c \in CPUs, WalkDown(c) PROVE Held(mem', used', lv, cpu')
    BY <1>1, <1>6, WalkDownKeeps
  <1>7. ASSUME NEW c \in CPUs, WalkNothing(c) \/ WalkOutOfMemory(c) PROVE Held(mem', used', lv, cpu')
    BY <1>1, <1>7, WalkEndsKeep
  <1>8. ASSUME NEW c \in CPUs, WalkAlloc(c) PROVE \E kv \in [Tables -> 0..Top] : Held(mem', used', kv, cpu')
    BY <1>1, <1>8, WalkAllocKeeps
  <1>9. ASSUME NEW c \in CPUs, WalkInstall(c) PROVE Held(mem', used', lv, cpu')
    BY <1>1, <1>9, WalkInstallKeeps
  <1>10. ASSUME NEW c \in CPUs, FillLeaf(c) PROVE Held(mem', used', lv, cpu')
    BY <1>1, <1>10, FillLeafKeeps
  <1>11. ASSUME NEW c \in CPUs, cleanup(c) PROVE Held(mem', used', lv, cpu')
    BY <1>1, <1>11, CleanupKeeps
  <1>12. ASSUME NEW c \in CPUs, FillDown(c) PROVE Held(mem', used', lv, cpu')
    BY <1>1, <1>2, <1>12, FillDownKeeps
  <1>13. ASSUME NEW c \in CPUs, FillAlloc(c) PROVE \E kv \in [Tables -> 0..Top] : Held(mem', used', kv, cpu')
    BY <1>1, <1>2, <1>13, FillAllocKeeps
  <1>14. ASSUME NEW c \in CPUs, FillInstall(c) PROVE Held(mem', used', lv, cpu')
    BY <1>1, <1>14, FillInstallKeeps
  <1>15. ASSUME NEW c \in CPUs, ReplaceRead(c) PROVE Held(mem', used', lv, cpu')
    BY <1>1, <1>15, ReplaceReadKeeps
  <1>16. ASSUME NEW c \in CPUs, ReplaceSwap(c) PROVE Held(mem', used', lv, cpu')
    BY <1>1, <1>16, ReplaceSwapKeeps
  <1>17. ASSUME NEW c \in CPUs, lookup(c) PROVE Held(mem', used', lv, cpu')
    BY <1>1, <1>17, LookupKeeps
  <1>18. ASSUME NEW c \in CPUs, Return(c) PROVE Held(mem', used', lv, cpu')
    BY <1>1, <1>18, ReturnKeeps
  <1> QED
    BY <1>4, <1>5, <1>6, <1>7, <1>8, <1>9, <1>10, <1>11, <1>12, <1>13, <1>14, <1>15, <1>16, <1>17, <1>18 DEF Next

\* Every table in use hangs off the root, is new or hangs off a removed entry.
LEMMA AllReached ==
    ASSUME NEW m, NEW u, NEW lv, NEW P, Forest(m, u, lv, P), NEW K, Root \in K, P \subseteq K, Closed(m, u, K)
    PROVE  u \subseteq K
  <1>1. /\ lv \in [Tables -> 0..Top] /\ u \subseteq Tables
        /\ \A r \in u, j \in Entries : m[r][j].k = "table" => lv[m[r][j].to] = lv[r] - 1
        /\ \A p \in u \ (P \cup {Root}) : \E r \in u, j \in Entries : Points(m, r, j, p)
    BY DEF Forest
  <1>2. Top \in Nat
    BY TableAssumption DEF Top
  <1> DEFINE Bad == {Top - lv[t] : t \in u \ K}
  <1> SUFFICES ASSUME u \ K # {} PROVE FALSE
    OBVIOUS
  <1>3. \A t \in u : lv[t] \in 0..Top
    BY <1>1
  <1>4. \A k \in 0..Top : Top - k \in Nat
    BY <1>2
  <1>5. Bad \subseteq Nat /\ Bad # {}
    BY <1>3, <1>4
  <1>6. PICK n \in Bad : \A k \in Bad : n <= k
    <2> HIDE DEF Bad
    <2> QED
      BY <1>5, Smallest
  <1>7. PICK t \in u \ K : n = Top - lv[t]
    BY <1>6
  <1>8. PICK r \in u, j \in Entries : Points(m, r, j, t)
    BY <1>1, <1>7
  <1>9. r \notin K /\ lv[t] = lv[r] - 1
    BY <1>1, <1>7, <1>8 DEF Points, Closed
  <1>10. Top - lv[r] \in Bad
    BY <1>8, <1>9
  <1>11. n <= Top - lv[r]
    BY <1>6, <1>10
  <1> DEFINE a == lv[r]
             b == lv[t]
  <1>12. a \in 0..Top /\ b \in 0..Top /\ b = a - 1 /\ Top - b <= Top - a
    BY <1>3, <1>7, <1>8, <1>9, <1>11
  <1> HIDE DEF a, b
  <1> QED
    BY <1>2, <1>12

\* The tables that a CPU goes on to access are in use.
LEMMA LInvHolds == LInv => TablesHeld
  BY DEF LInv, Held, Cpus, CpuOk, Uses, TablesHeld

LEMMA LInvShows == IInv /\ LInv => NoLeak
  <1> SUFFICES ASSUME IInv, LInv PROVE NoLeak
    OBVIOUS
  <1>1. PICK lv \in [Tables -> 0..Top] : Held(mem, used, lv, cpu)
    BY DEF LInv
  <1> DEFINE Starts == {d \in CPUs : cpu[d].pc \in {"split", "install"}}
             Ended == {d \in CPUs : cpu[d].pc = "cleanup"}
             K == ({Root} \cup SubTables(mem, Table(Root))) \cup (News(cpu) \cup UNION {SubTables(mem, cpu[c].old) : c \in Ended})
  <1>2. Forest(mem, used, lv, Private(cpu)) /\ Cpus(mem, used, lv, cpu)
    BY <1>1 DEF Held
  <1>3. Private(cpu) \subseteq used /\ Root \in used
    BY <1>2 DEF Forest
  <1>4. Table(Root).k = "table" /\ Table(Root).to = Root
    BY DEF Table
  <1>5. /\ Root \in SubTables(mem, Table(Root)) /\ SubTables(mem, Table(Root)) \subseteq used
        /\ Closed(mem, used, SubTables(mem, Table(Root)))
    BY <1>2, <1>3, <1>4, SubTablesAre
  <1>6. \A c \in Starts : /\ cpu[c].new.k = "table" /\ cpu[c].new.to \in Private(cpu)
                          /\ \A i \in Entries : mem[cpu[c].new.to][i].k # "table"
    <2> SUFFICES ASSUME NEW c \in Starts
                 PROVE  /\ cpu[c].new.k = "table" /\ cpu[c].new.to \in Private(cpu)
                        /\ \A i \in Entries : mem[cpu[c].new.to][i].k # "table"
      OBVIOUS
    <2>1. cpu[c].new.k = "table" /\ Priv(cpu[c]) = {cpu[c].new.to} /\ Fresh(mem, cpu, c)
      BY <1>1, FreshAlone, Knows
    <2> QED
      BY <2>1 DEF Fresh, Private
  <1>7. ASSUME NEW c \in Ended
        PROVE  /\ SubTables(mem, cpu[c].old) \subseteq used /\ Closed(mem, used, SubTables(mem, cpu[c].old))
               /\ cpu[c].old.k = "table" => cpu[c].old.to \in SubTables(mem, cpu[c].old)
    <2> DEFINE e == cpu[c].old
    <2>1. e.k = "table" => e.to \in Private(cpu)
      BY DEF Priv, Private
    <2>2. e.k = "table" => e.to \in used
      BY <1>3, <2>1
    <2> HIDE DEF e
    <2>3. /\ SubTables(mem, e) \subseteq used /\ Closed(mem, used, SubTables(mem, e))
          /\ e.k = "table" => e.to \in SubTables(mem, e)
      BY <1>2, <2>2, SubTablesAre
    <2> QED
      BY <2>3 DEF e
  <1>8. K \subseteq used
    BY <1>2, <1>3, <1>5, <1>7, NewsAre
  <1>9. Closed(mem, used, K)
    <2> SUFFICES ASSUME NEW t \in K, NEW i \in Entries, mem[t][i].k = "table" PROVE mem[t][i].to \in K
      BY DEF Closed
    <2>1. CASE t \in SubTables(mem, Table(Root))
      BY <1>5, <1>8, <2>1 DEF Closed
    <2>2. CASE t \in News(cpu)
      BY <1>6, <2>2 DEF News
    <2>3. ASSUME NEW c \in Ended, t \in SubTables(mem, cpu[c].old) PROVE mem[t][i].to \in K
      <3>1. mem[t][i].to \in SubTables(mem, cpu[c].old)
        BY <1>7, <1>8, <2>3 DEF Closed
      <3> QED
        BY <3>1
    <2> QED
      BY <1>5, <2>1, <2>2, <2>3
  <1>10. Private(cpu) \subseteq K
    <2> SUFFICES ASSUME NEW c \in CPUs, NEW t \in Priv(cpu[c]) PROVE t \in K
      BY DEF Private
    <2>1. CASE c \in Starts
      BY <2>1 DEF Priv, News
    <2>2. CASE c \notin Starts
      <3>1. c \in Ended /\ cpu[c].old.k = "table" /\ t = cpu[c].old.to
        BY <2>2 DEF Priv
      <3>2. t \in SubTables(mem, cpu[c].old)
        BY <1>7, <3>1
      <3> QED
        BY <3>1, <3>2
    <2> QED
      BY <2>1, <2>2
  <1>11. used \subseteq K
    <2> HIDE DEF K
    <2>1. Root \in K
      BY DEF K
    <2> QED
      BY <1>2, <1>9, <1>10, <2>1, AllReached
  <1>12. used = K
    BY <1>8, <1>11
  <1> DEFINE Y == (Below(Table(Root)) \cup {cpu[c].new : c \in Starts}) \cup UNION {Below(cpu[c].old) : c \in Ended}
             L == {Root} \cup {x.to : x \in {y \in Y : y.k = "table"}}
  <1>13. ASSUME NEW e PROVE SubTables(mem, e) = {x.to : x \in {y \in Below(e) : y.k = "table"}}
    BY DEF SubTables, Below, BelowIn
  <1>14. L = K
    <2>1. \A t : t \in L <=> t = Root \/ \E y \in Y : y.k = "table" /\ y.to = t
      OBVIOUS
    <2>2. \A y : y \in Y <=> \/ y \in Below(Table(Root)) \/ \E c \in Starts : y = cpu[c].new
                             \/ \E c \in Ended : y \in Below(cpu[c].old)
      OBVIOUS
    <2>3. \A e, t : t \in SubTables(mem, e) <=> \E y \in Below(e) : y.k = "table" /\ y.to = t
      BY <1>13
    <2>4. \A t : t \in News(cpu) <=> \E c \in Starts : cpu[c].new.to = t
      BY DEF News
    <2>5. \A t : t \in K <=> \/ t = Root \/ t \in SubTables(mem, Table(Root)) \/ t \in News(cpu)
                             \/ \E c \in Ended : t \in SubTables(mem, cpu[c].old)
      OBVIOUS
    <2>6. \A c \in Starts : cpu[c].new.k = "table"
      BY <1>6
    <2> HIDE DEF K, L, Y, Starts, Ended
    <2>7. ASSUME NEW t \in L PROVE t \in K
      BY <2>1, <2>2, <2>3, <2>4, <2>5, <2>7
    <2>8. ASSUME NEW t \in K PROVE t \in L
      BY <2>1, <2>2, <2>3, <2>4, <2>5, <2>6, <2>8
    <2> QED
      BY <2>7, <2>8
  <1>15. used = L
    BY <1>12, <1>14
  <1> QED
    BY <1>15 DEF NoLeak

LEMMA LInvIsInvariant ==
    ASSUME ~ Concurrent
    PROVE  Spec => [](IInv /\ LInv)
  <1>1. Init => IInv /\ LInv
    BY InitHolds, LInit
  <1>2. IInv /\ LInv /\ [Next]_vars => (IInv /\ LInv)'
    BY NextKeeps, LNext
  <1> QED
    BY <1>1, <1>2, PTL DEF Spec

(***************************************************************************)
(* No table is leaked or freed early (walk_down_and_split, fill_entries    *)
(* and cleanup): the tables in use are those below the root, those that a  *)
(* CPU is about to link and those below an entry that it is cleaning up.   *)
(* It holds for any number of CPUs, levels, entries and tables, as long as *)
(* requests that may free tables run alone.                                *)
(***************************************************************************)
THEOREM NothingLeaks ==
    ASSUME ~ Concurrent
    PROVE  Spec => []NoLeak
  BY LInvIsInvariant, LInvShows, PTL

(***************************************************************************)
(* Under the same condition no CPU goes on to use a table that another one *)
(* has given back to the allocator (walk_down_and_split, fill_entries,     *)
(* lookup and replace_readonly_page after each read).                      *)
(***************************************************************************)
THEOREM TablesAreHeld ==
    ASSUME ~ Concurrent
    PROVE  Spec => []TablesHeld
  BY LInvIsInvariant, LInvHolds, PTL
=============================================================================

------------------------------ MODULE IpcProofs ------------------------------
(***************************************************************************)
(* Proofs about Ipc, for every number of CPUs, ECs, SCs and semaphores:    *)
(* call chains are sound, no wakeup is lost, no call is orphaned.          *)
(***************************************************************************)
EXTENDS Ipc, FiniteSetTheorems, SequenceTheorems, WellFoundedInduction, TLAPS

Conts == Exits \cup {"null", "sys_call", "send_msg", "dead"}
Places == ECs \cup {"ready", "current", "off", "gone"}

\* Only local ECs are called.
Types ==
    /\ cont \in [ECs -> Conts]
    /\ partner \in [ECs -> Locals \cup {NONE}]
    /\ rcap \in [ECs -> ECs \cup {NONE}]
    /\ dst \in [ECs -> Locals \cup {NONE}]
    /\ smq \in [Sms -> Seq(ECs)]
    /\ counter \in [Sms -> Nat]
    /\ place \in [Scs -> Places]
    /\ cur \in [CPUs -> ECs \cup {NONE}]
    /\ sc \in [CPUs -> Scs \cup {NONE}]
    /\ pc \in [CPUs -> {"schedule", "idle", "activate", "block", "run", "release", "exit", "user"}]
    /\ arg \in [CPUs -> ECs \cup {NONE}]
    /\ ctr_link \in [CPUs -> Nat]

\* The ECs of a call, and what a CPU is about, belong to one CPU, and the SC
\* that runs there is its own.
AtHome ==
    /\ \A x \in ECs : partner[x] # NONE => Home[partner[x]] = Home[x]
    /\ \A x \in ECs : dst[x] # NONE => Home[dst[x]] = Home[x]
    /\ \A d \in CPUs : pc[d] \notin {"schedule", "idle"} =>
           sc[d] \in Scs /\ place[sc[d]] = "current" /\ Home[Owner[sc[d]]] = d
    /\ \A d \in CPUs : pc[d] \in {"activate", "block"} => arg[d] \in ECs /\ Home[arg[d]] = d
    /\ \A d \in CPUs : pc[d] = "release" => arg[d] \in ECs
    /\ \A d \in CPUs : pc[d] \in {"run", "exit", "user", "release"} => cur[d] \in ECs /\ Home[cur[d]] = d

\* The two ends of a call agree; a callee is busy, and one without a caller is
\* free or dead; an EC that waits for a semaphore waits for nothing else.
Calls ==
    /\ \A x \in ECs : partner[x] # NONE => rcap[partner[x]] = x /\ cont[partner[x]] # "null"
    /\ \A x \in ECs : rcap[x] # NONE => partner[rcap[x]] = x
    /\ \A x \in ECs : cont[x] = "null" => partner[x] = NONE
    /\ \A x \in Locals : rcap[x] = NONE => cont[x] \in {"null", "dead"}
    /\ \A x \in ECs : Queued(x) => cont[x] # "null" /\ partner[x] = NONE

\* An EC in user space or on the way there is at the end of its call chain, does
\* not wait, and has a caller if it needs one.
Running ==
    /\ \A d \in CPUs : pc[d] \in {"run", "exit", "user", "release"} =>
           partner[cur[d]] = NONE /\ ~ Queued(cur[d]) /\ cont[cur[d]] # "null"
    /\ \A d \in CPUs : pc[d] \in {"exit", "user", "release"} /\ cur[d] \in Locals => rcap[cur[d]] # NONE
    /\ \A d \in CPUs : pc[d] = "block" => partner[arg[d]] = NONE
    /\ \A d \in CPUs : pc[d] \in {"activate", "block"} /\ arg[d] \in Locals => cont[arg[d]] # "null"
    /\ \A d \in CPUs : pc[d] = "activate" /\ arg[d] \in Globals => arg[d] = Owner[sc[d]]
    /\ \A x \in ECs : cont[x] \in {"sys_call", "send_msg"} /\ dst[x] = NONE =>
           pc[Home[x]] \in {"exit", "user", "release"} /\ cur[Home[x]] = x

Top(c) == IF pc[c] = "block" THEN arg[c] ELSE cur[c]

\* ctr_link counts the links of the chain to the EC that runs, from the owner of
\* the SC or from a server that it helps.
Chain(c, f) ==
    /\ f[0] \in Locals \cup {Owner[sc[c]]} /\ f[ctr_link[c]] = Top(c)
    /\ \A i \in 1..ctr_link[c] : partner[f[i - 1]] = f[i]
Residents(c) == {e \in ECs : Home[e] = c}
Linked ==
    \A d \in CPUs : pc[d] \in {"block", "run", "exit", "user", "release"} =>
        \E f \in [0..ctr_link[d] -> Residents(d)] : Chain(d, f)

\* Who waits for an EC waits for one in a queue, for a global EC that has no
\* continuation any more, or is about to be woken.
Waiters ==
    \A s \in Scs : place[s] \in ECs =>
        \/ Queued(place[s])
        \/ place[s] \in Globals /\ cont[place[s]] = "null"
        \/ \E d \in CPUs : pc[d] = "release" /\ arg[d] = place[s]

-----------------------------------------------------------------------------
(* Call chains.                                                            *)

LEMMA Smallest ==
    ASSUME NEW S, S \subseteq Nat, S # {}
    PROVE  \E n \in S : \A m \in S : n <= m
  <1> DEFINE Less == {ss \in Nat \X Nat : ss[1] < ss[2]}
  <1>1. IsWellFoundedOn(Less, Nat)
    BY NatLessThanWellFounded DEF OpToRel
  <1> HIDE DEF Less
  <1>2. \E n \in S : \A m \in S : ~ (<<m, n>> \in Less)
    BY <1>1, WFMin
  <1>3. ASSUME NEW m \in Nat, NEW n \in Nat, m < n PROVE <<m, n>> \in Less
    BY <1>3 DEF Less
  <1>4. \A m \in Nat, n \in Nat : ~(m < n) => n <= m
    OBVIOUS
  <1> QED
    BY <1>2, <1>3, <1>4

After1(x) == IF x = NONE THEN NONE ELSE partner[x]
N == Cardinality(ECs)

\* The recursive function in Walk exists and does what its definition says.
LEMMA WalkUnfolds ==
    ASSUME Types, NEW e \in ECs
    PROVE  /\ N \in Nat /\ Walk(e) \in [0..N -> ECs \cup {NONE}] /\ Walk(e)[0] = e
           /\ \A n \in 1..N : Walk(e)[n] = After1(Walk(e)[n - 1])
  <1>1. N \in Nat
    BY IpcAssumption, FS_CardinalityType DEF N
  <1>2. \A x \in ECs \cup {NONE} : After1(x) \in ECs \cup {NONE}
    BY IpcAssumption DEF Types, After1, ECs
  <1> DEFINE Upto(k, g) == /\ g \in [0..k -> ECs \cup {NONE}] /\ g[0] = e
                           /\ \A n \in 1..k : g[n] = After1(g[n - 1])
             Bad == {k \in 0..N : ~ \E g : Upto(k, g)}
  <1>3. Bad = {}
    <2> SUFFICES ASSUME Bad # {} PROVE FALSE
      OBVIOUS
    <2>1. PICK k \in Bad : \A m \in Bad : k <= m
      BY <1>1, Smallest, Bad \subseteq Nat
    <2>2. k # 0
      <3>1. Upto(0, [i \in 0..0 |-> e])
        OBVIOUS
      <3> QED
        BY <3>1
    <2>3. k - 1 \in 0..N /\ k - 1 \notin Bad
      <3>1. k \in 0..N
        OBVIOUS
      <3>2. k - 1 \in 0..N /\ ~ (k <= k - 1)
        BY <1>1, <2>2, <3>1
      <3> HIDE DEF Bad
      <3> QED
        BY <2>1, <3>2
    <2>4. PICK g : Upto(k - 1, g)
      BY <2>3
    <2>5. Upto(k, [i \in 0..k |-> IF i < k THEN g[i] ELSE After1(g[k - 1])])
      <3> DEFINE h == [i \in 0..k |-> IF i < k THEN g[i] ELSE After1(g[k - 1])]
      <3>1. k \in Nat /\ k - 1 \in Nat /\ k # 0
        BY <2>2, <2>3
      <3>2. h \in [0..k -> ECs \cup {NONE}] /\ h[0] = e
        BY <1>2, <2>4, <3>1
      <3>3. ASSUME NEW n \in 1..k PROVE h[n] = After1(h[n - 1])
        BY <2>4, <3>1
      <3> QED
        BY <3>2, <3>3
    <2> QED
      BY <2>5
  <1>4. PICK g : Upto(N, g)
    <2>1. N \in 0..N /\ N \notin Bad
      BY <1>1, <1>3
    <2> QED
      BY <2>1
  <1>5. \E w : w = [n \in 0..N |-> IF n = 0 THEN e ELSE IF w[n - 1] = NONE THEN NONE ELSE partner[w[n - 1]]]
    <2>1. g = [n \in 0..N |-> IF n = 0 THEN e ELSE IF g[n - 1] = NONE THEN NONE ELSE partner[g[n - 1]]]
      BY <1>1, <1>4 DEF After1
    <2> QED
      BY <2>1
  <1>6. Walk(e) = [n \in 0..N |-> IF n = 0 THEN e ELSE IF Walk(e)[n - 1] = NONE THEN NONE ELSE partner[Walk(e)[n - 1]]]
    BY <1>5 DEF Walk, N
  <1> DEFINE w == Walk(e)
  <1>7. w[0] = e /\ \A n \in 1..N : w[n] = After1(w[n - 1])
    BY <1>1, <1>6 DEF After1
  <1>8. \A n \in 0..N : w[n] \in ECs \cup {NONE}
    <2> DEFINE Out == {n \in 0..N : w[n] \notin ECs \cup {NONE}}
    <2> HIDE DEF w
    <2> SUFFICES ASSUME Out # {} PROVE FALSE
      OBVIOUS
    <2>1. PICK n \in Out : \A m \in Out : n <= m
      BY <1>1, Smallest, Out \subseteq Nat
    <2>2. n # 0
      BY <1>7
    <2>3. n \in 1..N /\ n - 1 \in 0..N /\ n - 1 \notin Out
      BY <1>1, <2>1, <2>2
    <2> QED
      BY <1>2, <1>7, <2>1, <2>3
  <1> QED
    BY <1>1, <1>6, <1>7, <1>8

\* There is no cycle of calls.
Ranked(rank) == rank \in [ECs -> Nat] /\ \A e \in ECs : partner[e] # NONE => rank[partner[e]] < rank[e]
Acyclic == \E rank : Ranked(rank)

\* Up to its last EC a walk goes along partner; then it has ended.
LEMMA WalkEnds ==
    ASSUME Types, Acyclic, NEW e \in ECs
    PROVE  /\ Walk(e)[N] = NONE
           /\ Links(e) \in Nat /\ Links(e) < N
           /\ \A i \in 0..Links(e) : Walk(e)[i] \in ECs
           /\ \A i \in 1..Links(e) : Walk(e)[i] = partner[Walk(e)[i - 1]]
           /\ partner[Walk(e)[Links(e)]] = NONE
  <1> DEFINE w == Walk(e)
  <1>1. /\ N \in Nat /\ w \in [0..N -> ECs \cup {NONE}] /\ w[0] = e
        /\ \A n \in 1..N : w[n] = After1(w[n - 1])
    BY WalkUnfolds
  <1>2. NONE \notin ECs /\ IsFiniteSet(ECs)
    BY IpcAssumption
  <1> DEFINE Ended == {n \in 0..N : w[n] = NONE}
  <1> HIDE DEF w
  <1>3. Ended # {}
    <2> SUFFICES ASSUME \A n \in 0..N : w[n] \in ECs PROVE FALSE
      BY <1>1
    <2>1. PICK rank : Ranked(rank)
      BY DEF Acyclic
    <2>2. \A n \in 1..N : rank[w[n]] < rank[w[n - 1]]
      <3> SUFFICES ASSUME NEW n \in 1..N PROVE rank[w[n]] < rank[w[n - 1]]
        OBVIOUS
      <3>1. n - 1 \in 0..N /\ n \in 0..N
        BY <1>1
      <3>2. w[n] = partner[w[n - 1]] /\ w[n] # NONE /\ w[n - 1] \in ECs
        BY <1>1, <1>2, <3>1 DEF After1
      <3> QED
        BY <2>1, <3>2 DEF Ranked
    <2> DEFINE Falls(k) == \A i \in 0..N : i < k => rank[w[k]] < rank[w[i]]
               Rises == {k \in 0..N : ~ Falls(k)}
    <2>3. Rises = {}
      <3> SUFFICES ASSUME Rises # {} PROVE FALSE
        OBVIOUS
      <3>1. PICK k \in Rises : \A m \in Rises : k <= m
        BY <1>1, Smallest, Rises \subseteq Nat
      <3>2. PICK i \in 0..N : i < k /\ ~ (rank[w[k]] < rank[w[i]])
        BY <3>1
      <3>3. k \in 1..N /\ k - 1 \in 0..N /\ k - 1 \notin Rises
        BY <1>1, <3>1, <3>2
      <3>4. rank[w[k]] < rank[w[k - 1]]
        BY <2>2, <3>3
      <3>5. i = k - 1 \/ i < k - 1
        BY <3>2, <3>3
      <3>6. CASE i < k - 1
        <4>1. rank[w[k - 1]] < rank[w[i]]
          BY <3>3, <3>6
        <4>2. rank[w[k]] \in Nat /\ rank[w[k - 1]] \in Nat /\ rank[w[i]] \in Nat
          BY <2>1, <3>1, <3>3 DEF Ranked
        <4> QED
          BY <3>2, <3>4, <4>1, <4>2
      <3> QED
        BY <3>2, <3>4, <3>5, <3>6
    <2>4. w \in [0..N -> ECs]
      BY <1>1
    <2>5. IsFiniteSet(0..N) /\ Cardinality(0..N) = N + 1
      BY <1>1, FS_Interval
    <2>6. \E x, y \in 0..N : x # y /\ w[x] = w[y]
      <3>1. Cardinality(ECs) < Cardinality(0..N)
        BY <1>1, <2>5 DEF N
      <3> QED
        BY <1>2, <2>4, <2>5, <3>1, FS_PigeonHole
    <2>7. PICK x \in 0..N, y \in 0..N : x < y /\ w[x] = w[y]
      BY <1>1, <2>6
    <2>8. rank[w[y]] < rank[w[x]] /\ rank[w[x]] \in Nat
      <3>1. y \notin Rises
        BY <2>3
      <3> QED
        BY <2>1, <2>7, <3>1 DEF Ranked
    <2> QED
      BY <2>7, <2>8
  <1>4. PICK l \in Ended : \A m \in Ended : l <= m
    BY <1>1, <1>3, Smallest, Ended \subseteq Nat
  <1>5. l \in 1..N
    BY <1>1, <1>2
  <1>6. \A i \in 0..N : i < l => w[i] \in ECs
    BY <1>1, <1>4
  <1>7. \A i \in 0..N : l <= i => w[i] = NONE
    <2> DEFINE Back == {i \in 0..N : l <= i /\ w[i] # NONE}
    <2> SUFFICES ASSUME Back # {} PROVE FALSE
      OBVIOUS
    <2>1. PICK i \in Back : \A m \in Back : i <= m
      BY <1>1, Smallest, Back \subseteq Nat
    <2>2. i # l /\ l <= i /\ i \in 0..N /\ w[i] # NONE
      BY <2>1, <1>4
    <2>3. i \in 1..N /\ i - 1 \in 0..N /\ l <= i - 1
      BY <1>1, <1>5, <2>2
    <2>4. w[i - 1] = NONE
      BY <2>1, <2>3
    <2> QED
      BY <1>1, <2>2, <2>3, <2>4 DEF After1
  <1>8. {n \in 1..N : w[n] # NONE} = 1..(l - 1)
    <2>1. ASSUME NEW n \in 1..N PROVE w[n] # NONE <=> n <= l - 1
      <3>1. n \in 0..N /\ l \in Nat
        BY <1>1, <1>5
      <3>2. CASE l <= n
        BY <1>1, <1>5, <1>7, <3>1, <3>2
      <3>3. CASE n < l
        BY <1>2, <1>5, <1>6, <3>1, <3>3
      <3> QED
        BY <3>1, <3>2, <3>3
    <2> QED
      BY <1>1, <1>5, <2>1
  <1>9. Links(e) = l - 1
    <2>1. Links(e) = Cardinality({n \in 1..N : w[n] # NONE})
      BY DEF Links, N, w
    <2>2. l - 1 \in Int /\ l >= 1
      BY <1>5
    <2>3. Cardinality(1..(l - 1)) = l - 1
      BY <2>2, FS_Interval
    <2> QED
      BY <1>8, <2>1, <2>3
  <1>10. /\ w[N] = NONE /\ l - 1 \in Nat /\ l - 1 < N
         /\ \A i \in 0..(l - 1) : w[i] \in ECs
    BY <1>1, <1>5, <1>6, <1>7
  <1>11. \A i \in 1..(l - 1) : w[i] = partner[w[i - 1]]
    <2> SUFFICES ASSUME NEW i \in 1..(l - 1) PROVE w[i] = partner[w[i - 1]]
      OBVIOUS
    <2>1. i \in 1..N /\ i - 1 \in 0..N /\ i - 1 < l
      BY <1>1, <1>5
    <2> QED
      BY <1>1, <1>2, <1>6, <2>1 DEF After1
  <1>12. partner[w[l - 1]] = NONE
    <2>1. l - 1 \in 0..N /\ l - 1 < l /\ w[l] = After1(w[l - 1]) /\ w[l] = NONE
      BY <1>1, <1>4, <1>5
    <2> QED
      BY <1>2, <1>6, <2>1 DEF After1
  <1> QED
    BY <1>9, <1>10, <1>11, <1>12 DEF w

-----------------------------------------------------------------------------
(* The forms that a step of a CPU takes.                                   *)

IInv == /\ Types /\ AtHome /\ Calls /\ Running /\ Acyclic /\ Linked /\ Waiters
        /\ TokensUsed /\ NoOrphanedCall

\* activate, with the end e of the chain and the number n of its links.
Activates(c, e, n) ==
    /\ pc[c] = "activate"
    /\ e \in ECs /\ Home[e] = c /\ partner[e] = NONE /\ (e \in Locals => cont[e] # "null")
    /\ n \in Nat
    /\ \E f \in [0..n -> Residents(c)] : f[0] = arg[c] /\ f[n] = e /\ \A i \in 1..n : partner[f[i - 1]] = f[i]
    /\ ctr_link' = [ctr_link EXCEPT ![c] = n]
    /\ IF blocked(e) THEN Goto(c, "block", e) /\ UNCHANGED <<cur, sc>> ELSE return_to_user(c, e)
    /\ UNCHANGED <<ipc, sms, scs>>

\* The current EC takes a step on its own behalf.
Acts(c) == pc[c] \in {"user", "run"}

Delivers(c, e, k) ==
    /\ Acts(c) /\ e \in Locals /\ Home[e] = c /\ cont[e] = "null" /\ k \in Exits
    /\ pc[c] = "run" => cont[cur[c]] \in {"sys_call", "send_msg"}
    /\ deliver(c, e, k)

Helps(c, e, k) ==
    /\ Acts(c) /\ e \in Locals /\ Home[e] = c /\ cont[e] # "null" /\ k \in {"sys_call", "send_msg"}
    /\ cont' = [cont EXCEPT ![cur[c]] = k]
    /\ dst' = [dst EXCEPT ![cur[c]] = e]
    /\ Goto(c, "activate", e)
    /\ pc[c] = "run" => cont[cur[c]] = k
    /\ UNCHANGED <<partner, rcap, sms, scs, cur, sc, ctr_link>>

Refuses(c) ==
    /\ Acts(c) /\ (pc[c] = "run" => cont[cur[c]] = "sys_call")
    /\ dst' = [dst EXCEPT ![cur[c]] = NONE]
    /\ Goto(c, "exit", NONE)
    /\ UNCHANGED <<cont, partner, rcap, sms, scs, cur, sc, ctr_link>>

\* What the current EC makes of the continuation of its caller, if it has one,
\* and of the calls that are to be started again.
Answers(c, cs) ==
    /\ cs \in [ECs -> Conts]
    /\ \A x \in ECs : cs[x] = cont[x] \/ (x = rcap[cur[c]] /\
           (cs[x] = "dead" \/ (cont[x] = "ret_user_sysexit" /\ cs[x] \in {"sys_finish", "sys_call"})))
    /\ dst' \in [ECs -> Locals \cup {NONE}]
    /\ \A x \in ECs : dst'[x] # NONE => Home[dst'[x]] = Home[x]
    /\ \A x \in ECs : dst'[x] = NONE /\ cs[x] \in {"sys_call", "send_msg"} /\ x # cur[c] =>
           dst[x] = NONE /\ cont[x] = cs[x]

Replies(c, cs, k, m) ==
    /\ Acts(c) /\ Answers(c, cs) /\ k \in {"null", "dead"}
    /\ m \in Sms \cup {NONE}
    /\ reply(c, cs, k, m)

LEMMA ActivateForm ==
    ASSUME IInv, NEW c \in CPUs, activate(c)
    PROVE  \E e, n : Activates(c, e, n)
  <1> DEFINE n == Links(arg[c])
             e == Walk(arg[c])[n]
             f == [i \in 0..n |-> Walk(arg[c])[i]]
  <1>1. pc[c] = "activate" /\ arg[c] \in ECs /\ Home[arg[c]] = c
    BY DEF activate, IInv, AtHome
  <1>2. /\ n \in Nat /\ \A i \in 0..n : Walk(arg[c])[i] \in ECs
        /\ \A i \in 1..n : Walk(arg[c])[i] = partner[Walk(arg[c])[i - 1]]
        /\ partner[e] = NONE /\ Walk(arg[c])[0] = arg[c]
    BY <1>1, WalkEnds, WalkUnfolds DEF IInv
  <1>3. ctr_link' = [ctr_link EXCEPT ![c] = n] /\ UNCHANGED <<ipc, sms, scs>>
        /\ IF blocked(e) THEN Goto(c, "block", e) /\ UNCHANGED <<cur, sc>> ELSE return_to_user(c, e)
    BY DEF activate
  <1> HIDE DEF n
  <1>4. f \in [0..n -> ECs] /\ f[0] = arg[c] /\ f[n] = e /\ \A i \in 1..n : partner[f[i - 1]] = f[i]
    BY <1>2
  <1> HIDE DEF e, f
  <1>5. \A i \in 0..n : Home[f[i]] = c
    <2> DEFINE Away == {i \in 0..n : Home[f[i]] # c}
    <2> SUFFICES ASSUME Away # {} PROVE FALSE
      OBVIOUS
    <2>1. PICK i \in Away : \A j \in Away : i <= j
      BY <1>2, Smallest, Away \subseteq Nat
    <2>2. i # 0
      BY <1>1, <1>4
    <2>3. i \in 1..n /\ i - 1 \in 0..n /\ i - 1 \notin Away
      BY <1>2, <2>1, <2>2
    <2>4. f[i - 1] \in ECs /\ f[i] \in ECs /\ partner[f[i - 1]] = f[i] /\ NONE \notin ECs
      BY <1>4, <2>3, IpcAssumption
    <2> QED
      BY <2>1, <2>3, <2>4 DEF IInv, AtHome
  <1>6. e \in ECs /\ Home[e] = c /\ f \in [0..n -> Residents(c)]
    BY <1>2, <1>4, <1>5 DEF Residents
  <1>7. e \in Locals => cont[e] # "null"
    <2>1. CASE n = 0
      BY <1>1, <1>4, <2>1 DEF IInv, Running
    <2>2. CASE n # 0
      <3>1. n \in 1..n /\ n - 1 \in 0..n
        BY <1>2, <2>2
      <3>2. f[n - 1] \in ECs /\ partner[f[n - 1]] = e /\ e # NONE
        BY <1>4, <1>6, <3>1, IpcAssumption
      <3> QED
        BY <3>2 DEF IInv, Calls
    <2> QED
      BY <2>1, <2>2
  <1> QED
    BY <1>1, <1>2, <1>3, <1>4, <1>6, <1>7 DEF Activates

\* What a CPU knows of the current EC and of its caller.
InCharge(c) ==
    /\ cur[c] \in ECs /\ Home[cur[c]] = c /\ partner[cur[c]] = NONE /\ ~ Queued(cur[c])
    /\ cont[cur[c]] # "null"
    /\ sc[c] \in Scs /\ place[sc[c]] = "current" /\ Owner[sc[c]] \in Globals /\ Home[Owner[sc[c]]] = c
    /\ rcap[cur[c]] # NONE => /\ rcap[cur[c]] \in ECs /\ rcap[cur[c]] # cur[c] /\ cur[c] \in Locals
                              /\ partner[rcap[cur[c]]] = cur[c] /\ Home[rcap[cur[c]]] = c
                              /\ cont[rcap[cur[c]]] # "null" /\ ~ Queued(rcap[cur[c]])

LEMMA Current ==
    ASSUME IInv, NEW c \in CPUs, pc[c] \in {"run", "exit", "user", "release"}
    PROVE  InCharge(c)
  <1> USE DEF InCharge
  <1>1. /\ cur[c] \in ECs /\ Home[cur[c]] = c /\ partner[cur[c]] = NONE /\ ~ Queued(cur[c])
        /\ cont[cur[c]] # "null" /\ sc[c] \in Scs /\ place[sc[c]] = "current" /\ Home[Owner[sc[c]]] = c
    BY DEF IInv, AtHome, Running
  <1>2. Owner[sc[c]] \in Globals /\ NONE \notin ECs
    BY <1>1, IpcAssumption
  <1>3. ASSUME rcap[cur[c]] # NONE
        PROVE  /\ rcap[cur[c]] \in ECs /\ partner[rcap[cur[c]]] = cur[c]
               /\ partner[rcap[cur[c]]] \in Locals \cup {NONE}
    BY <1>1, <1>3 DEF IInv, Types, Calls
  <1>4. ASSUME rcap[cur[c]] # NONE
        PROVE  /\ rcap[cur[c]] # cur[c] /\ cur[c] \in Locals
               /\ Home[rcap[cur[c]]] = c /\ cont[rcap[cur[c]]] # "null" /\ ~ Queued(rcap[cur[c]])
    BY <1>1, <1>2, <1>3, <1>4 DEF IInv, AtHome, Calls
  <1> QED
    BY <1>1, <1>2, <1>3, <1>4

LEMMA DieForm ==
    ASSUME IInv, NEW c \in CPUs, Acts(c), die(c),
           dst' = dst \/ dst' = [dst EXCEPT ![cur[c]] = NONE]
    PROVE  \E cs, k, m : Replies(c, cs, k, m)
  <1> DEFINE r == rcap[cur[c]]
             cs == IF r = NONE THEN cont
                   ELSE [cont EXCEPT ![r] = IF @ = "ret_user_sysexit" THEN "sys_finish" ELSE "dead"]
  <1>1. reply(c, cs, "dead", NONE)
    BY DEF die
  <1>2. Answers(c, cs)
    <2>1. cont \in [ECs -> Conts] /\ dst \in [ECs -> Locals \cup {NONE}]
      BY DEF IInv, Types
    <2>2. cur[c] \in ECs
      BY Current DEF Acts, InCharge
    <2>3. /\ cs \in [ECs -> Conts]
          /\ \A x \in ECs : cs[x] = cont[x] \/ (x = r /\
               (cs[x] = "dead" \/ (cont[x] = "ret_user_sysexit" /\ cs[x] \in {"sys_finish", "sys_call"})))
          /\ \A x \in ECs : cs[x] \in {"sys_call", "send_msg"} => cont[x] = cs[x]
      BY <2>1 DEF Conts, Exits
    <2>4. dst' \in [ECs -> Locals \cup {NONE}] /\ \A x \in ECs : dst'[x] = dst[x] \/ (x = cur[c] /\ dst'[x] = NONE)
      BY <2>1, <2>2
    <2> HIDE DEF cs
    <2> QED
      BY <2>3, <2>4 DEF Answers, IInv, AtHome
  <1> HIDE DEF cs
  <1> QED
    BY <1>1, <1>2 DEF Replies

LEMMA ReplyForm ==
    ASSUME IInv, NEW c \in CPUs, sys_reply(c)
    PROVE  \E cs, k, m : Replies(c, cs, k, m)
  <1> DEFINE r == rcap[cur[c]]
  <1>1. PICK m \in Sms \cup {NONE} :
            LET again == r # NONE /\ m # NONE /\ cont[r] = "ret_user_sysexit"
            IN  /\ reply(c, IF again THEN [cont EXCEPT ![r] = "sys_call"] ELSE cont, "null", IF r = NONE THEN NONE ELSE m)
                /\ dst' = IF again THEN [dst EXCEPT ![r] = cur[c]] ELSE dst
    BY DEF sys_reply
  <1> DEFINE again == r # NONE /\ m # NONE /\ cont[r] = "ret_user_sysexit"
             cs == IF again THEN [cont EXCEPT ![r] = "sys_call"] ELSE cont
             n == IF r = NONE THEN NONE ELSE m
  <1>2. pc[c] = "user"
    BY DEF sys_reply
  <1>3. cont \in [ECs -> Conts] /\ dst \in [ECs -> Locals \cup {NONE}] /\ NONE \notin ECs
    BY IpcAssumption DEF IInv, Types
  <1>4. Answers(c, cs)
    <2>1. r # NONE => r \in ECs /\ cur[c] \in Locals /\ Home[r] = c /\ Home[cur[c]] = c
      BY <1>2, Current DEF InCharge
    <2>2. CASE again
      <3>1. cs = [cont EXCEPT ![r] = "sys_call"] /\ dst' = [dst EXCEPT ![r] = cur[c]]
        BY <1>1, <2>2
      <3>2. r \in ECs /\ cur[c] \in Locals /\ Home[r] = Home[cur[c]] /\ cur[c] # NONE /\ cont[r] = "ret_user_sysexit"
        BY <1>3, <2>1, <2>2 DEF ECs
      <3> HIDE DEF cs, r
      <3>3. cs \in [ECs -> Conts] /\ dst' \in [ECs -> Locals \cup {NONE}]
        BY <1>3, <3>1, <3>2 DEF Conts
      <3>4. \A x \in ECs : /\ x # r => cs[x] = cont[x] /\ dst'[x] = dst[x]
                           /\ x = r => cs[x] = "sys_call" /\ dst'[x] = cur[c]
        BY <1>3, <3>1
      <3> QED
        BY <3>2, <3>3, <3>4 DEF Answers, IInv, AtHome, r
    <2>3. CASE ~ again
      <3>1. cs = cont /\ dst' = dst
        BY <1>1, <2>3
      <3> HIDE DEF cs
      <3> QED
        BY <1>3, <3>1 DEF Answers, IInv, AtHome
    <2> QED
      BY <2>2, <2>3
  <1>5. reply(c, cs, "null", n) /\ n \in Sms \cup {NONE}
    BY <1>1
  <1> HIDE DEF cs, n
  <1> QED
    BY <1>2, <1>4, <1>5 DEF Replies, Acts

LEMMA HelpForm ==
    ASSUME IInv, NEW c \in CPUs, Acts(c), NEW e \in Locals, Home[e] = c, cont[e] # "null",
           NEW k \in {"sys_call", "send_msg"}, pc[c] = "run" => cont[cur[c]] = k, help(c, e, k)
    PROVE  Helps(c, e, k) \/ \E cs, j, m : Replies(c, cs, j, m)
  <1>1. CASE ctr_loop[c] + 1 < LoopMax
    BY <1>1 DEF help, Helps
  <1>2. CASE ~ (ctr_loop[c] + 1 < LoopMax)
    BY <1>2, DieForm DEF help
  <1> QED
    BY <1>1, <1>2

\* What calls, exceptions and replies come down to.
Talks(c) ==
    \/ \E e, k : Delivers(c, e, k) \/ Helps(c, e, k)
    \/ Refuses(c)
    \/ \E cs, k, m : Replies(c, cs, k, m)

LEMMA SysCallForm ==
    ASSUME IInv, NEW c \in CPUs, Acts(c), NEW e \in Locals, Home[e] = c, NEW nb,
           pc[c] = "run" => cont[cur[c]] = "sys_call", sys_call(c, e, nb)
    PROVE  Talks(c)
  <1>1. CASE cont[e] = "null" /\ deliver(c, e, "ret_user_sysexit")
    BY <1>1 DEF Delivers, Exits, Talks
  <1>2. CASE cont[e] \notin {"null", "dead"} /\ help(c, e, "sys_call")
    BY <1>2, HelpForm DEF Talks
  <1>3. CASE dst' = [dst EXCEPT ![cur[c]] = NONE] /\ Goto(c, "exit", NONE)
             /\ UNCHANGED <<cont, partner, rcap, sms, scs, cur, sc, ctrs>>
    BY <1>3 DEF Refuses, Talks, ctrs
  <1> QED
    BY <1>1, <1>2, <1>3 DEF sys_call

LEMMA SendMsgForm ==
    ASSUME IInv, NEW c \in CPUs, Acts(c), NEW e \in Locals, Home[e] = c,
           pc[c] = "run" => cont[cur[c]] = "send_msg", send_msg(c, e)
    PROVE  Talks(c)
  <1>1. CASE cont[e] = "null" /\ deliver(c, e, "ret_user_iret")
    BY <1>1 DEF Delivers, Exits, Talks
  <1>2. CASE cont[e] \notin {"null", "dead"} /\ help(c, e, "send_msg")
    BY <1>2, HelpForm DEF Talks
  <1>3. CASE dst' = [dst EXCEPT ![cur[c]] = NONE] /\ die(c)
    BY <1>3, DieForm DEF Talks
  <1> QED
    BY <1>1, <1>2, <1>3 DEF send_msg

\* The callee of a call that is to be started again.
LEMMA Restart ==
    ASSUME IInv, NEW c \in CPUs, pc[c] = "run", cont[cur[c]] \in {"sys_call", "send_msg"}
    PROVE  dst[cur[c]] \in Locals /\ Home[dst[cur[c]]] = c
  <1>1. cur[c] \in ECs /\ Home[cur[c]] = c
    BY Current DEF InCharge
  <1>2. dst[cur[c]] # NONE
    BY <1>1 DEF IInv, Running
  <1> QED
    BY <1>1, <1>2 DEF IInv, Types, AtHome

LEMMA TalkForm ==
    ASSUME IInv, NEW c \in CPUs, Call(c) \/ Exception(c) \/ sys_reply(c) \/ Continue(c)
    PROVE  Talks(c)
  <1>1. CASE Call(c)
    <2>1. pc[c] = "user" /\ Acts(c)
      BY <1>1 DEF Call, Acts
    <2> QED
      BY <1>1, <2>1, SysCallForm DEF Call, Callees
  <1>2. CASE Exception(c)
    <2>1. pc[c] = "user" /\ Acts(c)
      BY <1>2 DEF Exception, Acts
    <2> QED
      BY <1>2, <2>1, SendMsgForm, DieForm DEF Exception, Callees, Talks
  <1>3. CASE sys_reply(c)
    BY <1>3, ReplyForm DEF Talks
  <1>4. CASE Continue(c)
    <2>1. pc[c] = "run" /\ Acts(c)
      BY <1>4 DEF Continue, Acts
    <2>2. CASE cont[cur[c]] = "sys_call" /\ sys_call(c, dst[cur[c]], FALSE)
      BY <2>1, <2>2, Restart, SysCallForm
    <2>3. CASE cont[cur[c]] = "send_msg" /\ send_msg(c, dst[cur[c]])
      BY <2>1, <2>3, Restart, SendMsgForm
    <2>4. CASE die(c) /\ UNCHANGED <<dst, ctr_loop>>
      BY <2>1, <2>4, DieForm DEF Talks
    <2> QED
      BY <1>4, <2>2, <2>3, <2>4 DEF Continue
  <1> QED
    BY <1>1, <1>2, <1>3, <1>4

-----------------------------------------------------------------------------
(* The queues of semaphores.                                               *)

LEMMA SameQueues ==
    ASSUME smq' = smq
    PROVE  \A x : Queued(x)' <=> Queued(x)
  BY DEF Queued

\* An EC that waits nowhere is put at the end of a queue without tokens.
LEMMA Enqueue ==
    ASSUME Types, TokensUsed, NEW m \in Sms, NEW e \in ECs, ~ Queued(e), counter[m] = 0, counter' = counter,
           EnqueueOn(m, e)
    PROVE  /\ smq' \in [Sms -> Seq(ECs)]
           /\ \A x : Queued(x)' <=> Queued(x) \/ x = e
           /\ TokensUsed'
  <1>1. smq \in [Sms -> Seq(ECs)] /\ counter \in [Sms -> Nat]
    BY DEF Types
  <1>2. smq' = [smq EXCEPT ![m] = Append(smq[m], e)]
    BY DEF EnqueueOn
  <1>3. smq' \in [Sms -> Seq(ECs)]
    BY <1>1, <1>2
  <1>4. \A n \in Sms : n # m => smq'[n] = smq[n]
    BY <1>1, <1>2
  <1>5. smq'[m] = Append(smq[m], e) /\ smq[m] \in Seq(ECs)
    BY <1>1, <1>2
  <1>6. /\ DOMAIN smq'[m] = 1..(Len(smq[m]) + 1) /\ DOMAIN smq[m] = 1..Len(smq[m]) /\ Len(smq[m]) \in Nat
        /\ \A i \in 1..Len(smq[m]) : smq'[m][i] = smq[m][i]
        /\ smq'[m][Len(smq[m]) + 1] = e
    BY <1>5
  <1>7. \A x : x \in Range(smq'[m]) <=> x \in Range(smq[m]) \/ x = e
    <2>1. ASSUME NEW x, x \in Range(smq'[m]) PROVE x \in Range(smq[m]) \/ x = e
      BY <1>6, <2>1 DEF Range
    <2>2. ASSUME NEW x, x \in Range(smq[m]) \/ x = e PROVE x \in Range(smq'[m])
      BY <1>6, <2>2 DEF Range
    <2> QED
      BY <2>1, <2>2
  <1>8. \A n \in Sms : e \notin Range(smq[n])
    BY DEF Queued
  <1>9. \A x : Queued(x)' <=> Queued(x) \/ x = e
    BY <1>4, <1>7 DEF Queued
  <1>10. IsInjective(smq'[m])
    <2>1. \A i \in 1..Len(smq[m]) : smq[m][i] # e
      BY <1>6, <1>8 DEF Range
    <2>2. IsInjective(smq[m])
      BY DEF TokensUsed
    <2> QED
      BY <1>6, <2>1, <2>2, SMTT(60) DEF IsInjective
  <1>11. TokensUsed'
    <2>1. \A n \in Sms : counter'[n] > 0 => smq'[n] = <<>>
      BY <1>4 DEF TokensUsed
    <2>2. \A n \in Sms : IsInjective(smq'[n])
      BY <1>4, <1>10 DEF TokensUsed
    <2>3. \A n, o \in Sms : n # o => Range(smq'[n]) \cap Range(smq'[o]) = {}
      <3> SUFFICES ASSUME NEW n \in Sms, NEW o \in Sms, n # o, NEW x, x \in Range(smq'[n]), x \in Range(smq'[o]) PROVE FALSE
        OBVIOUS
      <3>1. (x \in Range(smq[n]) \/ (n = m /\ x = e)) /\ (x \in Range(smq[o]) \/ (o = m /\ x = e))
        BY <1>4, <1>7
      <3>2. ~ (x \in Range(smq[n]) /\ x \in Range(smq[o]))
        BY DEF TokensUsed
      <3> QED
        BY <1>8, <3>1, <3>2
    <2> QED
      BY <2>1, <2>2, <2>3 DEF TokensUsed
  <1> QED
    BY <1>3, <1>9, <1>11

\* The first EC of a queue is taken out of it.
LEMMA Dequeue ==
    ASSUME Types, TokensUsed, NEW m \in Sms, smq[m] # <<>>, counter' = counter,
           smq' = [smq EXCEPT ![m] = Tail(@)]
    PROVE  /\ smq' \in [Sms -> Seq(ECs)] /\ Head(smq[m]) \in ECs
           /\ \A x : Queued(x)' <=> Queued(x) /\ x # Head(smq[m])
           /\ TokensUsed'
  <1> DEFINE h == Head(smq[m])
  <1>1. smq \in [Sms -> Seq(ECs)] /\ counter \in [Sms -> Nat]
    BY DEF Types
  <1>2. smq' \in [Sms -> Seq(ECs)] /\ h \in ECs
    BY <1>1
  <1>3. \A n \in Sms : n # m => smq'[n] = smq[n]
    BY <1>1
  <1>4. smq'[m] = Tail(smq[m]) /\ smq[m] \in Seq(ECs)
    BY <1>1
  <1>5. /\ DOMAIN smq[m] = 1..Len(smq[m]) /\ Len(smq[m]) \in Nat \ {0}
        /\ DOMAIN smq'[m] = 1..(Len(smq[m]) - 1)
        /\ \A i \in 1..(Len(smq[m]) - 1) : smq'[m][i] = smq[m][i + 1]
        /\ h = smq[m][1]
    <2>1. \A s \in Seq(ECs) : s # <<>> =>
             /\ DOMAIN s = 1..Len(s) /\ Len(s) \in Nat \ {0} /\ Head(s) = s[1]
             /\ Tail(s) \in Seq(ECs) /\ Len(Tail(s)) = Len(s) - 1
             /\ \A i \in 1..(Len(s) - 1) : Tail(s)[i] = s[i + 1]
      BY HeadTailProperties
    <2>2. \A s \in Seq(ECs) : DOMAIN s = 1..Len(s)
      OBVIOUS
    <2> QED
      BY <1>4, <2>1, <2>2
  <1>6. IsInjective(smq[m])
    BY DEF TokensUsed
  <1>7. \A x : x \in Range(smq'[m]) <=> x \in Range(smq[m]) /\ x # h
    <2>1. ASSUME NEW x, x \in Range(smq'[m]) PROVE x \in Range(smq[m]) /\ x # h
      <3>1. PICK i \in 1..(Len(smq[m]) - 1) : x = smq[m][i + 1]
        BY <1>5, <2>1 DEF Range
      <3>2. i + 1 \in 1..Len(smq[m]) /\ 1 \in 1..Len(smq[m]) /\ i + 1 # 1
        BY <1>5
      <3> QED
        BY <1>5, <1>6, <3>1, <3>2 DEF Range, IsInjective
    <2>2. ASSUME NEW x, x \in Range(smq[m]), x # h PROVE x \in Range(smq'[m])
      <3>1. PICK i \in 1..Len(smq[m]) : x = smq[m][i]
        BY <1>5, <2>2 DEF Range
      <3>2. i - 1 \in 1..(Len(smq[m]) - 1) /\ (i - 1) + 1 = i
        BY <1>5, <2>2, <3>1
      <3>3. smq'[m][i - 1] = x
        BY <1>5, <3>1, <3>2
      <3> QED
        BY <1>5, <3>2, <3>3 DEF Range
    <2> QED
      BY <2>1, <2>2
  <1>8. h \in Range(smq[m])
    BY <1>5 DEF Range
  <1>9. \A n \in Sms : n # m => h \notin Range(smq[n])
    BY <1>8 DEF TokensUsed
  <1> HIDE DEF h
  <1>10. \A x : Queued(x)' <=> Queued(x) /\ x # h
    BY <1>3, <1>7, <1>9 DEF Queued
  <1>11. IsInjective(smq'[m])
    <2> DEFINE t == smq'[m]
    <2>1. ASSUME NEW i \in DOMAIN t, NEW j \in DOMAIN t, t[i] = t[j] PROVE i = j
      <3>1. i \in 1..(Len(smq[m]) - 1) /\ j \in 1..(Len(smq[m]) - 1) /\ smq[m][i + 1] = smq[m][j + 1]
        BY <1>5, <2>1
      <3>2. i + 1 \in 1..Len(smq[m]) /\ j + 1 \in 1..Len(smq[m])
        BY <1>5, <3>1
      <3>3. i + 1 = j + 1
        BY <1>5, <1>6, <3>1, <3>2 DEF IsInjective
      <3> QED
        BY <3>1, <3>3
    <2> HIDE DEF t
    <2>2. IsInjective(t)
      BY <2>1 DEF IsInjective
    <2> QED
      BY <2>2 DEF t
  <1>12. TokensUsed'
    <2>1. \A n \in Sms : counter'[n] > 0 => smq'[n] = <<>>
      BY <1>3 DEF TokensUsed
    <2>2. \A n \in Sms : IsInjective(smq'[n])
      BY <1>3, <1>11 DEF TokensUsed
    <2>3. \A n, o \in Sms : n # o => Range(smq'[n]) \cap Range(smq'[o]) = {}
      <3> SUFFICES ASSUME NEW n \in Sms, NEW o \in Sms, n # o, NEW x, x \in Range(smq'[n]), x \in Range(smq'[o]) PROVE FALSE
        OBVIOUS
      <3>1. x \in Range(smq[n]) /\ x \in Range(smq[o])
        BY <1>3, <1>7
      <3> QED
        BY <3>1 DEF TokensUsed
    <2> QED
      BY <2>1, <2>2, <2>3 DEF TokensUsed
  <1> QED
    BY <1>2, <1>10, <1>12 DEF h

-----------------------------------------------------------------------------
(* Steps.                                                                  *)

LEMMA Names ==
    /\ NONE \notin ECs /\ NONE \notin Scs /\ ECs = Globals \cup Locals /\ Globals \cap Locals = {}
    /\ "ready" \notin ECs /\ "current" \notin ECs /\ "off" \notin ECs /\ "gone" \notin ECs
    /\ Owner \in [Scs -> Globals] /\ Home \in [ECs -> CPUs]
  BY IpcAssumption DEF ECs

\* What only CPU c has changed concerns no other.
Alone(c) ==
    /\ \A d \in CPUs : d # c => /\ pc'[d] = pc[d] /\ cur'[d] = cur[d] /\ arg'[d] = arg[d]
                                /\ sc'[d] = sc[d] /\ ctr_link'[d] = ctr_link[d]
    /\ \A x \in ECs : Home[x] # c => cont'[x] = cont[x] /\ partner'[x] = partner[x]

Engaged == {"block", "run", "exit", "user", "release"}

LEMMA KeepLinked ==
    ASSUME IInv, NEW c \in CPUs, Alone(c),
           pc'[c] \in Engaged => \E g \in [0..ctr_link'[c] -> Residents(c)] : Chain(c, g)'
    PROVE  Linked'
  <1> SUFFICES ASSUME NEW d \in CPUs, d # c, pc'[d] \in Engaged
               PROVE  \E g \in [0..ctr_link'[d] -> Residents(d)] : Chain(d, g)'
    BY DEF Linked, Engaged
  <1>1. pc'[d] = pc[d] /\ cur'[d] = cur[d] /\ arg'[d] = arg[d] /\ sc'[d] = sc[d] /\ ctr_link'[d] = ctr_link[d]
    BY DEF Alone
  <1>2. PICK f \in [0..ctr_link[d] -> Residents(d)] : Chain(d, f)
    BY <1>1 DEF IInv, Linked, Engaged
  <1>3. ctr_link[d] \in Nat
    BY DEF IInv, Types
  <1>4. \A i \in 1..ctr_link[d] : partner'[f[i - 1]] = partner[f[i - 1]]
    <2> SUFFICES ASSUME NEW i \in 1..ctr_link[d] PROVE partner'[f[i - 1]] = partner[f[i - 1]]
      OBVIOUS
    <2>1. f[i - 1] \in Residents(d)
      BY <1>3
    <2> QED
      BY <2>1 DEF Residents, Alone
  <1>5. Chain(d, f)'
    BY <1>1, <1>2, <1>4 DEF Chain, Top
  <1> QED
    BY <1>1, <1>5

\* The chain of a CPU that goes on with the same EC.
LEMMA SameChain ==
    ASSUME IInv, NEW c \in CPUs, pc[c] \in Engaged,
           sc'[c] = sc[c], ctr_link'[c] = ctr_link[c], Top(c)' = Top(c), partner' = partner
    PROVE  \E g \in [0..ctr_link'[c] -> Residents(c)] : Chain(c, g)'
  <1>1. PICK f \in [0..ctr_link[c] -> Residents(c)] : Chain(c, f)
    BY DEF IInv, Linked, Engaged
  <1>2. Chain(c, f)'
    BY <1>1 DEF Chain
  <1> QED
    BY <1>2

\* A global EC runs on an SC of its own.
LEMMA OwnSc ==
    ASSUME IInv, NEW c \in CPUs, pc[c] \in Engaged, Top(c) \in Globals
    PROVE  Top(c) = Owner[sc[c]]
  <1>1. PICK f \in [0..ctr_link[c] -> Residents(c)] : Chain(c, f)
    BY DEF IInv, Linked, Engaged
  <1>2. ctr_link[c] \in Nat
    BY DEF IInv, Types
  <1>3. CASE ctr_link[c] = 0
    BY <1>1, <1>3, Names DEF Chain
  <1>4. CASE ctr_link[c] # 0
    <2>1. ctr_link[c] \in 1..ctr_link[c] /\ ctr_link[c] - 1 \in 0..ctr_link[c]
      BY <1>2, <1>4
    <2>2. partner[f[ctr_link[c] - 1]] = Top(c) /\ f[ctr_link[c] - 1] \in ECs
      BY <1>1, <2>1 DEF Chain, Residents
    <2>3. Top(c) \in Locals \cup {NONE}
      BY <2>2 DEF IInv, Types
    <2> QED
      BY <2>3, Names
  <1> QED
    BY <1>3, <1>4

\* A call makes the chain longer, a reply makes it shorter.
LEMMA LongerChain ==
    ASSUME IInv, NEW c \in CPUs, Acts(c), NEW e \in ECs, Home[e] = c,
           partner' = [partner EXCEPT ![cur[c]] = e], ctr_link'[c] = ctr_link[c] + 1,
           sc'[c] = sc[c], Top(c)' = e
    PROVE  \E g \in [0..ctr_link'[c] -> Residents(c)] : Chain(c, g)'
  <1> DEFINE n == ctr_link[c]
  <1>1. PICK f \in [0..n -> Residents(c)] : Chain(c, f)
    BY DEF IInv, Linked, Acts
  <1>2. n \in Nat /\ cur[c] \in ECs /\ partner[cur[c]] = NONE /\ Top(c) = cur[c]
    BY Current DEF InCharge, IInv, Types, Acts, Top
  <1> DEFINE g == [i \in 0..(n + 1) |-> IF i <= n THEN f[i] ELSE e]
  <1>3. g \in [0..(n + 1) -> Residents(c)]
    BY <1>2 DEF Residents
  <1>4. ASSUME NEW i \in 1..(n + 1) PROVE partner'[g[i - 1]] = g[i]
    <2>1. CASE i = n + 1
      <3>1. g[i] = e /\ g[i - 1] = f[n] /\ f[n] = cur[c]
        BY <1>1, <1>2, <2>1 DEF Chain
      <3> QED
        BY <1>2, <3>1 DEF IInv, Types
    <2>2. CASE i \in 1..n
      <3>1. g[i] = f[i] /\ g[i - 1] = f[i - 1] /\ partner[f[i - 1]] = f[i] /\ f[i] \in ECs /\ f[i - 1] \in ECs
        BY <1>1, <1>2, <2>2 DEF Chain, Residents
      <3>2. f[i - 1] # cur[c]
        BY <1>2, <3>1, Names
      <3> QED
        BY <3>1, <3>2 DEF IInv, Types
    <2> QED
      BY <1>2, <2>1, <2>2
  <1>5. g[0] \in Locals \cup {Owner[sc'[c]]} /\ g[n + 1] = e
    BY <1>1, <1>2 DEF Chain
  <1>6. PICK h \in [0..(n + 1) -> Residents(c)] :
            /\ h[0] \in Locals \cup {Owner[sc'[c]]} /\ h[n + 1] = e
            /\ \A i \in 1..(n + 1) : partner'[h[i - 1]] = h[i]
    <2> HIDE DEF g
    <2> QED
      BY <1>3, <1>4, <1>5
  <1>7. Chain(c, h)'
    BY <1>6 DEF Chain
  <1> QED
    BY <1>6, <1>7

LEMMA ShorterChain ==
    ASSUME IInv, NEW c \in CPUs, Acts(c), rcap[cur[c]] # NONE, ctr_link[c] # 0,
           partner' = [partner EXCEPT ![rcap[cur[c]]] = NONE], ctr_link'[c] = ctr_link[c] - 1,
           sc'[c] = sc[c], Top(c)' = rcap[cur[c]]
    PROVE  \E g \in [0..ctr_link'[c] -> Residents(c)] : Chain(c, g)'
  <1> DEFINE n == ctr_link[c]
             r == rcap[cur[c]]
  <1>1. PICK f \in [0..n -> Residents(c)] : Chain(c, f)
    BY DEF IInv, Linked, Acts
  <1>2. /\ n \in Nat /\ cur[c] \in ECs /\ partner[cur[c]] = NONE /\ Top(c) = cur[c]
        /\ partner[r] = cur[c] /\ r \in ECs
    BY Current DEF InCharge, IInv, Types, Acts, Top
  <1>3. \A i \in 0..n : f[i] \in ECs
    BY <1>1 DEF Residents
  <1>4. f[n - 1] = r
    <2>1. n \in 1..n /\ n - 1 \in 0..n
      BY <1>2
    <2>2. partner[f[n - 1]] = cur[c] /\ f[n - 1] \in ECs
      BY <1>1, <1>2, <1>3, <2>1 DEF Chain
    <2> QED
      BY <1>2, <2>2, Names DEF IInv, Calls
  <1> DEFINE g == [i \in 0..(n - 1) |-> f[i]]
  <1>5. g \in [0..(n - 1) -> Residents(c)]
    BY <1>2
  <1>6. ASSUME NEW i \in 1..(n - 1) PROVE partner'[g[i - 1]] = g[i]
    <2>1. /\ g[i] = f[i] /\ g[i - 1] = f[i - 1] /\ partner[f[i - 1]] = f[i] /\ partner[f[i]] = f[i + 1]
          /\ f[i - 1] \in ECs /\ f[i] \in ECs /\ f[i + 1] \in ECs
      <3>1. i \in 1..n /\ i + 1 \in 1..n /\ i - 1 \in 0..n /\ i \in 0..n /\ i + 1 \in 0..n /\ (i + 1) - 1 = i
            /\ i - 1 \in 0..(n - 1) /\ i \in 0..(n - 1)
        BY <1>2
      <3> QED
        BY <1>1, <1>3, <3>1 DEF Chain
    <2>2. f[i - 1] # r
      BY <1>2, <2>1, Names
    <2> QED
      BY <2>1, <2>2 DEF IInv, Types
  <1>7. g[0] \in Locals \cup {Owner[sc'[c]]} /\ g[n - 1] = r
    BY <1>1, <1>2, <1>4 DEF Chain
  <1>8. PICK h \in [0..(n - 1) -> Residents(c)] :
            /\ h[0] \in Locals \cup {Owner[sc'[c]]} /\ h[n - 1] = r
            /\ \A i \in 1..(n - 1) : partner'[h[i - 1]] = h[i]
    <2> HIDE DEF g
    <2> QED
      BY <1>5, <1>6, <1>7
  <1>9. Chain(c, h)'
    BY <1>8 DEF Chain
  <1> QED
    BY <1>8, <1>9

\* What an answer does to the continuations.
AnswerKeeps(c, k) ==
    /\ cont' \in [ECs -> Conts] /\ cont'[cur[c]] = k
    /\ \A x \in ECs : x # cur[c] /\ x # rcap[cur[c]] => cont'[x] = cont[x]
    /\ rcap[cur[c]] # NONE =>
          /\ cont'[rcap[cur[c]]] # "null"
          /\ rcap[cur[c]] \in Locals /\ rcap[rcap[cur[c]]] = NONE => cont'[rcap[cur[c]]] = "dead"
    /\ \A x \in ECs : dst'[x] = NONE /\ cont'[x] \in {"sys_call", "send_msg"} =>
          dst[x] = NONE /\ cont[x] = cont'[x] /\ x # cur[c]
    /\ \A x \in ECs : Home[x] # c => cont'[x] = cont[x]
    /\ dst' \in [ECs -> Locals \cup {NONE}]
    /\ \A x \in ECs : dst'[x] # NONE => Home[dst'[x]] = Home[x]

LEMMA Answered ==
    ASSUME IInv, NEW c \in CPUs, Acts(c), NEW cs, NEW k \in {"null", "dead"}, Answers(c, cs),
           cont' = [cs EXCEPT ![cur[c]] = k]
    PROVE  AnswerKeeps(c, k)
  <1> USE DEF AnswerKeeps
  <1>1. /\ cur[c] \in ECs /\ Home[cur[c]] = c
        /\ rcap[cur[c]] # NONE => /\ rcap[cur[c]] \in ECs /\ Home[rcap[cur[c]]] = c /\ rcap[cur[c]] # cur[c]
                                 /\ cont[rcap[cur[c]]] # "null"
    BY Current DEF Acts, InCharge
  <1>2. cs \in [ECs -> Conts] /\ k \in Conts
    BY DEF Answers, Conts
  <1>3. cont' \in [ECs -> Conts] /\ cont'[cur[c]] = k /\ \A x \in ECs : x # cur[c] => cont'[x] = cs[x]
    BY <1>1, <1>2
  <1>4. \A x \in ECs : x # cur[c] /\ x # rcap[cur[c]] => cont'[x] = cont[x]
    BY <1>3 DEF Answers
  <1>5. ASSUME rcap[cur[c]] # NONE
        PROVE  /\ cont'[rcap[cur[c]]] # "null"
               /\ rcap[cur[c]] \in Locals /\ rcap[rcap[cur[c]]] = NONE => cont'[rcap[cur[c]]] = "dead"
    BY <1>1, <1>3, <1>5 DEF Answers, IInv, Calls
  <1>6. \A x \in ECs : dst'[x] = NONE /\ cont'[x] \in {"sys_call", "send_msg"} =>
            dst[x] = NONE /\ cont[x] = cont'[x] /\ x # cur[c]
    BY <1>3 DEF Answers
  <1>7. \A x \in ECs : Home[x] # c => cont'[x] = cont[x]
    BY <1>1, <1>4, Names
  <1> QED
    BY <1>3, <1>4, <1>5, <1>6, <1>7 DEF Answers

\* Nobody sleeps for an EC that has nothing to wait for any more.
LEMMA KeepWaiters ==
    ASSUME IInv, NEW c \in CPUs, Alone(c),
           \A s \in Scs : place'[s] \in ECs =>
               \/ place'[s] = place[s] \/ Queued(place[s])'
               \/ place'[s] \in Globals /\ cont'[place'[s]] = "null",
           \A x \in ECs : Queued(x) => Queued(x)' \/ (pc'[c] = "release" /\ arg'[c] = x),
           \A x \in Globals : cont[x] = "null" => cont'[x] = "null",
           pc[c] = "release" => \A s \in Scs : place'[s] # arg[c]
    PROVE  Waiters'
  <1> SUFFICES ASSUME NEW s \in Scs, place'[s] \in ECs, place'[s] = place[s]
               PROVE  \/ Queued(place[s])'
                      \/ place'[s] \in Globals /\ cont'[place'[s]] = "null"
                      \/ \E d \in CPUs : pc'[d] = "release" /\ arg'[d] = place'[s]
    BY DEF Waiters
  <1>1. CASE Queued(place[s])
    BY <1>1
  <1>2. CASE place[s] \in Globals /\ cont[place[s]] = "null"
    BY <1>2
  <1>3. CASE \E d \in CPUs : pc[d] = "release" /\ arg[d] = place[s]
    BY <1>3 DEF Alone
  <1> QED
    BY <1>1, <1>2, <1>3 DEF IInv, Waiters

\* An SC in use keeps the call of its owner.
LEMMA KeepOwned ==
    ASSUME IInv,
           \A x \in Globals : partner'[x] # NONE =>
               partner[x] # NONE \/ \E s \in Scs : Owner[s] = x /\ place'[s] \notin {"off", "gone"},
           \A s \in Scs : place[s] \notin {"off", "gone"} /\ partner'[Owner[s]] # NONE =>
               place'[s] \notin {"off", "gone"}
    PROVE  NoOrphanedCall'
  BY DEF IInv, NoOrphanedCall

LEMMA FreeAgain ==
    ASSUME IInv, NEW c \in CPUs, NEW k \in {"null", "dead"}, InCharge(c), AnswerKeeps(c, k),
           rcap' = rcap \/ rcap' = [rcap EXCEPT ![cur[c]] = NONE]
    PROVE  \A x \in Locals : rcap'[x] = NONE => cont'[x] \in {"null", "dead"}
  <1> SUFFICES ASSUME NEW x \in Locals, rcap'[x] = NONE PROVE cont'[x] \in {"null", "dead"}
    OBVIOUS
  <1>1. x \in ECs /\ (x # cur[c] => rcap[x] = NONE)
    BY Names DEF IInv, Types
  <1>2. CASE x = cur[c]
    BY <1>2 DEF AnswerKeeps
  <1>3. CASE x # cur[c] /\ x = rcap[cur[c]]
    BY <1>1, <1>3, Names DEF AnswerKeeps
  <1>4. CASE x # cur[c] /\ x # rcap[cur[c]]
    BY <1>1, <1>4 DEF AnswerKeeps, IInv, Calls
  <1> QED
    BY <1>2, <1>3, <1>4

\* Sc::schedule takes a ready SC.
LEMMA PickStep ==
    ASSUME IInv, NEW c \in CPUs,
           NEW s \in Scs, pc[c] = "schedule", place[s] = "ready", Home[Owner[s]] = c,
           place' = [place EXCEPT ![s] = "current"], sc' = [sc EXCEPT ![c] = s],
           Goto(c, "activate", Owner[s]), UNCHANGED <<ipc, sms, cur, ctr_link>>
    PROVE  IInv'
  <1> USE Names DEF Goto, schedule, return_to_user, ipc, sms, scs, InCharge
  <1>1. /\ pc'[c] = "activate" /\ arg'[c] = Owner[s] /\ sc'[c] = s /\ place'[s] = "current" /\ Owner[s] \in Globals
        /\ \A t \in Scs : t # s => place'[t] = place[t]
    BY DEF IInv, Types
  <1>2. \A x : Queued(x)' <=> Queued(x)
    BY SameQueues
  <1>3. Alone(c)
    BY <1>1, <1>2 DEF IInv, Types, Alone
  <1>4. Types'
    BY <1>1, <1>2, <1>3 DEF IInv, Types, Conts, Exits, Places
  <1>5. AtHome'
    <2>1. (\A x \in ECs : partner[x] # NONE => Home[partner[x]] = Home[x])'
      BY <1>1, <1>2, <1>3 DEF IInv, Types, AtHome, Alone
    <2>2. (\A x \in ECs : dst[x] # NONE => Home[dst[x]] = Home[x])'
      BY <1>1, <1>2, <1>3 DEF IInv, Types, AtHome, Alone
    <2>3. (\A d \in CPUs : pc[d] \notin {"schedule", "idle"} => sc[d] \in Scs /\ place[sc[d]] = "current" /\ Home[Owner[sc[d]]] = d)'
      BY <1>1, <1>2, <1>3 DEF IInv, Types, AtHome, Alone
    <2>4. (\A d \in CPUs : pc[d] \in {"activate", "block"} => arg[d] \in ECs /\ Home[arg[d]] = d)'
      BY <1>1, <1>2, <1>3 DEF IInv, Types, AtHome, Alone
    <2>5. (\A d \in CPUs : pc[d] = "release" => arg[d] \in ECs)'
      BY <1>1, <1>2, <1>3 DEF IInv, Types, AtHome, Alone
    <2>6. (\A d \in CPUs : pc[d] \in {"run", "exit", "user", "release"} => cur[d] \in ECs /\ Home[cur[d]] = d)'
      BY <1>1, <1>2, <1>3 DEF IInv, Types, AtHome, Alone
    <2> QED
      BY <2>1, <2>2, <2>3, <2>4, <2>5, <2>6 DEF AtHome
  <1>6. Calls'
    BY <1>1, <1>2, <1>3 DEF IInv, Types, Calls
  <1>7. Running'
    <2>1. (\A d \in CPUs : pc[d] \in {"run", "exit", "user", "release"} => partner[cur[d]] = NONE /\ ~ Queued(cur[d]) /\ cont[cur[d]] # "null")'
      BY <1>1, <1>2, <1>3 DEF IInv, Types, AtHome, Calls, Running, Alone
    <2>2. (\A d \in CPUs : pc[d] \in {"exit", "user", "release"} /\ cur[d] \in Locals => rcap[cur[d]] # NONE)'
      BY <1>1, <1>2, <1>3 DEF IInv, Types, AtHome, Calls, Running, Alone
    <2>3. (\A d \in CPUs : pc[d] = "block" => partner[arg[d]] = NONE)'
      BY <1>1, <1>2, <1>3 DEF IInv, Types, AtHome, Calls, Running, Alone
    <2>4. (\A d \in CPUs : pc[d] \in {"activate", "block"} /\ arg[d] \in Locals => cont[arg[d]] # "null")'
      BY <1>1, <1>2, <1>3 DEF IInv, Types, AtHome, Calls, Running, Alone
    <2>5. (\A d \in CPUs : pc[d] = "activate" /\ arg[d] \in Globals => arg[d] = Owner[sc[d]])'
      BY <1>1, <1>2, <1>3 DEF IInv, Types, AtHome, Calls, Running, Alone
    <2>6. (\A x \in ECs : cont[x] \in {"sys_call", "send_msg"} /\ dst[x] = NONE => pc[Home[x]] \in {"exit", "user", "release"} /\ cur[Home[x]] = x)'
      BY <1>1, <1>2, <1>3 DEF IInv, Types, AtHome, Calls, Running, Alone
    <2> QED
      BY <2>1, <2>2, <2>3, <2>4, <2>5, <2>6 DEF Running
  <1>8. Acyclic'
    BY <1>1, <1>2, <1>3 DEF IInv, Acyclic, Ranked
  <1>9. Linked'
    BY <1>1, <1>2, <1>3, KeepLinked DEF Engaged
  <1>10. Waiters'
    BY <1>1, <1>2, <1>3, KeepWaiters DEF IInv, Types
  <1>11. TokensUsed'
    BY <1>1, <1>2, <1>3 DEF IInv, TokensUsed
  <1>12. NoOrphanedCall'
    BY <1>1, <1>2, <1>3, KeepOwned DEF IInv, Types
  <1> HIDE DEF Goto, schedule, return_to_user, ipc, sms, scs, InCharge
  <1> QED
    BY <1>4, <1>5, <1>6, <1>7, <1>8, <1>9, <1>10, <1>11, <1>12 DEF IInv

\* It takes the idle one.
LEMMA IdleStep ==
    ASSUME IInv, NEW c \in CPUs,
           pc[c] = "schedule", sc' = [sc EXCEPT ![c] = NONE], cur' = [cur EXCEPT ![c] = NONE],
           Goto(c, "idle", NONE), UNCHANGED <<ipc, sms, place, ctr_link>>
    PROVE  IInv'
  <1> USE Names DEF Goto, schedule, return_to_user, ipc, sms, scs, InCharge
  <1>1. pc'[c] = "idle"
    BY DEF IInv, Types
  <1>2. \A x : Queued(x)' <=> Queued(x)
    BY SameQueues
  <1>3. Alone(c)
    BY <1>1, <1>2 DEF IInv, Types, Alone
  <1>4. Types'
    BY <1>1, <1>2, <1>3 DEF IInv, Types, Conts, Exits, Places
  <1>5. AtHome'
    BY <1>1, <1>2, <1>3 DEF IInv, Types, AtHome, Alone
  <1>6. Calls'
    BY <1>1, <1>2, <1>3 DEF IInv, Types, Calls
  <1>7. Running'
    BY <1>1, <1>2, <1>3 DEF IInv, Types, AtHome, Calls, Running, Alone
  <1>8. Acyclic'
    BY <1>1, <1>2, <1>3 DEF IInv, Acyclic, Ranked
  <1>9. Linked'
    BY <1>1, <1>2, <1>3, KeepLinked DEF Engaged
  <1>10. Waiters'
    BY <1>1, <1>2, <1>3, KeepWaiters DEF IInv, Types
  <1>11. TokensUsed'
    BY <1>1, <1>2, <1>3 DEF IInv, TokensUsed
  <1>12. NoOrphanedCall'
    BY <1>1, <1>2, <1>3, KeepOwned DEF IInv, Types
  <1> HIDE DEF Goto, schedule, return_to_user, ipc, sms, scs, InCharge
  <1> QED
    BY <1>4, <1>5, <1>6, <1>7, <1>8, <1>9, <1>10, <1>11, <1>12 DEF IInv

\* Ec::idle ends.
LEMMA WakeStep ==
    ASSUME IInv, NEW c \in CPUs,
           pc[c] = "idle", Goto(c, "schedule", NONE), UNCHANGED <<ipc, sms, place, cur, sc, ctr_link>>
    PROVE  IInv'
  <1> USE Names DEF Goto, schedule, return_to_user, ipc, sms, scs, InCharge
  <1>1. pc'[c] = "schedule"
    BY DEF IInv, Types
  <1>2. \A x : Queued(x)' <=> Queued(x)
    BY SameQueues
  <1>3. Alone(c)
    BY <1>1, <1>2 DEF IInv, Types, Alone
  <1>4. Types'
    BY <1>1, <1>2, <1>3 DEF IInv, Types, Conts, Exits, Places
  <1>5. AtHome'
    BY <1>1, <1>2, <1>3 DEF IInv, Types, AtHome, Alone
  <1>6. Calls'
    BY <1>1, <1>2, <1>3 DEF IInv, Types, Calls
  <1>7. Running'
    BY <1>1, <1>2, <1>3 DEF IInv, Types, AtHome, Calls, Running, Alone
  <1>8. Acyclic'
    BY <1>1, <1>2, <1>3 DEF IInv, Acyclic, Ranked
  <1>9. Linked'
    BY <1>1, <1>2, <1>3, KeepLinked DEF Engaged
  <1>10. Waiters'
    BY <1>1, <1>2, <1>3, KeepWaiters DEF IInv, Types
  <1>11. TokensUsed'
    BY <1>1, <1>2, <1>3 DEF IInv, TokensUsed
  <1>12. NoOrphanedCall'
    BY <1>1, <1>2, <1>3, KeepOwned DEF IInv, Types
  <1> HIDE DEF Goto, schedule, return_to_user, ipc, sms, scs, InCharge
  <1> QED
    BY <1>4, <1>5, <1>6, <1>7, <1>8, <1>9, <1>10, <1>11, <1>12 DEF IInv

\* The chain along which Ec::activate has gone.
LEMMA ActivatedChain ==
    ASSUME IInv, NEW c \in CPUs, NEW e, NEW n, Activates(c, e, n)
    PROVE  \E g \in [0..ctr_link'[c] -> Residents(c)] : Chain(c, g)'
  <1>1. pc[c] = "activate" /\ n \in Nat /\ ctr_link' = [ctr_link EXCEPT ![c] = n]
    BY DEF Activates
  <1>2. PICK f \in [0..n -> Residents(c)] : f[0] = arg[c] /\ f[n] = e /\ \A i \in 1..n : partner[f[i - 1]] = f[i]
    BY DEF Activates
  <1>3. ctr_link'[c] = n /\ partner' = partner /\ sc' = sc
    BY <1>1 DEF IInv, Types, Activates, return_to_user, ipc
  <1>4. Top(c)' = e
    BY DEF IInv, Types, Activates, return_to_user, Goto, Top
  <1>5. arg[c] \in Locals \cup {Owner[sc[c]]}
    BY <1>1, Names DEF IInv, AtHome, Running
  <1>6. Chain(c, f)'
    BY <1>2, <1>3, <1>4, <1>5 DEF Chain
  <1> QED
    BY <1>2, <1>3, <1>6

\* Ec::activate has found the end of the chain, and it is blocked.
LEMMA ActivateBlockStep ==
    ASSUME IInv, NEW c \in CPUs,
           NEW e, NEW n, Activates(c, e, n), blocked(e)
    PROVE  IInv'
  <1> USE Names DEF Goto, schedule, return_to_user, ipc, sms, scs, InCharge
  <1>1. /\ pc[c] = "activate" /\ e \in ECs /\ Home[e] = c /\ partner[e] = NONE /\ (e \in Locals => cont[e] # "null")
        /\ n \in Nat /\ ctr_link' = [ctr_link EXCEPT ![c] = n] /\ UNCHANGED <<ipc, sms, place>>
    BY DEF Activates
  <1>2. pc'[c] = "block" /\ arg'[c] = e /\ Goto(c, "block", e) /\ UNCHANGED <<cur, sc>>
    BY DEF Activates, IInv, Types
  <1>3. \A x : Queued(x)' <=> Queued(x)
    BY <1>1, SameQueues
  <1>4. Alone(c)
    BY <1>1, <1>2, <1>3 DEF IInv, Types, Alone
  <1>5. Types'
    BY <1>1, <1>2, <1>3, <1>4 DEF IInv, Types, Conts, Exits, Places
  <1>6. AtHome'
    BY <1>1, <1>2, <1>3, <1>4 DEF IInv, Types, AtHome, Alone
  <1>7. Calls'
    BY <1>1, <1>2, <1>3, <1>4 DEF IInv, Types, Calls
  <1>8. Running'
    BY <1>1, <1>2, <1>3, <1>4 DEF IInv, Types, AtHome, Calls, Running, Alone
  <1>9. Acyclic'
    BY <1>1, <1>2, <1>3, <1>4 DEF IInv, Acyclic, Ranked
  <1>10. Linked'
    BY <1>1, <1>2, <1>3, <1>4, KeepLinked, ActivatedChain
  <1>11. Waiters'
    BY <1>1, <1>2, <1>3, <1>4, KeepWaiters DEF IInv, Types
  <1>12. TokensUsed'
    BY <1>1, <1>2, <1>3, <1>4 DEF IInv, TokensUsed
  <1>13. NoOrphanedCall'
    BY <1>1, <1>2, <1>3, <1>4, KeepOwned DEF IInv, Types
  <1> HIDE DEF Goto, schedule, return_to_user, ipc, sms, scs, InCharge
  <1> QED
    BY <1>5, <1>6, <1>7, <1>8, <1>9, <1>10, <1>11, <1>12, <1>13 DEF IInv

\* It is not, and runs.
LEMMA ActivateRunStep ==
    ASSUME IInv, NEW c \in CPUs,
           NEW e, NEW n, Activates(c, e, n), ~ blocked(e)
    PROVE  IInv'
  <1> USE Names DEF Goto, schedule, return_to_user, ipc, sms, scs, InCharge
  <1>1. /\ pc[c] = "activate" /\ e \in ECs /\ Home[e] = c /\ partner[e] = NONE /\ (e \in Locals => cont[e] # "null")
        /\ n \in Nat /\ ctr_link' = [ctr_link EXCEPT ![c] = n] /\ UNCHANGED <<ipc, sms, place>>
    BY DEF Activates
  <1>2. /\ pc'[c] = "run" /\ cur'[c] = e /\ ~ Queued(e) /\ cont[e] # "null"
        /\ return_to_user(c, e)
    BY DEF Activates, IInv, Types, blocked
  <1>3. \A x : Queued(x)' <=> Queued(x)
    BY <1>1, SameQueues
  <1>4. Alone(c)
    BY <1>1, <1>2, <1>3 DEF IInv, Types, Alone
  <1>5. Types'
    BY <1>1, <1>2, <1>3, <1>4 DEF IInv, Types, Conts, Exits, Places
  <1>6. AtHome'
    BY <1>1, <1>2, <1>3, <1>4 DEF IInv, Types, AtHome, Alone
  <1>7. Calls'
    BY <1>1, <1>2, <1>3, <1>4 DEF IInv, Types, Calls
  <1>8. Running'
    BY <1>1, <1>2, <1>3, <1>4 DEF IInv, Types, AtHome, Calls, Running, Alone
  <1>9. Acyclic'
    BY <1>1, <1>2, <1>3, <1>4 DEF IInv, Acyclic, Ranked
  <1>10. Linked'
    BY <1>1, <1>2, <1>3, <1>4, KeepLinked, ActivatedChain
  <1>11. Waiters'
    BY <1>1, <1>2, <1>3, <1>4, KeepWaiters DEF IInv, Types
  <1>12. TokensUsed'
    BY <1>1, <1>2, <1>3, <1>4 DEF IInv, TokensUsed
  <1>13. NoOrphanedCall'
    BY <1>1, <1>2, <1>3, <1>4, KeepOwned DEF IInv, Types
  <1> HIDE DEF Goto, schedule, return_to_user, ipc, sms, scs, InCharge
  <1> QED
    BY <1>5, <1>6, <1>7, <1>8, <1>9, <1>10, <1>11, <1>12, <1>13 DEF IInv

\* Ec::block_sc puts the SC to sleep.
LEMMA SleepStep ==
    ASSUME IInv, NEW c \in CPUs,
           pc[c] = "block", blocked(arg[c]), schedule(c, arg[c]), UNCHANGED <<ipc, sms, ctr_link>>
    PROVE  IInv'
  <1> USE Names DEF Goto, schedule, return_to_user, ipc, sms, scs, InCharge
  <1>1. arg[c] \in ECs /\ sc[c] \in Scs /\ place[sc[c]] = "current" /\ Home[Owner[sc[c]]] = c
    BY DEF IInv, AtHome
  <1>2. \A x : Queued(x)' <=> Queued(x)
    BY SameQueues
  <1>3. Queued(arg[c]) \/ (arg[c] \in Globals /\ cont[arg[c]] = "null")
    BY <1>1 DEF blocked, IInv, Running
  <1>4. pc'[c] = "schedule" /\ place'[sc[c]] = arg[c] /\ \A t \in Scs : t # sc[c] => place'[t] = place[t]
    BY <1>1 DEF IInv, Types
  <1>5. Alone(c)
    BY <1>1, <1>2, <1>3, <1>4 DEF IInv, Types, Alone
  <1>6. Types'
    BY <1>1, <1>2, <1>3, <1>4, <1>5 DEF IInv, Types, Conts, Exits, Places
  <1>7. AtHome'
    BY <1>1, <1>2, <1>3, <1>4, <1>5 DEF IInv, Types, AtHome, Alone
  <1>8. Calls'
    BY <1>1, <1>2, <1>3, <1>4, <1>5 DEF IInv, Types, Calls
  <1>9. Running'
    BY <1>1, <1>2, <1>3, <1>4, <1>5 DEF IInv, Types, AtHome, Calls, Running, Alone
  <1>10. Acyclic'
    BY <1>1, <1>2, <1>3, <1>4, <1>5 DEF IInv, Acyclic, Ranked
  <1>11. Linked'
    BY <1>1, <1>2, <1>3, <1>4, <1>5, KeepLinked DEF Engaged
  <1>12. Waiters'
    BY <1>1, <1>2, <1>3, <1>4, <1>5, KeepWaiters DEF IInv, Types
  <1>13. TokensUsed'
    BY <1>1, <1>2, <1>3, <1>4, <1>5 DEF IInv, TokensUsed
  <1>14. NoOrphanedCall'
    BY <1>1, <1>2, <1>3, <1>4, <1>5, KeepOwned DEF IInv, Types
  <1> HIDE DEF Goto, schedule, return_to_user, ipc, sms, scs, InCharge
  <1> QED
    BY <1>6, <1>7, <1>8, <1>9, <1>10, <1>11, <1>12, <1>13, <1>14 DEF IInv

\* It returns, as the EC has been released meanwhile.
LEMMA AwakeStep ==
    ASSUME IInv, NEW c \in CPUs,
           pc[c] = "block", ~ blocked(arg[c]), return_to_user(c, arg[c]), UNCHANGED <<ipc, sms, place, ctr_link>>
    PROVE  IInv'
  <1> USE Names DEF Goto, schedule, return_to_user, ipc, sms, scs, InCharge
  <1>1. /\ pc'[c] = "run" /\ cur'[c] = arg[c] /\ arg[c] \in ECs /\ Home[arg[c]] = c
        /\ partner[arg[c]] = NONE
    BY DEF IInv, Types, AtHome, Running
  <1>2. \A x : Queued(x)' <=> Queued(x)
    BY SameQueues
  <1>3. ~ Queued(arg[c]) /\ cont[arg[c]] # "null"
    BY DEF blocked
  <1>4. Alone(c)
    BY <1>1, <1>2, <1>3 DEF IInv, Types, Alone
  <1>5. Types'
    BY <1>1, <1>2, <1>3, <1>4 DEF IInv, Types, Conts, Exits, Places
  <1>6. AtHome'
    BY <1>1, <1>2, <1>3, <1>4 DEF IInv, Types, AtHome, Alone
  <1>7. Calls'
    BY <1>1, <1>2, <1>3, <1>4 DEF IInv, Types, Calls
  <1>8. Running'
    BY <1>1, <1>2, <1>3, <1>4 DEF IInv, Types, AtHome, Calls, Running, Alone
  <1>9. Acyclic'
    BY <1>1, <1>2, <1>3, <1>4 DEF IInv, Acyclic, Ranked
  <1>10. Linked'
    BY <1>1, <1>2, <1>3, <1>4, KeepLinked, SameChain DEF Engaged, Top
  <1>11. Waiters'
    BY <1>1, <1>2, <1>3, <1>4, KeepWaiters DEF IInv, Types
  <1>12. TokensUsed'
    BY <1>1, <1>2, <1>3, <1>4 DEF IInv, TokensUsed
  <1>13. NoOrphanedCall'
    BY <1>1, <1>2, <1>3, <1>4, KeepOwned DEF IInv, Types
  <1> HIDE DEF Goto, schedule, return_to_user, ipc, sms, scs, InCharge
  <1> QED
    BY <1>5, <1>6, <1>7, <1>8, <1>9, <1>10, <1>11, <1>12, <1>13 DEF IInv

\* Ec::release wakes the SCs that wait for an EC.
LEMMA ReleaseStep ==
    ASSUME IInv, NEW c \in CPUs,
           release(c)
    PROVE  IInv'
  <1> USE Names DEF Goto, schedule, return_to_user, ipc, sms, scs, InCharge
  <1>1. /\ pc[c] = "release" /\ pc' = [pc EXCEPT ![c] = "exit"] /\ pc'[c] = "exit"
        /\ arg' = [arg EXCEPT ![c] = NONE] /\ UNCHANGED <<ipc, smq, counter, cur, sc, ctr_link>>
        /\ place' = [s \in Scs |-> IF s \in Waiting(arg[c]) THEN Woken(s) ELSE place[s]] /\ arg[c] \in ECs
    BY DEF release, ctrs, IInv, Types, AtHome
  <1>2. \A x : Queued(x)' <=> Queued(x)
    BY <1>1, SameQueues
  <1>3. /\ \A s \in Scs : place[s] # arg[c] => place'[s] = place[s]
        /\ \A s \in Scs : place[s] = arg[c] =>
              \/ place'[s] = "ready"
              \/ place'[s] = "gone" /\ partner[Owner[s]] = NONE
    BY <1>1 DEF Waiting, Woken
  <1>4. Alone(c)
    BY <1>1, <1>2, <1>3 DEF IInv, Types, Alone
  <1>5. Types'
    BY <1>1, <1>2, <1>3, <1>4 DEF IInv, Types, Places
  <1>6. AtHome'
    BY <1>1, <1>2, <1>3, <1>4 DEF IInv, Types, AtHome, Alone
  <1>7. Calls'
    BY <1>1, <1>2, <1>3, <1>4 DEF IInv, Types, Calls
  <1>8. Running'
    BY <1>1, <1>2, <1>3, <1>4 DEF IInv, Types, AtHome, Calls, Running, Alone
  <1>9. Acyclic'
    BY <1>1, <1>2, <1>3, <1>4 DEF IInv, Acyclic, Ranked
  <1>10. Linked'
    BY <1>1, <1>2, <1>3, <1>4, KeepLinked, SameChain DEF Engaged, Top
  <1>11. Waiters'
    <2>1. \A s \in Scs : place'[s] \in ECs =>
               \/ place'[s] = place[s] \/ Queued(place[s])'
               \/ place'[s] \in Globals /\ cont'[place'[s]] = "null"
      BY <1>1, <1>2, <1>3, <1>4
    <2>2. \A x \in ECs : Queued(x) => Queued(x)' \/ (pc'[c] = "release" /\ arg'[c] = x)
      BY <1>1, <1>2, <1>3, <1>4
    <2>3. \A x \in Globals : cont[x] = "null" => cont'[x] = "null"
      BY <1>1, <1>2, <1>3, <1>4
    <2>4. pc[c] = "release" => \A s \in Scs : place'[s] # arg[c]
      BY <1>1, <1>2, <1>3, <1>4
    <2> QED
      BY <1>1, <1>2, <1>3, <1>4, <2>1, <2>2, <2>3, <2>4, KeepWaiters
  <1>12. TokensUsed'
    BY <1>1, <1>2, <1>3, <1>4 DEF IInv, TokensUsed
  <1>13. NoOrphanedCall'
    BY <1>1, <1>2, <1>3, <1>4, KeepOwned DEF IInv, Types
  <1> HIDE DEF Goto, schedule, return_to_user, ipc, sms, scs, InCharge
  <1> QED
    BY <1>5, <1>6, <1>7, <1>8, <1>9, <1>10, <1>11, <1>12, <1>13 DEF IInv

\* A continuation or system call ends in user space.
LEMMA EnterUserStep ==
    ASSUME IInv, NEW c \in CPUs,
           pc[c] = "exit" \/ (pc[c] = "run" /\ cont[cur[c]] \in Exits), Goto(c, "user", NONE),
           UNCHANGED <<ipc, sms, place, cur, sc, ctr_link>>
    PROVE  IInv'
  <1> USE Names DEF Goto, schedule, return_to_user, ipc, sms, scs, InCharge
  <1>1. pc'[c] = "user"
    BY DEF IInv, Types
  <1>2. \A x : Queued(x)' <=> Queued(x)
    BY SameQueues
  <1>3. cur[c] \in ECs /\ Home[cur[c]] = c /\ (cur[c] \in Locals => rcap[cur[c]] # NONE)
    BY DEF IInv, AtHome, Running, Calls, Exits
  <1>4. Alone(c)
    BY <1>1, <1>2, <1>3 DEF IInv, Types, Alone
  <1>5. Types'
    BY <1>1, <1>2, <1>3, <1>4 DEF IInv, Types, Conts, Exits, Places
  <1>6. AtHome'
    BY <1>1, <1>2, <1>3, <1>4 DEF IInv, Types, AtHome, Alone
  <1>7. Calls'
    BY <1>1, <1>2, <1>3, <1>4 DEF IInv, Types, Calls
  <1>8. Running'
    BY <1>1, <1>2, <1>3, <1>4 DEF IInv, Types, AtHome, Calls, Running, Alone
  <1>9. Acyclic'
    BY <1>1, <1>2, <1>3, <1>4 DEF IInv, Acyclic, Ranked
  <1>10. Linked'
    BY <1>1, <1>2, <1>3, <1>4, KeepLinked, SameChain DEF Engaged, Top
  <1>11. Waiters'
    BY <1>1, <1>2, <1>3, <1>4, KeepWaiters DEF IInv, Types
  <1>12. TokensUsed'
    BY <1>1, <1>2, <1>3, <1>4 DEF IInv, TokensUsed
  <1>13. NoOrphanedCall'
    BY <1>1, <1>2, <1>3, <1>4, KeepOwned DEF IInv, Types
  <1> HIDE DEF Goto, schedule, return_to_user, ipc, sms, scs, InCharge
  <1> QED
    BY <1>5, <1>6, <1>7, <1>8, <1>9, <1>10, <1>11, <1>12, <1>13 DEF IInv

\* An EC that leaves the kernel is preempted, or yields.
LEMMA PreemptStep ==
    ASSUME IInv, NEW c \in CPUs,
           NEW k \in Exits, pc[c] \in {"exit", "run", "user"}, cont' = [cont EXCEPT ![cur[c]] = k],
           pc[c] = "run" => cont[cur[c]] \in Exits, schedule(c, "ready"), UNCHANGED <<partner, rcap, dst, sms, ctr_link>>
    PROVE  IInv'
  <1> USE Names DEF Goto, schedule, return_to_user, ipc, sms, scs, InCharge
  <1>1. InCharge(c)
    BY Current
  <1>2. cur[c] \in Locals => rcap[cur[c]] # NONE
    BY <1>1 DEF IInv, AtHome, Running, Calls, Exits
  <1>3. pc'[c] = "schedule" /\ place'[sc[c]] = "ready" /\ \A t \in Scs : t # sc[c] => place'[t] = place[t]
    BY <1>1 DEF IInv, Types
  <1>4. \A x : Queued(x)' <=> Queued(x)
    BY SameQueues
  <1>5. /\ cont'[cur[c]] = k /\ k \notin {"null", "dead", "sys_call", "send_msg"}
        /\ \A x \in ECs : x # cur[c] => cont'[x] = cont[x]
    BY <1>1 DEF IInv, Types, Exits
  <1>6. Alone(c)
    BY <1>1, <1>2, <1>3, <1>4, <1>5 DEF IInv, Types, Alone
  <1>7. Types'
    BY <1>1, <1>2, <1>3, <1>4, <1>5, <1>6 DEF IInv, Types, Conts, Exits, Places
  <1>8. AtHome'
    BY <1>1, <1>2, <1>3, <1>4, <1>5, <1>6 DEF IInv, Types, AtHome, Alone
  <1>9. Calls'
    BY <1>1, <1>2, <1>3, <1>4, <1>5, <1>6 DEF IInv, Types, Calls
  <1>10. Running'
    BY <1>1, <1>2, <1>3, <1>4, <1>5, <1>6 DEF IInv, Types, AtHome, Calls, Running, Alone
  <1>11. Acyclic'
    BY <1>1, <1>2, <1>3, <1>4, <1>5, <1>6 DEF IInv, Acyclic, Ranked
  <1>12. Linked'
    BY <1>1, <1>2, <1>3, <1>4, <1>5, <1>6, KeepLinked DEF Engaged
  <1>13. Waiters'
    BY <1>1, <1>2, <1>3, <1>4, <1>5, <1>6, KeepWaiters DEF IInv, Types
  <1>14. TokensUsed'
    BY <1>1, <1>2, <1>3, <1>4, <1>5, <1>6 DEF IInv, TokensUsed
  <1>15. NoOrphanedCall'
    BY <1>1, <1>2, <1>3, <1>4, <1>5, <1>6, KeepOwned DEF IInv, Types
  <1> HIDE DEF Goto, schedule, return_to_user, ipc, sms, scs, InCharge
  <1> QED
    BY <1>7, <1>8, <1>9, <1>10, <1>11, <1>12, <1>13, <1>14, <1>15 DEF IInv

\* Sm::up leaves a token.
LEMMA UpTokenStep ==
    ASSUME IInv, NEW c \in CPUs,
           NEW m \in Sms, pc[c] = "user", smq[m] = <<>>, counter' = [counter EXCEPT ![m] = @ + 1],
           Goto(c, "exit", NONE), UNCHANGED <<ipc, smq, place, cur, sc, ctr_link>>
    PROVE  IInv'
  <1> USE Names DEF Goto, schedule, return_to_user, ipc, sms, scs, InCharge
  <1>1. pc'[c] = "exit"
    BY DEF IInv, Types
  <1>2. \A x : Queued(x)' <=> Queued(x)
    BY SameQueues
  <1>3. Alone(c)
    BY <1>1, <1>2 DEF IInv, Types, Alone
  <1>4. Types'
    BY <1>1, <1>2, <1>3 DEF IInv, Types, Conts, Exits, Places
  <1>5. AtHome'
    BY <1>1, <1>2, <1>3 DEF IInv, Types, AtHome, Alone
  <1>6. Calls'
    BY <1>1, <1>2, <1>3 DEF IInv, Types, Calls
  <1>7. Running'
    BY <1>1, <1>2, <1>3 DEF IInv, Types, AtHome, Calls, Running, Alone
  <1>8. Acyclic'
    BY <1>1, <1>2, <1>3 DEF IInv, Acyclic, Ranked
  <1>9. Linked'
    BY <1>1, <1>2, <1>3, KeepLinked, SameChain DEF Engaged, Top
  <1>10. Waiters'
    BY <1>1, <1>2, <1>3, KeepWaiters DEF IInv, Types
  <1>11. TokensUsed'
    BY <1>1, <1>2, <1>3 DEF IInv, Types, TokensUsed
  <1>12. NoOrphanedCall'
    BY <1>1, <1>2, <1>3, KeepOwned DEF IInv, Types
  <1> HIDE DEF Goto, schedule, return_to_user, ipc, sms, scs, InCharge
  <1> QED
    BY <1>4, <1>5, <1>6, <1>7, <1>8, <1>9, <1>10, <1>11, <1>12 DEF IInv

\* Sm::up takes the first EC out of the queue.
LEMMA UpWakeStep ==
    ASSUME IInv, NEW c \in CPUs,
           NEW m \in Sms, pc[c] = "user", smq[m] # <<>>, smq' = [smq EXCEPT ![m] = Tail(@)],
           Goto(c, "release", Head(smq[m])), UNCHANGED <<ipc, counter, place, cur, sc, ctr_link>>
    PROVE  IInv'
  <1> USE Names DEF Goto, schedule, return_to_user, ipc, sms, scs, InCharge
  <1>1. pc'[c] = "release" /\ arg'[c] = Head(smq[m])
    BY DEF IInv, Types
  <1>2. /\ smq' \in [Sms -> Seq(ECs)] /\ Head(smq[m]) \in ECs
        /\ \A x : Queued(x)' <=> Queued(x) /\ x # Head(smq[m])
        /\ TokensUsed'
    BY Dequeue DEF IInv
  <1>3. Alone(c)
    BY <1>1, <1>2 DEF IInv, Types, Alone
  <1>4. Types'
    BY <1>1, <1>2, <1>3 DEF IInv, Types, Conts, Exits, Places
  <1>5. AtHome'
    BY <1>1, <1>2, <1>3 DEF IInv, Types, AtHome, Alone
  <1>6. Calls'
    BY <1>1, <1>2, <1>3 DEF IInv, Types, Calls
  <1>7. Running'
    BY <1>1, <1>2, <1>3 DEF IInv, Types, AtHome, Calls, Running, Alone
  <1>8. Acyclic'
    BY <1>1, <1>2, <1>3 DEF IInv, Acyclic, Ranked
  <1>9. Linked'
    BY <1>1, <1>2, <1>3, KeepLinked, SameChain DEF Engaged, Top
  <1>10. Waiters'
    BY <1>1, <1>2, <1>3, KeepWaiters DEF IInv, Types
  <1>11. TokensUsed'
    BY <1>1, <1>2, <1>3
  <1>12. NoOrphanedCall'
    BY <1>1, <1>2, <1>3, KeepOwned DEF IInv, Types
  <1> HIDE DEF Goto, schedule, return_to_user, ipc, sms, scs, InCharge
  <1> QED
    BY <1>4, <1>5, <1>6, <1>7, <1>8, <1>9, <1>10, <1>11, <1>12 DEF IInv

\* Sm::dn takes a token.
LEMMA DownTokenStep ==
    ASSUME IInv, NEW c \in CPUs,
           NEW m \in Sms, NEW n \in Nat, pc[c] = "user", counter[m] > 0, cont' = [cont EXCEPT ![cur[c]] = "sys_finish"],
           counter' = [counter EXCEPT ![m] = n], Goto(c, "exit", NONE),
           UNCHANGED <<partner, rcap, dst, smq, place, cur, sc, ctr_link>>
    PROVE  IInv'
  <1> USE Names DEF Goto, schedule, return_to_user, ipc, sms, scs, InCharge
  <1>1. InCharge(c)
    BY Current
  <1>2. pc'[c] = "exit" /\ cont'[cur[c]] = "sys_finish" /\ \A x \in ECs : x # cur[c] => cont'[x] = cont[x]
    BY <1>1 DEF IInv, Types
  <1>3. \A x : Queued(x)' <=> Queued(x)
    BY SameQueues
  <1>4. cur[c] \in Locals => rcap[cur[c]] # NONE
    BY DEF IInv, Running
  <1>5. Alone(c)
    BY <1>1, <1>2, <1>3, <1>4 DEF IInv, Types, Alone
  <1>6. Types'
    BY <1>1, <1>2, <1>3, <1>4, <1>5 DEF IInv, Types, Conts, Exits, Places
  <1>7. AtHome'
    BY <1>1, <1>2, <1>3, <1>4, <1>5 DEF IInv, Types, AtHome, Alone
  <1>8. Calls'
    BY <1>1, <1>2, <1>3, <1>4, <1>5 DEF IInv, Types, Calls
  <1>9. Running'
    BY <1>1, <1>2, <1>3, <1>4, <1>5 DEF IInv, Types, AtHome, Calls, Running, Alone
  <1>10. Acyclic'
    BY <1>1, <1>2, <1>3, <1>4, <1>5 DEF IInv, Acyclic, Ranked
  <1>11. Linked'
    BY <1>1, <1>2, <1>3, <1>4, <1>5, KeepLinked, SameChain DEF Engaged, Top
  <1>12. Waiters'
    BY <1>1, <1>2, <1>3, <1>4, <1>5, KeepWaiters DEF IInv, Types
  <1>13. TokensUsed'
    BY <1>1, <1>2, <1>3, <1>4, <1>5 DEF IInv, Types, TokensUsed
  <1>14. NoOrphanedCall'
    BY <1>1, <1>2, <1>3, <1>4, <1>5, KeepOwned DEF IInv, Types
  <1> HIDE DEF Goto, schedule, return_to_user, ipc, sms, scs, InCharge
  <1> QED
    BY <1>6, <1>7, <1>8, <1>9, <1>10, <1>11, <1>12, <1>13, <1>14 DEF IInv

\* Sm::dn queues the EC.
LEMMA DownQueueStep ==
    ASSUME IInv, NEW c \in CPUs,
           NEW m \in Sms, pc[c] = "user", counter[m] = 0, cont' = [cont EXCEPT ![cur[c]] = "sys_finish"],
           EnqueueOn(m, cur[c]), Goto(c, "block", cur[c]),
           UNCHANGED <<partner, rcap, dst, counter, place, cur, sc, ctr_link>>
    PROVE  IInv'
  <1> USE Names DEF Goto, schedule, return_to_user, ipc, sms, scs, InCharge
  <1>1. InCharge(c)
    BY Current
  <1>2. /\ pc'[c] = "block" /\ arg'[c] = cur[c]
        /\ cont'[cur[c]] = "sys_finish" /\ \A x \in ECs : x # cur[c] => cont'[x] = cont[x]
    BY <1>1 DEF IInv, Types
  <1>3. smq' \in [Sms -> Seq(ECs)] /\ (\A x : Queued(x)' <=> Queued(x) \/ x = cur[c]) /\ TokensUsed'
    BY <1>1, Enqueue DEF IInv
  <1>4. cur[c] \in Locals => rcap[cur[c]] # NONE
    BY DEF IInv, Running
  <1>5. Alone(c)
    BY <1>1, <1>2, <1>3, <1>4 DEF IInv, Types, Alone
  <1>6. Types'
    BY <1>1, <1>2, <1>3, <1>4, <1>5 DEF IInv, Types, Conts, Exits, Places
  <1>7. AtHome'
    BY <1>1, <1>2, <1>3, <1>4, <1>5 DEF IInv, Types, AtHome, Alone
  <1>8. Calls'
    BY <1>1, <1>2, <1>3, <1>4, <1>5 DEF IInv, Types, Calls
  <1>9. Running'
    BY <1>1, <1>2, <1>3, <1>4, <1>5 DEF IInv, Types, AtHome, Calls, Running, Alone
  <1>10. Acyclic'
    BY <1>1, <1>2, <1>3, <1>4, <1>5 DEF IInv, Acyclic, Ranked
  <1>11. Linked'
    BY <1>1, <1>2, <1>3, <1>4, <1>5, KeepLinked, SameChain DEF Engaged, Top
  <1>12. Waiters'
    BY <1>1, <1>2, <1>3, <1>4, <1>5, KeepWaiters DEF IInv, Types
  <1>13. TokensUsed'
    BY <1>1, <1>2, <1>3, <1>4, <1>5
  <1>14. NoOrphanedCall'
    BY <1>1, <1>2, <1>3, <1>4, <1>5, KeepOwned DEF IInv, Types
  <1> HIDE DEF Goto, schedule, return_to_user, ipc, sms, scs, InCharge
  <1> QED
    BY <1>6, <1>7, <1>8, <1>9, <1>10, <1>11, <1>12, <1>13, <1>14 DEF IInv

\* A call returns an error at once.
LEMMA RefuseStep ==
    ASSUME IInv, NEW c \in CPUs,
           Refuses(c)
    PROVE  IInv'
  <1> USE Names DEF Goto, schedule, return_to_user, ipc, sms, scs, InCharge
  <1>1. /\ pc[c] \in {"user", "run"} /\ (pc[c] = "run" => cont[cur[c]] = "sys_call")
        /\ dst' = [dst EXCEPT ![cur[c]] = NONE] /\ Goto(c, "exit", NONE)
        /\ UNCHANGED <<cont, partner, rcap, sms, place, cur, sc, ctr_link>>
    BY DEF Refuses, Acts
  <1>2. InCharge(c)
    BY <1>1, Current
  <1>3. pc'[c] = "exit" /\ dst'[cur[c]] = NONE /\ \A x \in ECs : x # cur[c] => dst'[x] = dst[x]
    BY <1>1, <1>2 DEF IInv, Types
  <1>4. \A x : Queued(x)' <=> Queued(x)
    BY <1>1, SameQueues
  <1>5. cur[c] \in Locals => rcap[cur[c]] # NONE
    BY <1>1, <1>2 DEF IInv, Running, Calls
  <1>6. Alone(c)
    BY <1>1, <1>2, <1>3, <1>4, <1>5 DEF IInv, Types, Alone
  <1>7. Types'
    BY <1>1, <1>2, <1>3, <1>4, <1>5, <1>6 DEF IInv, Types, Conts, Exits, Places
  <1>8. AtHome'
    BY <1>1, <1>2, <1>3, <1>4, <1>5, <1>6 DEF IInv, Types, AtHome, Alone
  <1>9. Calls'
    BY <1>1, <1>2, <1>3, <1>4, <1>5, <1>6 DEF IInv, Types, Calls
  <1>10. Running'
    BY <1>1, <1>2, <1>3, <1>4, <1>5, <1>6 DEF IInv, Types, AtHome, Calls, Running, Alone
  <1>11. Acyclic'
    BY <1>1, <1>2, <1>3, <1>4, <1>5, <1>6 DEF IInv, Acyclic, Ranked
  <1>12. Linked'
    BY <1>1, <1>2, <1>3, <1>4, <1>5, <1>6, KeepLinked, SameChain DEF Engaged, Top
  <1>13. Waiters'
    BY <1>1, <1>2, <1>3, <1>4, <1>5, <1>6, KeepWaiters DEF IInv, Types
  <1>14. TokensUsed'
    BY <1>1, <1>2, <1>3, <1>4, <1>5, <1>6 DEF IInv, TokensUsed
  <1>15. NoOrphanedCall'
    BY <1>1, <1>2, <1>3, <1>4, <1>5, <1>6, KeepOwned DEF IInv, Types
  <1> HIDE DEF Goto, schedule, return_to_user, ipc, sms, scs, InCharge
  <1> QED
    BY <1>7, <1>8, <1>9, <1>10, <1>11, <1>12, <1>13, <1>14, <1>15 DEF IInv

\* Ec::help runs the callee.
LEMMA HelpStep ==
    ASSUME IInv, NEW c \in CPUs,
           NEW e, NEW k, Helps(c, e, k)
    PROVE  IInv'
  <1> USE Names DEF Goto, schedule, return_to_user, ipc, sms, scs, InCharge
  <1>1. /\ pc[c] \in {"user", "run"} /\ e \in Locals /\ Home[e] = c /\ cont[e] # "null" /\ k \in {"sys_call", "send_msg"}
        /\ cont' = [cont EXCEPT ![cur[c]] = k] /\ dst' = [dst EXCEPT ![cur[c]] = e] /\ Goto(c, "activate", e)
        /\ (pc[c] = "run" => cont[cur[c]] = k) /\ UNCHANGED <<partner, rcap, sms, place, cur, sc, ctr_link>>
    BY DEF Helps, Acts
  <1>2. InCharge(c)
    BY <1>1, Current
  <1>3. /\ pc'[c] = "activate" /\ arg'[c] = e /\ dst'[cur[c]] = e /\ \A x \in ECs : x # cur[c] => dst'[x] = dst[x]
        /\ cont'[cur[c]] = k /\ \A x \in ECs : x # cur[c] => cont'[x] = cont[x]
    BY <1>1, <1>2 DEF IInv, Types
  <1>4. \A x : Queued(x)' <=> Queued(x)
    BY <1>1, SameQueues
  <1>5. cur[c] \in Locals => rcap[cur[c]] # NONE
    BY <1>1, <1>2 DEF IInv, Running, Calls
  <1>6. Alone(c)
    BY <1>1, <1>2, <1>3, <1>4, <1>5 DEF IInv, Types, Alone
  <1>7. Types'
    BY <1>1, <1>2, <1>3, <1>4, <1>5, <1>6 DEF IInv, Types, Conts, Exits, Places
  <1>8. AtHome'
    BY <1>1, <1>2, <1>3, <1>4, <1>5, <1>6 DEF IInv, Types, AtHome, Alone
  <1>9. Calls'
    BY <1>1, <1>2, <1>3, <1>4, <1>5, <1>6 DEF IInv, Types, Calls
  <1>10. Running'
    BY <1>1, <1>2, <1>3, <1>4, <1>5, <1>6 DEF IInv, Types, AtHome, Calls, Running, Alone
  <1>11. Acyclic'
    BY <1>1, <1>2, <1>3, <1>4, <1>5, <1>6 DEF IInv, Acyclic, Ranked
  <1>12. Linked'
    BY <1>1, <1>2, <1>3, <1>4, <1>5, <1>6, KeepLinked DEF Engaged
  <1>13. Waiters'
    <2>1. \A s \in Scs : place'[s] \in ECs =>
               \/ place'[s] = place[s] \/ Queued(place[s])'
               \/ place'[s] \in Globals /\ cont'[place'[s]] = "null"
      BY <1>1, <1>2, <1>3, <1>4, <1>5, <1>6
    <2>2. \A x \in ECs : Queued(x) => Queued(x)' \/ (pc'[c] = "release" /\ arg'[c] = x)
      BY <1>1, <1>2, <1>3, <1>4, <1>5, <1>6
    <2>3. \A x \in Globals : cont[x] = "null" => cont'[x] = "null"
      BY <1>1, <1>2, <1>3, <1>4, <1>5, <1>6
    <2>4. pc[c] = "release" => \A s \in Scs : place'[s] # arg[c]
      BY <1>1, <1>2, <1>3, <1>4, <1>5, <1>6
    <2> QED
      BY <1>1, <1>2, <1>3, <1>4, <1>5, <1>6, <2>1, <2>2, <2>3, <2>4, KeepWaiters
  <1>14. TokensUsed'
    BY <1>1, <1>2, <1>3, <1>4, <1>5, <1>6 DEF IInv, TokensUsed
  <1>15. NoOrphanedCall'
    BY <1>1, <1>2, <1>3, <1>4, <1>5, <1>6, KeepOwned DEF IInv, Types
  <1> HIDE DEF Goto, schedule, return_to_user, ipc, sms, scs, InCharge
  <1> QED
    BY <1>7, <1>8, <1>9, <1>10, <1>11, <1>12, <1>13, <1>14, <1>15 DEF IInv

\* A call makes its callee the end of the chain.
LEMMA DeliverStep ==
    ASSUME IInv, NEW c \in CPUs,
           NEW e, NEW k, Delivers(c, e, k)
    PROVE  IInv'
  <1> USE Names DEF Goto, schedule, return_to_user, ipc, sms, scs, InCharge
  <1>1. /\ pc[c] \in {"user", "run"} /\ e \in Locals /\ e \in ECs /\ Home[e] = c /\ cont[e] = "null" /\ k \in Exits
        /\ (pc[c] = "run" => cont[cur[c]] \in {"sys_call", "send_msg"})
        /\ cont' = [cont EXCEPT ![cur[c]] = k, ![e] = "sys_finish"] /\ partner' = [partner EXCEPT ![cur[c]] = e]
        /\ rcap' = [rcap EXCEPT ![e] = cur[c]] /\ dst' = [dst EXCEPT ![cur[c]] = NONE]
        /\ ctr_link' = [ctr_link EXCEPT ![c] = @ + 1] /\ return_to_user(c, e) /\ UNCHANGED <<sms, place>>
    BY DEF Delivers, Acts, deliver, ECs
  <1>2. InCharge(c)
    BY <1>1, Current
  <1>3. /\ e # cur[c] /\ partner[e] = NONE /\ ~ Queued(e)
        /\ \A x \in ECs : partner[x] # e
    BY <1>1, <1>2 DEF IInv, Calls
  <1>4. rcap[e] = NONE
    BY <1>1, <1>3 DEF IInv, Types, Calls
  <1>5. /\ pc'[c] = "run" /\ cur'[c] = e /\ ctr_link'[c] = ctr_link[c] + 1 /\ sc' = sc
        /\ partner'[cur[c]] = e /\ \A x \in ECs : x # cur[c] => partner'[x] = partner[x] /\ dst'[x] = dst[x]
        /\ rcap'[e] = cur[c] /\ \A x \in ECs : x # e => rcap'[x] = rcap[x]
        /\ cont'[cur[c]] = k /\ cont'[e] = "sys_finish" /\ \A x \in ECs : x # e /\ x # cur[c] => cont'[x] = cont[x]
    BY <1>1, <1>2, <1>3, <1>4 DEF IInv, Types
  <1>6. \A x : Queued(x)' <=> Queued(x)
    BY <1>1, SameQueues
  <1>7. cur[c] \in Locals => rcap[cur[c]] # NONE
    BY <1>1, <1>2 DEF IInv, Running, Calls
  <1>8. k \notin {"null", "dead", "sys_call", "send_msg"}
    BY <1>1 DEF Exits
  <1>9. Alone(c)
    BY <1>1, <1>2, <1>3, <1>4, <1>5, <1>6, <1>7, <1>8 DEF IInv, Types, Alone
  <1>10. Types'
    <2>1. (cont \in [ECs -> Conts])'
      BY <1>1, <1>2, <1>3, <1>4, <1>5, <1>6, <1>7, <1>8, <1>9 DEF IInv, Types, Conts, Exits, Places
    <2>2. (partner \in [ECs -> Locals \cup {NONE}])'
      BY <1>1, <1>2, <1>3, <1>4, <1>5, <1>6, <1>7, <1>8, <1>9 DEF IInv, Types, Conts, Exits, Places
    <2>3. (rcap \in [ECs -> ECs \cup {NONE}])'
      BY <1>1, <1>2, <1>3, <1>4, <1>5, <1>6, <1>7, <1>8, <1>9 DEF IInv, Types, Conts, Exits, Places
    <2>4. (dst \in [ECs -> Locals \cup {NONE}])'
      BY <1>1, <1>2, <1>3, <1>4, <1>5, <1>6, <1>7, <1>8, <1>9 DEF IInv, Types, Conts, Exits, Places
    <2>5. (smq \in [Sms -> Seq(ECs)])'
      BY <1>1, <1>2, <1>3, <1>4, <1>5, <1>6, <1>7, <1>8, <1>9 DEF IInv, Types, Conts, Exits, Places
    <2>6. (counter \in [Sms -> Nat])'
      BY <1>1, <1>2, <1>3, <1>4, <1>5, <1>6, <1>7, <1>8, <1>9 DEF IInv, Types, Conts, Exits, Places
    <2>7. (place \in [Scs -> Places])'
      BY <1>1, <1>2, <1>3, <1>4, <1>5, <1>6, <1>7, <1>8, <1>9 DEF IInv, Types, Conts, Exits, Places
    <2>8. (cur \in [CPUs -> ECs \cup {NONE}])'
      BY <1>1, <1>2, <1>3, <1>4, <1>5, <1>6, <1>7, <1>8, <1>9 DEF IInv, Types, Conts, Exits, Places
    <2>9. (sc \in [CPUs -> Scs \cup {NONE}])'
      BY <1>1, <1>2, <1>3, <1>4, <1>5, <1>6, <1>7, <1>8, <1>9 DEF IInv, Types, Conts, Exits, Places
    <2>10. (pc \in [CPUs -> {"schedule", "idle", "activate", "block", "run", "release", "exit", "user"}])'
      BY <1>1, <1>2, <1>3, <1>4, <1>5, <1>6, <1>7, <1>8, <1>9 DEF IInv, Types, Conts, Exits, Places
    <2>11. (arg \in [CPUs -> ECs \cup {NONE}])'
      BY <1>1, <1>2, <1>3, <1>4, <1>5, <1>6, <1>7, <1>8, <1>9 DEF IInv, Types, Conts, Exits, Places
    <2>12. (ctr_link \in [CPUs -> Nat])'
      BY <1>1, <1>2, <1>3, <1>4, <1>5, <1>6, <1>7, <1>8, <1>9 DEF IInv, Types, Conts, Exits, Places
    <2> QED
      BY <2>1, <2>2, <2>3, <2>4, <2>5, <2>6, <2>7, <2>8, <2>9, <2>10, <2>11, <2>12 DEF Types
  <1>11. AtHome'
    <2>1. (\A x \in ECs : partner[x] # NONE => Home[partner[x]] = Home[x])'
      BY <1>1, <1>2, <1>3, <1>4, <1>5, <1>6, <1>7, <1>8, <1>9 DEF IInv, Types, AtHome, Alone
    <2>2. (\A x \in ECs : dst[x] # NONE => Home[dst[x]] = Home[x])'
      BY <1>1, <1>2, <1>3, <1>4, <1>5, <1>6, <1>7, <1>8, <1>9 DEF IInv, Types, AtHome, Alone
    <2>3. (\A d \in CPUs : pc[d] \notin {"schedule", "idle"} => sc[d] \in Scs /\ place[sc[d]] = "current" /\ Home[Owner[sc[d]]] = d)'
      BY <1>1, <1>2, <1>3, <1>4, <1>5, <1>6, <1>7, <1>8, <1>9 DEF IInv, Types, AtHome, Alone
    <2>4. (\A d \in CPUs : pc[d] \in {"activate", "block"} => arg[d] \in ECs /\ Home[arg[d]] = d)'
      BY <1>1, <1>2, <1>3, <1>4, <1>5, <1>6, <1>7, <1>8, <1>9 DEF IInv, Types, AtHome, Alone
    <2>5. (\A d \in CPUs : pc[d] = "release" => arg[d] \in ECs)'
      BY <1>1, <1>2, <1>3, <1>4, <1>5, <1>6, <1>7, <1>8, <1>9 DEF IInv, Types, AtHome, Alone
    <2>6. (\A d \in CPUs : pc[d] \in {"run", "exit", "user", "release"} => cur[d] \in ECs /\ Home[cur[d]] = d)'
      BY <1>1, <1>2, <1>3, <1>4, <1>5, <1>6, <1>7, <1>8, <1>9 DEF IInv, Types, AtHome, Alone
    <2> QED
      BY <2>1, <2>2, <2>3, <2>4, <2>5, <2>6 DEF AtHome
  <1>12. Calls'
    <2>1. (\A x \in ECs : partner[x] # NONE => rcap[partner[x]] = x /\ cont[partner[x]] # "null")'
      BY <1>1, <1>2, <1>3, <1>4, <1>5, <1>6, <1>7, <1>8, <1>9 DEF IInv, Types, Calls
    <2>2. (\A x \in ECs : rcap[x] # NONE => partner[rcap[x]] = x)'
      BY <1>1, <1>2, <1>3, <1>4, <1>5, <1>6, <1>7, <1>8, <1>9 DEF IInv, Types, Calls
    <2>3. (\A x \in ECs : cont[x] = "null" => partner[x] = NONE)'
      BY <1>1, <1>2, <1>3, <1>4, <1>5, <1>6, <1>7, <1>8, <1>9 DEF IInv, Types, Calls
    <2>4. (\A x \in Locals : rcap[x] = NONE => cont[x] \in {"null", "dead"})'
      BY <1>1, <1>2, <1>3, <1>4, <1>5, <1>6, <1>7, <1>8, <1>9, ZenonT(60) DEF IInv, Types, Calls
    <2>5. (\A x \in ECs : Queued(x) => cont[x] # "null" /\ partner[x] = NONE)'
      BY <1>1, <1>2, <1>3, <1>4, <1>5, <1>6, <1>7, <1>8, <1>9 DEF IInv, Types, Calls
    <2> QED
      BY <2>1, <2>2, <2>3, <2>4, <2>5 DEF Calls
  <1>13. Running'
    <2>1. (\A d \in CPUs : pc[d] \in {"run", "exit", "user", "release"} => partner[cur[d]] = NONE /\ ~ Queued(cur[d]) /\ cont[cur[d]] # "null")'
      BY <1>1, <1>2, <1>3, <1>4, <1>5, <1>6, <1>7, <1>8, <1>9 DEF IInv, Types, AtHome, Calls, Running, Alone
    <2>2. (\A d \in CPUs : pc[d] \in {"exit", "user", "release"} /\ cur[d] \in Locals => rcap[cur[d]] # NONE)'
      BY <1>1, <1>2, <1>3, <1>4, <1>5, <1>6, <1>7, <1>8, <1>9 DEF IInv, Types, AtHome, Calls, Running, Alone
    <2>3. (\A d \in CPUs : pc[d] = "block" => partner[arg[d]] = NONE)'
      BY <1>1, <1>2, <1>3, <1>4, <1>5, <1>6, <1>7, <1>8, <1>9 DEF IInv, Types, AtHome, Calls, Running, Alone
    <2>4. (\A d \in CPUs : pc[d] \in {"activate", "block"} /\ arg[d] \in Locals => cont[arg[d]] # "null")'
      BY <1>1, <1>2, <1>3, <1>4, <1>5, <1>6, <1>7, <1>8, <1>9 DEF IInv, Types, AtHome, Calls, Running, Alone
    <2>5. (\A d \in CPUs : pc[d] = "activate" /\ arg[d] \in Globals => arg[d] = Owner[sc[d]])'
      BY <1>1, <1>2, <1>3, <1>4, <1>5, <1>6, <1>7, <1>8, <1>9 DEF IInv, Types, AtHome, Calls, Running, Alone
    <2>6. (\A x \in ECs : cont[x] \in {"sys_call", "send_msg"} /\ dst[x] = NONE => pc[Home[x]] \in {"exit", "user", "release"} /\ cur[Home[x]] = x)'
      BY <1>1, <1>2, <1>3, <1>4, <1>5, <1>6, <1>7, <1>8, <1>9 DEF IInv, Types, AtHome, Calls, Running, Alone
    <2> QED
      BY <2>1, <2>2, <2>3, <2>4, <2>5, <2>6 DEF Running
  <1>14. Acyclic'
    <2>1. PICK rank : Ranked(rank)
      BY DEF IInv, Acyclic
    <2> DEFINE up == [x \in ECs |-> IF x = e THEN 0 ELSE rank[x] + 1]
    <2>2. up \in [ECs -> Nat]
      BY <2>1 DEF Ranked
    <2>3. ASSUME NEW x \in ECs, partner'[x] # NONE PROVE up[partner'[x]] < up[x]
      <3>1. CASE x = cur[c]
        BY <1>1, <1>2, <1>3, <1>4, <1>5, <1>6, <1>7, <1>8, <1>9, <2>1, <3>1 DEF Ranked
      <3>2. CASE x # cur[c]
        <4>1. x # e /\ partner'[x] = partner[x] /\ partner[x] # e /\ partner[x] \in ECs
          BY <1>1, <1>2, <1>3, <1>4, <1>5, <1>6, <1>7, <1>8, <1>9, <2>3, <3>2 DEF IInv, Types
        <4> QED
          BY <2>1, <2>3, <4>1 DEF Ranked
      <3> QED
        BY <3>1, <3>2
    <2> HIDE DEF up
    <2>4. Ranked(up)'
      BY <2>2, <2>3 DEF Ranked
    <2> QED
      BY <2>4 DEF Acyclic
  <1>15. Linked'
    BY <1>1, <1>2, <1>3, <1>4, <1>5, <1>6, <1>7, <1>8, <1>9, KeepLinked, LongerChain DEF Top, Acts, IInv, Types
  <1>16. Waiters'
    <2>1. \A s \in Scs : place'[s] \in ECs =>
               \/ place'[s] = place[s] \/ Queued(place[s])'
               \/ place'[s] \in Globals /\ cont'[place'[s]] = "null"
      BY <1>1, <1>2, <1>3, <1>4, <1>5, <1>6, <1>7, <1>8, <1>9
    <2>2. \A x \in ECs : Queued(x) => Queued(x)' \/ (pc'[c] = "release" /\ arg'[c] = x)
      BY <1>1, <1>2, <1>3, <1>4, <1>5, <1>6, <1>7, <1>8, <1>9
    <2>3. \A x \in Globals : cont[x] = "null" => cont'[x] = "null"
      BY <1>1, <1>2, <1>3, <1>4, <1>5, <1>6, <1>7, <1>8, <1>9
    <2>4. pc[c] = "release" => \A s \in Scs : place'[s] # arg[c]
      BY <1>1, <1>2, <1>3, <1>4, <1>5, <1>6, <1>7, <1>8, <1>9
    <2> QED
      BY <1>1, <1>2, <1>3, <1>4, <1>5, <1>6, <1>7, <1>8, <1>9, <2>1, <2>2, <2>3, <2>4, KeepWaiters
  <1>17. TokensUsed'
    BY <1>1, <1>2, <1>3, <1>4, <1>5, <1>6, <1>7, <1>8, <1>9 DEF IInv, TokensUsed
  <1>18. NoOrphanedCall'
    <2>1. cur[c] \in Globals => cur[c] = Owner[sc[c]]
      BY <1>1, <1>2, <1>3, <1>4, <1>5, <1>6, <1>7, <1>8, <1>9, OwnSc DEF Engaged, Top
    <2> QED
      BY <1>1, <1>2, <1>3, <1>4, <1>5, <1>6, <1>7, <1>8, <1>9, <2>1, KeepOwned
  <1> HIDE DEF Goto, schedule, return_to_user, ipc, sms, scs, InCharge
  <1> QED
    BY <1>10, <1>11, <1>12, <1>13, <1>14, <1>15, <1>16, <1>17, <1>18 DEF IInv

\* A global EC has nobody to reply to, and its SC stops.
LEMMA SuspendStep ==
    ASSUME IInv, NEW c \in CPUs,
           NEW cs, NEW k, NEW m, Replies(c, cs, k, m), cur[c] \in Globals
    PROVE  IInv'
  <1> USE Names DEF Goto, schedule, return_to_user, ipc, sms, scs, InCharge, AnswerKeeps
  <1>1. /\ Acts(c) /\ pc[c] \in {"user", "run"} /\ Answers(c, cs) /\ k \in {"null", "dead"} /\ m \in Sms \cup {NONE}
        /\ cont' = [cs EXCEPT ![cur[c]] = k] /\ schedule(c, Suspended(sc[c])) /\ UNCHANGED <<partner, rcap, sms, ctr_link>>
    BY DEF Replies, reply, linked, Acts
  <1>2. InCharge(c)
    BY <1>1, Current
  <1>3. AnswerKeeps(c, k)
    BY <1>1, Answered
  <1>4. /\ pc'[c] = "schedule" /\ \A t \in Scs : t # sc[c] => place'[t] = place[t]
        /\ place'[sc[c]] = Suspended(sc[c])
    BY <1>1, <1>2 DEF IInv, Types
  <1>5. \A x : Queued(x)' <=> Queued(x)
    BY <1>1, SameQueues
  <1>6. /\ cur[c] \in Globals => rcap[cur[c]] = NONE
        /\ \A x \in ECs : partner[x] = cur[c] => x = rcap[cur[c]]
    BY <1>2 DEF IInv, Calls
  <1>7. Suspended(sc[c]) \in {"gone", "off"}
    BY DEF Suspended
  <1>8. Owner[sc[c]] = cur[c]
    BY <1>1, OwnSc DEF Engaged, Top
  <1>9. Alone(c)
    BY <1>1, <1>2, <1>3, <1>4, <1>5, <1>6, <1>7, <1>8 DEF IInv, Types, Alone
  <1>10. Types'
    BY <1>1, <1>2, <1>3, <1>4, <1>5, <1>6, <1>7, <1>8, <1>9 DEF IInv, Types, Conts, Exits, Places
  <1>11. AtHome'
    BY <1>1, <1>2, <1>3, <1>4, <1>5, <1>6, <1>7, <1>8, <1>9 DEF IInv, Types, AtHome, Alone
  <1>12. Calls'
    <2>1. (\A x \in ECs : partner[x] # NONE => rcap[partner[x]] = x /\ cont[partner[x]] # "null")'
      BY <1>1, <1>2, <1>3, <1>4, <1>5, <1>6, <1>7, <1>8, <1>9 DEF IInv, Types, Calls
    <2>2. (\A x \in ECs : rcap[x] # NONE => partner[rcap[x]] = x)'
      BY <1>1, <1>2, <1>3, <1>4, <1>5, <1>6, <1>7, <1>8, <1>9 DEF IInv, Types, Calls
    <2>3. (\A x \in ECs : cont[x] = "null" => partner[x] = NONE)'
      BY <1>1, <1>2, <1>3, <1>4, <1>5, <1>6, <1>7, <1>8, <1>9 DEF IInv, Types, Calls
    <2>4. (\A x \in Locals : rcap[x] = NONE => cont[x] \in {"null", "dead"})'
      BY <1>1, <1>2, <1>3, FreeAgain
    <2>5. (\A x \in ECs : Queued(x) => cont[x] # "null" /\ partner[x] = NONE)'
      BY <1>1, <1>2, <1>3, <1>4, <1>5, <1>6, <1>7, <1>8, <1>9 DEF IInv, Types, Calls
    <2> QED
      BY <2>1, <2>2, <2>3, <2>4, <2>5 DEF Calls
  <1>13. Running'
    <2>1. (\A d \in CPUs : pc[d] \in {"run", "exit", "user", "release"} => partner[cur[d]] = NONE /\ ~ Queued(cur[d]) /\ cont[cur[d]] # "null")'
      BY <1>1, <1>2, <1>3, <1>4, <1>5, <1>6, <1>7, <1>8, <1>9 DEF IInv, Types, AtHome, Calls, Running, Alone
    <2>2. (\A d \in CPUs : pc[d] \in {"exit", "user", "release"} /\ cur[d] \in Locals => rcap[cur[d]] # NONE)'
      BY <1>1, <1>2, <1>3, <1>4, <1>5, <1>6, <1>7, <1>8, <1>9 DEF IInv, Types, AtHome, Calls, Running, Alone
    <2>3. (\A d \in CPUs : pc[d] = "block" => partner[arg[d]] = NONE)'
      BY <1>1, <1>2, <1>3, <1>4, <1>5, <1>6, <1>7, <1>8, <1>9 DEF IInv, Types, AtHome, Calls, Running, Alone
    <2>4. (\A d \in CPUs : pc[d] \in {"activate", "block"} /\ arg[d] \in Locals => cont[arg[d]] # "null")'
      BY <1>1, <1>2, <1>3, <1>4, <1>5, <1>6, <1>7, <1>8, <1>9 DEF IInv, Types, AtHome, Calls, Running, Alone
    <2>5. (\A d \in CPUs : pc[d] = "activate" /\ arg[d] \in Globals => arg[d] = Owner[sc[d]])'
      BY <1>1, <1>2, <1>3, <1>4, <1>5, <1>6, <1>7, <1>8, <1>9 DEF IInv, Types, AtHome, Calls, Running, Alone
    <2>6. (\A x \in ECs : cont[x] \in {"sys_call", "send_msg"} /\ dst[x] = NONE => pc[Home[x]] \in {"exit", "user", "release"} /\ cur[Home[x]] = x)'
      BY <1>1, <1>2, <1>3, <1>4, <1>5, <1>6, <1>7, <1>8, <1>9 DEF IInv, Types, AtHome, Calls, Running, Alone
    <2> QED
      BY <2>1, <2>2, <2>3, <2>4, <2>5, <2>6 DEF Running
  <1>14. Acyclic'
    BY <1>1, <1>2, <1>3, <1>4, <1>5, <1>6, <1>7, <1>8, <1>9 DEF IInv, Types, Acyclic, Ranked
  <1>15. Linked'
    BY <1>1, <1>2, <1>3, <1>4, <1>5, <1>6, <1>7, <1>8, <1>9, KeepLinked DEF Engaged
  <1>16. Waiters'
    <2>1. \A s \in Scs : place'[s] \in ECs =>
               \/ place'[s] = place[s] \/ Queued(place[s])'
               \/ place'[s] \in Globals /\ cont'[place'[s]] = "null"
      BY <1>1, <1>2, <1>3, <1>4, <1>5, <1>6, <1>7, <1>8, <1>9
    <2>2. \A x \in ECs : Queued(x) => Queued(x)' \/ (pc'[c] = "release" /\ arg'[c] = x)
      BY <1>1, <1>2, <1>3, <1>4, <1>5, <1>6, <1>7, <1>8, <1>9
    <2>3. \A x \in Globals : cont[x] = "null" => cont'[x] = "null"
      BY <1>1, <1>2, <1>3, <1>4, <1>5, <1>6, <1>7, <1>8, <1>9
    <2>4. pc[c] = "release" => \A s \in Scs : place'[s] # arg[c]
      BY <1>1, <1>2, <1>3, <1>4, <1>5, <1>6, <1>7, <1>8, <1>9
    <2> QED
      BY <1>1, <1>2, <1>3, <1>4, <1>5, <1>6, <1>7, <1>8, <1>9, <2>1, <2>2, <2>3, <2>4, KeepWaiters
  <1>17. TokensUsed'
    BY <1>1, <1>2, <1>3, <1>4, <1>5, <1>6, <1>7, <1>8, <1>9, ZenonT(60) DEF IInv, TokensUsed
  <1>18. NoOrphanedCall'
    BY <1>1, <1>2, <1>3, <1>4, <1>5, <1>6, <1>7, <1>8, <1>9, KeepOwned DEF IInv, Types
  <1> HIDE DEF Goto, schedule, return_to_user, ipc, sms, scs, InCharge, AnswerKeeps
  <1> QED
    BY <1>10, <1>11, <1>12, <1>13, <1>14, <1>15, <1>16, <1>17, <1>18 DEF IInv

\* A local EC without a caller makes way for the owner of the SC.
LEMMA NoCallerStep ==
    ASSUME IInv, NEW c \in CPUs,
           NEW cs, NEW k, NEW m, Replies(c, cs, k, m), cur[c] \in Locals, rcap[cur[c]] = NONE
    PROVE  IInv'
  <1> USE Names DEF Goto, schedule, return_to_user, ipc, sms, scs, InCharge, AnswerKeeps
  <1>1. /\ Acts(c) /\ pc[c] \in {"user", "run"} /\ Answers(c, cs) /\ k \in {"null", "dead"} /\ m \in Sms \cup {NONE}
        /\ cont' = [cs EXCEPT ![cur[c]] = k] /\ Goto(c, "activate", Owner[sc[c]]) /\ UNCHANGED <<partner, rcap, sms, cur, sc, place, ctr_link>>
    BY DEF Replies, reply, linked, Acts
  <1>2. InCharge(c)
    BY <1>1, Current
  <1>3. AnswerKeeps(c, k)
    BY <1>1, Answered
  <1>4. pc'[c] = "activate" /\ arg'[c] = Owner[sc[c]] /\ rcap' = rcap
    BY <1>1, <1>2 DEF IInv, Types
  <1>5. \A x : Queued(x)' <=> Queued(x)
    BY <1>1, SameQueues
  <1>6. /\ cur[c] \in Globals => rcap[cur[c]] = NONE
        /\ \A x \in ECs : partner[x] = cur[c] => x = rcap[cur[c]]
    BY <1>2 DEF IInv, Calls
  <1>7. Alone(c)
    BY <1>1, <1>2, <1>3, <1>4, <1>5, <1>6 DEF IInv, Types, Alone
  <1>8. Types'
    BY <1>1, <1>2, <1>3, <1>4, <1>5, <1>6, <1>7 DEF IInv, Types, Conts, Exits, Places
  <1>9. AtHome'
    BY <1>1, <1>2, <1>3, <1>4, <1>5, <1>6, <1>7 DEF IInv, Types, AtHome, Alone
  <1>10. Calls'
    <2>1. (\A x \in ECs : partner[x] # NONE => rcap[partner[x]] = x /\ cont[partner[x]] # "null")'
      BY <1>1, <1>2, <1>3, <1>4, <1>5, <1>6, <1>7 DEF IInv, Types, Calls
    <2>2. (\A x \in ECs : rcap[x] # NONE => partner[rcap[x]] = x)'
      BY <1>1, <1>2, <1>3, <1>4, <1>5, <1>6, <1>7 DEF IInv, Types, Calls
    <2>3. (\A x \in ECs : cont[x] = "null" => partner[x] = NONE)'
      BY <1>1, <1>2, <1>3, <1>4, <1>5, <1>6, <1>7 DEF IInv, Types, Calls
    <2>4. (\A x \in Locals : rcap[x] = NONE => cont[x] \in {"null", "dead"})'
      BY <1>1, <1>2, <1>3, FreeAgain
    <2>5. (\A x \in ECs : Queued(x) => cont[x] # "null" /\ partner[x] = NONE)'
      BY <1>1, <1>2, <1>3, <1>4, <1>5, <1>6, <1>7 DEF IInv, Types, Calls
    <2> QED
      BY <2>1, <2>2, <2>3, <2>4, <2>5 DEF Calls
  <1>11. Running'
    <2>1. (\A d \in CPUs : pc[d] \in {"run", "exit", "user", "release"} => partner[cur[d]] = NONE /\ ~ Queued(cur[d]) /\ cont[cur[d]] # "null")'
      BY <1>1, <1>2, <1>3, <1>4, <1>5, <1>6, <1>7 DEF IInv, Types, AtHome, Calls, Running, Alone
    <2>2. (\A d \in CPUs : pc[d] \in {"exit", "user", "release"} /\ cur[d] \in Locals => rcap[cur[d]] # NONE)'
      BY <1>1, <1>2, <1>3, <1>4, <1>5, <1>6, <1>7 DEF IInv, Types, AtHome, Calls, Running, Alone
    <2>3. (\A d \in CPUs : pc[d] = "block" => partner[arg[d]] = NONE)'
      BY <1>1, <1>2, <1>3, <1>4, <1>5, <1>6, <1>7 DEF IInv, Types, AtHome, Calls, Running, Alone
    <2>4. (\A d \in CPUs : pc[d] \in {"activate", "block"} /\ arg[d] \in Locals => cont[arg[d]] # "null")'
      BY <1>1, <1>2, <1>3, <1>4, <1>5, <1>6, <1>7 DEF IInv, Types, AtHome, Calls, Running, Alone
    <2>5. (\A d \in CPUs : pc[d] = "activate" /\ arg[d] \in Globals => arg[d] = Owner[sc[d]])'
      BY <1>1, <1>2, <1>3, <1>4, <1>5, <1>6, <1>7 DEF IInv, Types, AtHome, Calls, Running, Alone
    <2>6. (\A x \in ECs : cont[x] \in {"sys_call", "send_msg"} /\ dst[x] = NONE => pc[Home[x]] \in {"exit", "user", "release"} /\ cur[Home[x]] = x)'
      BY <1>1, <1>2, <1>3, <1>4, <1>5, <1>6, <1>7 DEF IInv, Types, AtHome, Calls, Running, Alone
    <2> QED
      BY <2>1, <2>2, <2>3, <2>4, <2>5, <2>6 DEF Running
  <1>12. Acyclic'
    BY <1>1, <1>2, <1>3, <1>4, <1>5, <1>6, <1>7 DEF IInv, Types, Acyclic, Ranked
  <1>13. Linked'
    BY <1>1, <1>2, <1>3, <1>4, <1>5, <1>6, <1>7, KeepLinked DEF Engaged
  <1>14. Waiters'
    <2>1. \A s \in Scs : place'[s] \in ECs =>
               \/ place'[s] = place[s] \/ Queued(place[s])'
               \/ place'[s] \in Globals /\ cont'[place'[s]] = "null"
      BY <1>1, <1>2, <1>3, <1>4, <1>5, <1>6, <1>7
    <2>2. \A x \in ECs : Queued(x) => Queued(x)' \/ (pc'[c] = "release" /\ arg'[c] = x)
      BY <1>1, <1>2, <1>3, <1>4, <1>5, <1>6, <1>7
    <2>3. \A x \in Globals : cont[x] = "null" => cont'[x] = "null"
      BY <1>1, <1>2, <1>3, <1>4, <1>5, <1>6, <1>7
    <2>4. pc[c] = "release" => \A s \in Scs : place'[s] # arg[c]
      BY <1>1, <1>2, <1>3, <1>4, <1>5, <1>6, <1>7
    <2> QED
      BY <1>1, <1>2, <1>3, <1>4, <1>5, <1>6, <1>7, <2>1, <2>2, <2>3, <2>4, KeepWaiters
  <1>15. TokensUsed'
    BY <1>1 DEF IInv, TokensUsed
  <1>16. NoOrphanedCall'
    BY <1>1, <1>2, <1>3, <1>4, <1>5, <1>6, <1>7, KeepOwned DEF IInv, Types
  <1> HIDE DEF Goto, schedule, return_to_user, ipc, sms, scs, InCharge, AnswerKeeps
  <1> QED
    BY <1>8, <1>9, <1>10, <1>11, <1>12, <1>13, <1>14, <1>15, <1>16 DEF IInv

\* The SC of the caller has been revoked, and stops.
LEMMA ReplyRevokedStep ==
    ASSUME IInv, NEW c \in CPUs,
           NEW cs, NEW k, NEW m, Replies(c, cs, k, m), cur[c] \in Locals, rcap[cur[c]] # NONE,
           Owner[sc[c]] = rcap[cur[c]], last_ref(sc[c])
    PROVE  IInv'
  <1> USE Names DEF Goto, schedule, return_to_user, ipc, sms, scs, InCharge, AnswerKeeps
  <1>1. /\ Acts(c) /\ pc[c] \in {"user", "run"} /\ Answers(c, cs) /\ k \in {"null", "dead"} /\ m \in Sms \cup {NONE}
        /\ cont' = [cs EXCEPT ![cur[c]] = k] /\ partner' = [partner EXCEPT ![rcap[cur[c]]] = NONE] /\ rcap' = [rcap EXCEPT ![cur[c]] = NONE]
        /\ ctr_link' = [ctr_link EXCEPT ![c] = IF @ > 0 THEN @ - 1 ELSE @]
        /\ schedule(c, Suspended(sc[c])) /\ UNCHANGED sms
    BY DEF Replies, reply, linked, Acts
  <1>2. InCharge(c)
    BY <1>1, Current
  <1>3. AnswerKeeps(c, k)
    BY <1>1, Answered
  <1>4. /\ pc'[c] = "schedule" /\ \A t \in Scs : t # sc[c] => place'[t] = place[t]
        /\ place'[sc[c]] = Suspended(sc[c])
        /\ partner'[rcap[cur[c]]] = NONE /\ \A x \in ECs : x # rcap[cur[c]] => partner'[x] = partner[x]
        /\ rcap'[cur[c]] = NONE /\ \A x \in ECs : x # cur[c] => rcap'[x] = rcap[x]
    BY <1>1, <1>2 DEF IInv, Types
  <1>5. \A x : Queued(x)' <=> Queued(x)
    BY <1>1, SameQueues
  <1>6. /\ cur[c] \in Globals => rcap[cur[c]] = NONE
        /\ \A x \in ECs : partner[x] = cur[c] => x = rcap[cur[c]]
    BY <1>2 DEF IInv, Calls
  <1>7. Suspended(sc[c]) \in {"gone", "off"}
    BY DEF Suspended
  <1>8. Alone(c)
    BY <1>1, <1>2, <1>3, <1>4, <1>5, <1>6, <1>7 DEF IInv, Types, Alone
  <1>9. Types'
    BY <1>1, <1>2, <1>3, <1>4, <1>5, <1>6, <1>7, <1>8 DEF IInv, Types, Conts, Exits, Places
  <1>10. AtHome'
    BY <1>1, <1>2, <1>3, <1>4, <1>5, <1>6, <1>7, <1>8 DEF IInv, Types, AtHome, Alone
  <1>11. Calls'
    <2>1. (\A x \in ECs : partner[x] # NONE => rcap[partner[x]] = x /\ cont[partner[x]] # "null")'
      BY <1>1, <1>2, <1>3, <1>4, <1>5, <1>6, <1>7, <1>8 DEF IInv, Types, Calls
    <2>2. (\A x \in ECs : rcap[x] # NONE => partner[rcap[x]] = x)'
      BY <1>1, <1>2, <1>3, <1>4, <1>5, <1>6, <1>7, <1>8 DEF IInv, Types, Calls
    <2>3. (\A x \in ECs : cont[x] = "null" => partner[x] = NONE)'
      BY <1>1, <1>2, <1>3, <1>4, <1>5, <1>6, <1>7, <1>8 DEF IInv, Types, Calls
    <2>4. (\A x \in Locals : rcap[x] = NONE => cont[x] \in {"null", "dead"})'
      BY <1>1, <1>2, <1>3, FreeAgain
    <2>5. (\A x \in ECs : Queued(x) => cont[x] # "null" /\ partner[x] = NONE)'
      BY <1>1, <1>2, <1>3, <1>4, <1>5, <1>6, <1>7, <1>8 DEF IInv, Types, Calls
    <2> QED
      BY <2>1, <2>2, <2>3, <2>4, <2>5 DEF Calls
  <1>12. Running'
    <2>1. (\A d \in CPUs : pc[d] \in {"run", "exit", "user", "release"} => partner[cur[d]] = NONE /\ ~ Queued(cur[d]) /\ cont[cur[d]] # "null")'
      BY <1>1, <1>2, <1>3, <1>4, <1>5, <1>6, <1>7, <1>8 DEF IInv, Types, AtHome, Calls, Running, Alone
    <2>2. (\A d \in CPUs : pc[d] \in {"exit", "user", "release"} /\ cur[d] \in Locals => rcap[cur[d]] # NONE)'
      BY <1>1, <1>2, <1>3, <1>4, <1>5, <1>6, <1>7, <1>8 DEF IInv, Types, AtHome, Calls, Running, Alone
    <2>3. (\A d \in CPUs : pc[d] = "block" => partner[arg[d]] = NONE)'
      BY <1>1, <1>2, <1>3, <1>4, <1>5, <1>6, <1>7, <1>8 DEF IInv, Types, AtHome, Calls, Running, Alone
    <2>4. (\A d \in CPUs : pc[d] \in {"activate", "block"} /\ arg[d] \in Locals => cont[arg[d]] # "null")'
      BY <1>1, <1>2, <1>3, <1>4, <1>5, <1>6, <1>7, <1>8 DEF IInv, Types, AtHome, Calls, Running, Alone
    <2>5. (\A d \in CPUs : pc[d] = "activate" /\ arg[d] \in Globals => arg[d] = Owner[sc[d]])'
      BY <1>1, <1>2, <1>3, <1>4, <1>5, <1>6, <1>7, <1>8 DEF IInv, Types, AtHome, Calls, Running, Alone
    <2>6. (\A x \in ECs : cont[x] \in {"sys_call", "send_msg"} /\ dst[x] = NONE => pc[Home[x]] \in {"exit", "user", "release"} /\ cur[Home[x]] = x)'
      BY <1>1, <1>2, <1>3, <1>4, <1>5, <1>6, <1>7, <1>8 DEF IInv, Types, AtHome, Calls, Running, Alone
    <2> QED
      BY <2>1, <2>2, <2>3, <2>4, <2>5, <2>6 DEF Running
  <1>13. Acyclic'
    BY <1>1, <1>2, <1>3, <1>4, <1>5, <1>6, <1>7, <1>8 DEF IInv, Types, Acyclic, Ranked
  <1>14. Linked'
    BY <1>1, <1>2, <1>3, <1>4, <1>5, <1>6, <1>7, <1>8, KeepLinked DEF Engaged
  <1>15. Waiters'
    <2>1. \A s \in Scs : place'[s] \in ECs =>
               \/ place'[s] = place[s] \/ Queued(place[s])'
               \/ place'[s] \in Globals /\ cont'[place'[s]] = "null"
      BY <1>1, <1>2, <1>3, <1>4, <1>5, <1>6, <1>7, <1>8
    <2>2. \A x \in ECs : Queued(x) => Queued(x)' \/ (pc'[c] = "release" /\ arg'[c] = x)
      BY <1>1, <1>2, <1>3, <1>4, <1>5, <1>6, <1>7, <1>8
    <2>3. \A x \in Globals : cont[x] = "null" => cont'[x] = "null"
      BY <1>1, <1>2, <1>3, <1>4, <1>5, <1>6, <1>7, <1>8
    <2>4. pc[c] = "release" => \A s \in Scs : place'[s] # arg[c]
      BY <1>1, <1>2, <1>3, <1>4, <1>5, <1>6, <1>7, <1>8
    <2> QED
      BY <1>1, <1>2, <1>3, <1>4, <1>5, <1>6, <1>7, <1>8, <2>1, <2>2, <2>3, <2>4, KeepWaiters
  <1>16. TokensUsed'
    BY <1>1, <1>2, <1>3, <1>4, <1>5, <1>6, <1>7, <1>8 DEF IInv, TokensUsed
  <1>17. NoOrphanedCall'
    BY <1>1, <1>2, <1>3, <1>4, <1>5, <1>6, <1>7, <1>8, KeepOwned DEF IInv, Types
  <1> HIDE DEF Goto, schedule, return_to_user, ipc, sms, scs, InCharge, AnswerKeeps
  <1> QED
    BY <1>9, <1>10, <1>11, <1>12, <1>13, <1>14, <1>15, <1>16, <1>17 DEF IInv

\* The caller is made to wait for a semaphore, and is waited for.
LEMMA ReplyBlockStep ==
    ASSUME IInv, NEW c \in CPUs,
           NEW cs, NEW k, NEW m, Replies(c, cs, k, m), cur[c] \in Locals, rcap[cur[c]] # NONE,
           ~ (Owner[sc[c]] = rcap[cur[c]] /\ last_ref(sc[c])), m # NONE, counter[m] = 0, ctr_link[c] # 0
    PROVE  IInv'
  <1> USE Names DEF Goto, schedule, return_to_user, ipc, sms, scs, InCharge, AnswerKeeps
  <1>1. /\ Acts(c) /\ pc[c] \in {"user", "run"} /\ Answers(c, cs) /\ k \in {"null", "dead"} /\ m \in Sms \cup {NONE}
        /\ cont' = [cs EXCEPT ![cur[c]] = k] /\ partner' = [partner EXCEPT ![rcap[cur[c]]] = NONE] /\ rcap' = [rcap EXCEPT ![cur[c]] = NONE]
        /\ ctr_link' = [ctr_link EXCEPT ![c] = IF @ > 0 THEN @ - 1 ELSE @]
        /\ m \in Sms /\ EnqueueOn(m, rcap[cur[c]]) /\ counter' = counter /\ Goto(c, "block", rcap[cur[c]]) /\ UNCHANGED <<cur, sc, place>>
    BY DEF Replies, reply, linked, Acts
  <1>2. InCharge(c)
    BY <1>1, Current
  <1>3. AnswerKeeps(c, k)
    BY <1>1, Answered
  <1>4. /\ pc'[c] = "block" /\ arg'[c] = rcap[cur[c]]
        /\ partner'[rcap[cur[c]]] = NONE /\ \A x \in ECs : x # rcap[cur[c]] => partner'[x] = partner[x]
        /\ rcap'[cur[c]] = NONE /\ \A x \in ECs : x # cur[c] => rcap'[x] = rcap[x]
    BY <1>1, <1>2 DEF IInv, Types
  <1>5. smq' \in [Sms -> Seq(ECs)] /\ (\A x : Queued(x)' <=> Queued(x) \/ x = rcap[cur[c]]) /\ TokensUsed'
    BY <1>1, <1>2, Enqueue DEF IInv
  <1>6. /\ cur[c] \in Globals => rcap[cur[c]] = NONE
        /\ \A x \in ECs : partner[x] = cur[c] => x = rcap[cur[c]]
    BY <1>2 DEF IInv, Calls
  <1>7. ctr_link[c] \in Nat /\ ctr_link'[c] = ctr_link[c] - 1
    BY <1>1 DEF IInv, Types
  <1>8. Alone(c)
    BY <1>1, <1>2, <1>3, <1>4, <1>5, <1>6, <1>7 DEF IInv, Types, Alone
  <1>9. Types'
    BY <1>1, <1>2, <1>3, <1>4, <1>5, <1>6, <1>7, <1>8 DEF IInv, Types, Conts, Exits, Places
  <1>10. AtHome'
    BY <1>1, <1>2, <1>3, <1>4, <1>5, <1>6, <1>7, <1>8 DEF IInv, Types, AtHome, Alone
  <1>11. Calls'
    <2>1. (\A x \in ECs : partner[x] # NONE => rcap[partner[x]] = x /\ cont[partner[x]] # "null")'
      BY <1>1, <1>2, <1>3, <1>4, <1>5, <1>6, <1>7, <1>8 DEF IInv, Types, Calls
    <2>2. (\A x \in ECs : rcap[x] # NONE => partner[rcap[x]] = x)'
      BY <1>1, <1>2, <1>3, <1>4, <1>5, <1>6, <1>7, <1>8 DEF IInv, Types, Calls
    <2>3. (\A x \in ECs : cont[x] = "null" => partner[x] = NONE)'
      BY <1>1, <1>2, <1>3, <1>4, <1>5, <1>6, <1>7, <1>8 DEF IInv, Types, Calls
    <2>4. (\A x \in Locals : rcap[x] = NONE => cont[x] \in {"null", "dead"})'
      BY <1>1, <1>2, <1>3, FreeAgain
    <2>5. (\A x \in ECs : Queued(x) => cont[x] # "null" /\ partner[x] = NONE)'
      BY <1>1, <1>2, <1>3, <1>4, <1>5, <1>6, <1>7, <1>8 DEF IInv, Types, Calls
    <2> QED
      BY <2>1, <2>2, <2>3, <2>4, <2>5 DEF Calls
  <1>12. Running'
    <2>1. (\A d \in CPUs : pc[d] \in {"run", "exit", "user", "release"} => partner[cur[d]] = NONE /\ ~ Queued(cur[d]) /\ cont[cur[d]] # "null")'
      BY <1>1, <1>2, <1>3, <1>4, <1>5, <1>6, <1>7, <1>8 DEF IInv, Types, AtHome, Calls, Running, Alone
    <2>2. (\A d \in CPUs : pc[d] \in {"exit", "user", "release"} /\ cur[d] \in Locals => rcap[cur[d]] # NONE)'
      BY <1>1, <1>2, <1>3, <1>4, <1>5, <1>6, <1>7, <1>8 DEF IInv, Types, AtHome, Calls, Running, Alone
    <2>3. (\A d \in CPUs : pc[d] = "block" => partner[arg[d]] = NONE)'
      BY <1>1, <1>2, <1>3, <1>4, <1>5, <1>6, <1>7, <1>8 DEF IInv, Types, AtHome, Calls, Running, Alone
    <2>4. (\A d \in CPUs : pc[d] \in {"activate", "block"} /\ arg[d] \in Locals => cont[arg[d]] # "null")'
      BY <1>1, <1>2, <1>3, <1>4, <1>5, <1>6, <1>7, <1>8 DEF IInv, Types, AtHome, Calls, Running, Alone
    <2>5. (\A d \in CPUs : pc[d] = "activate" /\ arg[d] \in Globals => arg[d] = Owner[sc[d]])'
      BY <1>1, <1>2, <1>3, <1>4, <1>5, <1>6, <1>7, <1>8 DEF IInv, Types, AtHome, Calls, Running, Alone
    <2>6. (\A x \in ECs : cont[x] \in {"sys_call", "send_msg"} /\ dst[x] = NONE => pc[Home[x]] \in {"exit", "user", "release"} /\ cur[Home[x]] = x)'
      BY <1>1, <1>2, <1>3, <1>4, <1>5, <1>6, <1>7, <1>8 DEF IInv, Types, AtHome, Calls, Running, Alone
    <2> QED
      BY <2>1, <2>2, <2>3, <2>4, <2>5, <2>6 DEF Running
  <1>13. Acyclic'
    BY <1>1, <1>2, <1>3, <1>4, <1>5, <1>6, <1>7, <1>8 DEF IInv, Types, Acyclic, Ranked
  <1>14. Linked'
    BY <1>1, <1>2, <1>3, <1>4, <1>5, <1>6, <1>7, <1>8, KeepLinked, ShorterChain DEF Top, IInv, Types
  <1>15. Waiters'
    <2>1. \A s \in Scs : place'[s] \in ECs =>
               \/ place'[s] = place[s] \/ Queued(place[s])'
               \/ place'[s] \in Globals /\ cont'[place'[s]] = "null"
      BY <1>1, <1>2, <1>3, <1>4, <1>5, <1>6, <1>7, <1>8
    <2>2. \A x \in ECs : Queued(x) => Queued(x)' \/ (pc'[c] = "release" /\ arg'[c] = x)
      BY <1>1, <1>2, <1>3, <1>4, <1>5, <1>6, <1>7, <1>8
    <2>3. \A x \in Globals : cont[x] = "null" => cont'[x] = "null"
      BY <1>1, <1>2, <1>3, <1>4, <1>5, <1>6, <1>7, <1>8
    <2>4. pc[c] = "release" => \A s \in Scs : place'[s] # arg[c]
      BY <1>1, <1>2, <1>3, <1>4, <1>5, <1>6, <1>7, <1>8
    <2> QED
      BY <1>1, <1>2, <1>3, <1>4, <1>5, <1>6, <1>7, <1>8, <2>1, <2>2, <2>3, <2>4, KeepWaiters
  <1>16. TokensUsed'
    BY <1>1, <1>2, <1>3, <1>4, <1>5, <1>6, <1>7, <1>8
  <1>17. NoOrphanedCall'
    BY <1>1, <1>2, <1>3, <1>4, <1>5, <1>6, <1>7, <1>8, KeepOwned DEF IInv, Types
  <1> HIDE DEF Goto, schedule, return_to_user, ipc, sms, scs, InCharge, AnswerKeeps
  <1> QED
    BY <1>9, <1>10, <1>11, <1>12, <1>13, <1>14, <1>15, <1>16, <1>17 DEF IInv

\* It is made to wait by a server that was only helped.
LEMMA ReplyReadyStep ==
    ASSUME IInv, NEW c \in CPUs,
           NEW cs, NEW k, NEW m, Replies(c, cs, k, m), cur[c] \in Locals, rcap[cur[c]] # NONE,
           ~ (Owner[sc[c]] = rcap[cur[c]] /\ last_ref(sc[c])), m # NONE, counter[m] = 0, ctr_link[c] = 0
    PROVE  IInv'
  <1> USE Names DEF Goto, schedule, return_to_user, ipc, sms, scs, InCharge, AnswerKeeps
  <1>1. /\ Acts(c) /\ pc[c] \in {"user", "run"} /\ Answers(c, cs) /\ k \in {"null", "dead"} /\ m \in Sms \cup {NONE}
        /\ cont' = [cs EXCEPT ![cur[c]] = k] /\ partner' = [partner EXCEPT ![rcap[cur[c]]] = NONE] /\ rcap' = [rcap EXCEPT ![cur[c]] = NONE]
        /\ ctr_link' = [ctr_link EXCEPT ![c] = IF @ > 0 THEN @ - 1 ELSE @]
        /\ m \in Sms /\ EnqueueOn(m, rcap[cur[c]]) /\ counter' = counter /\ schedule(c, "ready")
    BY DEF Replies, reply, linked, Acts
  <1>2. InCharge(c)
    BY <1>1, Current
  <1>3. AnswerKeeps(c, k)
    BY <1>1, Answered
  <1>4. /\ pc'[c] = "schedule" /\ \A t \in Scs : t # sc[c] => place'[t] = place[t] /\ place'[sc[c]] = "ready"
        /\ partner'[rcap[cur[c]]] = NONE /\ \A x \in ECs : x # rcap[cur[c]] => partner'[x] = partner[x]
        /\ rcap'[cur[c]] = NONE /\ \A x \in ECs : x # cur[c] => rcap'[x] = rcap[x]
    BY <1>1, <1>2 DEF IInv, Types
  <1>5. smq' \in [Sms -> Seq(ECs)] /\ (\A x : Queued(x)' <=> Queued(x) \/ x = rcap[cur[c]]) /\ TokensUsed'
    BY <1>1, <1>2, Enqueue DEF IInv
  <1>6. /\ cur[c] \in Globals => rcap[cur[c]] = NONE
        /\ \A x \in ECs : partner[x] = cur[c] => x = rcap[cur[c]]
    BY <1>2 DEF IInv, Calls
  <1>7. Alone(c)
    BY <1>1, <1>2, <1>3, <1>4, <1>5, <1>6 DEF IInv, Types, Alone
  <1>8. Types'
    BY <1>1, <1>2, <1>3, <1>4, <1>5, <1>6, <1>7 DEF IInv, Types, Conts, Exits, Places
  <1>9. AtHome'
    BY <1>1, <1>2, <1>3, <1>4, <1>5, <1>6, <1>7 DEF IInv, Types, AtHome, Alone
  <1>10. Calls'
    <2>1. (\A x \in ECs : partner[x] # NONE => rcap[partner[x]] = x /\ cont[partner[x]] # "null")'
      BY <1>1, <1>2, <1>3, <1>4, <1>5, <1>6, <1>7 DEF IInv, Types, Calls
    <2>2. (\A x \in ECs : rcap[x] # NONE => partner[rcap[x]] = x)'
      BY <1>1, <1>2, <1>3, <1>4, <1>5, <1>6, <1>7 DEF IInv, Types, Calls
    <2>3. (\A x \in ECs : cont[x] = "null" => partner[x] = NONE)'
      BY <1>1, <1>2, <1>3, <1>4, <1>5, <1>6, <1>7 DEF IInv, Types, Calls
    <2>4. (\A x \in Locals : rcap[x] = NONE => cont[x] \in {"null", "dead"})'
      BY <1>1, <1>2, <1>3, FreeAgain
    <2>5. (\A x \in ECs : Queued(x) => cont[x] # "null" /\ partner[x] = NONE)'
      BY <1>1, <1>2, <1>3, <1>4, <1>5, <1>6, <1>7 DEF IInv, Types, Calls
    <2> QED
      BY <2>1, <2>2, <2>3, <2>4, <2>5 DEF Calls
  <1>11. Running'
    <2>1. (\A d \in CPUs : pc[d] \in {"run", "exit", "user", "release"} => partner[cur[d]] = NONE /\ ~ Queued(cur[d]) /\ cont[cur[d]] # "null")'
      BY <1>1, <1>2, <1>3, <1>4, <1>5, <1>6, <1>7 DEF IInv, Types, AtHome, Calls, Running, Alone
    <2>2. (\A d \in CPUs : pc[d] \in {"exit", "user", "release"} /\ cur[d] \in Locals => rcap[cur[d]] # NONE)'
      BY <1>1, <1>2, <1>3, <1>4, <1>5, <1>6, <1>7 DEF IInv, Types, AtHome, Calls, Running, Alone
    <2>3. (\A d \in CPUs : pc[d] = "block" => partner[arg[d]] = NONE)'
      BY <1>1, <1>2, <1>3, <1>4, <1>5, <1>6, <1>7 DEF IInv, Types, AtHome, Calls, Running, Alone
    <2>4. (\A d \in CPUs : pc[d] \in {"activate", "block"} /\ arg[d] \in Locals => cont[arg[d]] # "null")'
      BY <1>1, <1>2, <1>3, <1>4, <1>5, <1>6, <1>7 DEF IInv, Types, AtHome, Calls, Running, Alone
    <2>5. (\A d \in CPUs : pc[d] = "activate" /\ arg[d] \in Globals => arg[d] = Owner[sc[d]])'
      BY <1>1, <1>2, <1>3, <1>4, <1>5, <1>6, <1>7 DEF IInv, Types, AtHome, Calls, Running, Alone
    <2>6. (\A x \in ECs : cont[x] \in {"sys_call", "send_msg"} /\ dst[x] = NONE => pc[Home[x]] \in {"exit", "user", "release"} /\ cur[Home[x]] = x)'
      BY <1>1, <1>2, <1>3, <1>4, <1>5, <1>6, <1>7 DEF IInv, Types, AtHome, Calls, Running, Alone
    <2> QED
      BY <2>1, <2>2, <2>3, <2>4, <2>5, <2>6 DEF Running
  <1>12. Acyclic'
    BY <1>1, <1>2, <1>3, <1>4, <1>5, <1>6, <1>7 DEF IInv, Types, Acyclic, Ranked
  <1>13. Linked'
    BY <1>1, <1>2, <1>3, <1>4, <1>5, <1>6, <1>7, KeepLinked DEF Engaged
  <1>14. Waiters'
    <2>1. \A s \in Scs : place'[s] \in ECs =>
               \/ place'[s] = place[s] \/ Queued(place[s])'
               \/ place'[s] \in Globals /\ cont'[place'[s]] = "null"
      BY <1>1, <1>2, <1>3, <1>4, <1>5, <1>6, <1>7
    <2>2. \A x \in ECs : Queued(x) => Queued(x)' \/ (pc'[c] = "release" /\ arg'[c] = x)
      BY <1>1, <1>2, <1>3, <1>4, <1>5, <1>6, <1>7
    <2>3. \A x \in Globals : cont[x] = "null" => cont'[x] = "null"
      BY <1>1, <1>2, <1>3, <1>4, <1>5, <1>6, <1>7
    <2>4. pc[c] = "release" => \A s \in Scs : place'[s] # arg[c]
      BY <1>1, <1>2, <1>3, <1>4, <1>5, <1>6, <1>7
    <2> QED
      BY <1>1, <1>2, <1>3, <1>4, <1>5, <1>6, <1>7, <2>1, <2>2, <2>3, <2>4, KeepWaiters
  <1>15. TokensUsed'
    BY <1>1, <1>2, <1>3, <1>4, <1>5, <1>6, <1>7
  <1>16. NoOrphanedCall'
    BY <1>1, <1>2, <1>3, <1>4, <1>5, <1>6, <1>7, KeepOwned DEF IInv, Types
  <1> HIDE DEF Goto, schedule, return_to_user, ipc, sms, scs, InCharge, AnswerKeeps
  <1> QED
    BY <1>8, <1>9, <1>10, <1>11, <1>12, <1>13, <1>14, <1>15, <1>16 DEF IInv

\* The caller goes on.
LEMMA ReplyReturnStep ==
    ASSUME IInv, NEW c \in CPUs,
           NEW cs, NEW k, NEW m, Replies(c, cs, k, m), cur[c] \in Locals, rcap[cur[c]] # NONE,
           ~ (Owner[sc[c]] = rcap[cur[c]] /\ last_ref(sc[c])), ~ (m # NONE /\ counter[m] = 0), ctr_link[c] # 0
    PROVE  IInv'
  <1> USE Names DEF Goto, schedule, return_to_user, ipc, sms, scs, InCharge, AnswerKeeps
  <1>1. /\ Acts(c) /\ pc[c] \in {"user", "run"} /\ Answers(c, cs) /\ k \in {"null", "dead"} /\ m \in Sms \cup {NONE}
        /\ cont' = [cs EXCEPT ![cur[c]] = k] /\ partner' = [partner EXCEPT ![rcap[cur[c]]] = NONE] /\ rcap' = [rcap EXCEPT ![cur[c]] = NONE]
        /\ ctr_link' = [ctr_link EXCEPT ![c] = IF @ > 0 THEN @ - 1 ELSE @]
        /\ counter' = (IF m = NONE THEN counter ELSE [counter EXCEPT ![m] = @ - 1]) /\ return_to_user(c, rcap[cur[c]]) /\ UNCHANGED <<smq, place>>
    BY DEF Replies, reply, linked, Acts
  <1>2. InCharge(c)
    BY <1>1, Current
  <1>3. AnswerKeeps(c, k)
    BY <1>1, Answered
  <1>4. /\ pc'[c] = "run" /\ cur'[c] = rcap[cur[c]]
        /\ partner'[rcap[cur[c]]] = NONE /\ \A x \in ECs : x # rcap[cur[c]] => partner'[x] = partner[x]
        /\ rcap'[cur[c]] = NONE /\ \A x \in ECs : x # cur[c] => rcap'[x] = rcap[x]
    BY <1>1, <1>2 DEF IInv, Types
  <1>5. \A x : Queued(x)' <=> Queued(x)
    BY <1>1, SameQueues
  <1>6. /\ cur[c] \in Globals => rcap[cur[c]] = NONE
        /\ \A x \in ECs : partner[x] = cur[c] => x = rcap[cur[c]]
    BY <1>2 DEF IInv, Calls
  <1>7. counter' \in [Sms -> Nat] /\ \A n \in Sms : counter'[n] > 0 => counter[n] > 0
    BY <1>1 DEF IInv, Types
  <1>8. ctr_link[c] \in Nat /\ ctr_link'[c] = ctr_link[c] - 1
    BY <1>1 DEF IInv, Types
  <1>9. Alone(c)
    BY <1>1, <1>2, <1>3, <1>4, <1>5, <1>6, <1>7, <1>8 DEF IInv, Types, Alone
  <1>10. Types'
    BY <1>1, <1>2, <1>3, <1>4, <1>5, <1>6, <1>7, <1>8, <1>9 DEF IInv, Types, Conts, Exits, Places
  <1>11. AtHome'
    BY <1>1, <1>2, <1>3, <1>4, <1>5, <1>6, <1>7, <1>8, <1>9 DEF IInv, Types, AtHome, Alone
  <1>12. Calls'
    <2>1. (\A x \in ECs : partner[x] # NONE => rcap[partner[x]] = x /\ cont[partner[x]] # "null")'
      BY <1>1, <1>2, <1>3, <1>4, <1>5, <1>6, <1>7, <1>8, <1>9 DEF IInv, Types, Calls
    <2>2. (\A x \in ECs : rcap[x] # NONE => partner[rcap[x]] = x)'
      BY <1>1, <1>2, <1>3, <1>4, <1>5, <1>6, <1>7, <1>8, <1>9 DEF IInv, Types, Calls
    <2>3. (\A x \in ECs : cont[x] = "null" => partner[x] = NONE)'
      BY <1>1, <1>2, <1>3, <1>4, <1>5, <1>6, <1>7, <1>8, <1>9 DEF IInv, Types, Calls
    <2>4. (\A x \in Locals : rcap[x] = NONE => cont[x] \in {"null", "dead"})'
      BY <1>1, <1>2, <1>3, FreeAgain
    <2>5. (\A x \in ECs : Queued(x) => cont[x] # "null" /\ partner[x] = NONE)'
      BY <1>1, <1>2, <1>3, <1>4, <1>5, <1>6, <1>7, <1>8, <1>9 DEF IInv, Types, Calls
    <2> QED
      BY <2>1, <2>2, <2>3, <2>4, <2>5 DEF Calls
  <1>13. Running'
    <2>1. (\A d \in CPUs : pc[d] \in {"run", "exit", "user", "release"} => partner[cur[d]] = NONE /\ ~ Queued(cur[d]) /\ cont[cur[d]] # "null")'
      BY <1>1, <1>2, <1>3, <1>4, <1>5, <1>6, <1>7, <1>8, <1>9 DEF IInv, Types, AtHome, Calls, Running, Alone
    <2>2. (\A d \in CPUs : pc[d] \in {"exit", "user", "release"} /\ cur[d] \in Locals => rcap[cur[d]] # NONE)'
      BY <1>1, <1>2, <1>3, <1>4, <1>5, <1>6, <1>7, <1>8, <1>9 DEF IInv, Types, AtHome, Calls, Running, Alone
    <2>3. (\A d \in CPUs : pc[d] = "block" => partner[arg[d]] = NONE)'
      BY <1>1, <1>2, <1>3, <1>4, <1>5, <1>6, <1>7, <1>8, <1>9 DEF IInv, Types, AtHome, Calls, Running, Alone
    <2>4. (\A d \in CPUs : pc[d] \in {"activate", "block"} /\ arg[d] \in Locals => cont[arg[d]] # "null")'
      BY <1>1, <1>2, <1>3, <1>4, <1>5, <1>6, <1>7, <1>8, <1>9 DEF IInv, Types, AtHome, Calls, Running, Alone
    <2>5. (\A d \in CPUs : pc[d] = "activate" /\ arg[d] \in Globals => arg[d] = Owner[sc[d]])'
      BY <1>1, <1>2, <1>3, <1>4, <1>5, <1>6, <1>7, <1>8, <1>9 DEF IInv, Types, AtHome, Calls, Running, Alone
    <2>6. (\A x \in ECs : cont[x] \in {"sys_call", "send_msg"} /\ dst[x] = NONE => pc[Home[x]] \in {"exit", "user", "release"} /\ cur[Home[x]] = x)'
      BY <1>1, <1>2, <1>3, <1>4, <1>5, <1>6, <1>7, <1>8, <1>9 DEF IInv, Types, AtHome, Calls, Running, Alone
    <2> QED
      BY <2>1, <2>2, <2>3, <2>4, <2>5, <2>6 DEF Running
  <1>14. Acyclic'
    BY <1>1, <1>2, <1>3, <1>4, <1>5, <1>6, <1>7, <1>8, <1>9 DEF IInv, Types, Acyclic, Ranked
  <1>15. Linked'
    BY <1>1, <1>2, <1>3, <1>4, <1>5, <1>6, <1>7, <1>8, <1>9, KeepLinked, ShorterChain DEF Top, IInv, Types
  <1>16. Waiters'
    <2>1. \A s \in Scs : place'[s] \in ECs =>
               \/ place'[s] = place[s] \/ Queued(place[s])'
               \/ place'[s] \in Globals /\ cont'[place'[s]] = "null"
      BY <1>1, <1>2, <1>3, <1>4, <1>5, <1>6, <1>7, <1>8, <1>9
    <2>2. \A x \in ECs : Queued(x) => Queued(x)' \/ (pc'[c] = "release" /\ arg'[c] = x)
      BY <1>1, <1>2, <1>3, <1>4, <1>5, <1>6, <1>7, <1>8, <1>9
    <2>3. \A x \in Globals : cont[x] = "null" => cont'[x] = "null"
      BY <1>1, <1>2, <1>3, <1>4, <1>5, <1>6, <1>7, <1>8, <1>9
    <2>4. pc[c] = "release" => \A s \in Scs : place'[s] # arg[c]
      BY <1>1, <1>2, <1>3, <1>4, <1>5, <1>6, <1>7, <1>8, <1>9
    <2> QED
      BY <1>1, <1>2, <1>3, <1>4, <1>5, <1>6, <1>7, <1>8, <1>9, <2>1, <2>2, <2>3, <2>4, KeepWaiters
  <1>17. TokensUsed'
    BY <1>1, <1>2, <1>3, <1>4, <1>5, <1>6, <1>7, <1>8, <1>9 DEF IInv, Types, TokensUsed
  <1>18. NoOrphanedCall'
    BY <1>1, <1>2, <1>3, <1>4, <1>5, <1>6, <1>7, <1>8, <1>9, KeepOwned DEF IInv, Types
  <1> HIDE DEF Goto, schedule, return_to_user, ipc, sms, scs, InCharge, AnswerKeeps
  <1> QED
    BY <1>10, <1>11, <1>12, <1>13, <1>14, <1>15, <1>16, <1>17, <1>18 DEF IInv

\* The server was only helped: the owner of the SC goes on.
LEMMA ReplyHelpedStep ==
    ASSUME IInv, NEW c \in CPUs,
           NEW cs, NEW k, NEW m, Replies(c, cs, k, m), cur[c] \in Locals, rcap[cur[c]] # NONE,
           ~ (Owner[sc[c]] = rcap[cur[c]] /\ last_ref(sc[c])), ~ (m # NONE /\ counter[m] = 0), ctr_link[c] = 0
    PROVE  IInv'
  <1> USE Names DEF Goto, schedule, return_to_user, ipc, sms, scs, InCharge, AnswerKeeps
  <1>1. /\ Acts(c) /\ pc[c] \in {"user", "run"} /\ Answers(c, cs) /\ k \in {"null", "dead"} /\ m \in Sms \cup {NONE}
        /\ cont' = [cs EXCEPT ![cur[c]] = k] /\ partner' = [partner EXCEPT ![rcap[cur[c]]] = NONE] /\ rcap' = [rcap EXCEPT ![cur[c]] = NONE]
        /\ ctr_link' = [ctr_link EXCEPT ![c] = IF @ > 0 THEN @ - 1 ELSE @]
        /\ counter' = (IF m = NONE THEN counter ELSE [counter EXCEPT ![m] = @ - 1]) /\ Goto(c, "activate", Owner[sc[c]]) /\ UNCHANGED <<cur, sc, smq, place>>
    BY DEF Replies, reply, linked, Acts
  <1>2. InCharge(c)
    BY <1>1, Current
  <1>3. AnswerKeeps(c, k)
    BY <1>1, Answered
  <1>4. /\ pc'[c] = "activate" /\ arg'[c] = Owner[sc[c]]
        /\ partner'[rcap[cur[c]]] = NONE /\ \A x \in ECs : x # rcap[cur[c]] => partner'[x] = partner[x]
        /\ rcap'[cur[c]] = NONE /\ \A x \in ECs : x # cur[c] => rcap'[x] = rcap[x]
    BY <1>1, <1>2 DEF IInv, Types
  <1>5. \A x : Queued(x)' <=> Queued(x)
    BY <1>1, SameQueues
  <1>6. /\ cur[c] \in Globals => rcap[cur[c]] = NONE
        /\ \A x \in ECs : partner[x] = cur[c] => x = rcap[cur[c]]
    BY <1>2 DEF IInv, Calls
  <1>7. counter' \in [Sms -> Nat] /\ \A n \in Sms : counter'[n] > 0 => counter[n] > 0
    BY <1>1 DEF IInv, Types
  <1>8. Alone(c)
    BY <1>1, <1>2, <1>3, <1>4, <1>5, <1>6, <1>7 DEF IInv, Types, Alone
  <1>9. Types'
    BY <1>1, <1>2, <1>3, <1>4, <1>5, <1>6, <1>7, <1>8 DEF IInv, Types, Conts, Exits, Places
  <1>10. AtHome'
    BY <1>1, <1>2, <1>3, <1>4, <1>5, <1>6, <1>7, <1>8 DEF IInv, Types, AtHome, Alone
  <1>11. Calls'
    <2>1. (\A x \in ECs : partner[x] # NONE => rcap[partner[x]] = x /\ cont[partner[x]] # "null")'
      BY <1>1, <1>2, <1>3, <1>4, <1>5, <1>6, <1>7, <1>8 DEF IInv, Types, Calls
    <2>2. (\A x \in ECs : rcap[x] # NONE => partner[rcap[x]] = x)'
      BY <1>1, <1>2, <1>3, <1>4, <1>5, <1>6, <1>7, <1>8 DEF IInv, Types, Calls
    <2>3. (\A x \in ECs : cont[x] = "null" => partner[x] = NONE)'
      BY <1>1, <1>2, <1>3, <1>4, <1>5, <1>6, <1>7, <1>8 DEF IInv, Types, Calls
    <2>4. (\A x \in Locals : rcap[x] = NONE => cont[x] \in {"null", "dead"})'
      BY <1>1, <1>2, <1>3, FreeAgain
    <2>5. (\A x \in ECs : Queued(x) => cont[x] # "null" /\ partner[x] = NONE)'
      BY <1>1, <1>2, <1>3, <1>4, <1>5, <1>6, <1>7, <1>8 DEF IInv, Types, Calls
    <2> QED
      BY <2>1, <2>2, <2>3, <2>4, <2>5 DEF Calls
  <1>12. Running'
    <2>1. (\A d \in CPUs : pc[d] \in {"run", "exit", "user", "release"} => partner[cur[d]] = NONE /\ ~ Queued(cur[d]) /\ cont[cur[d]] # "null")'
      BY <1>1, <1>2, <1>3, <1>4, <1>5, <1>6, <1>7, <1>8 DEF IInv, Types, AtHome, Calls, Running, Alone
    <2>2. (\A d \in CPUs : pc[d] \in {"exit", "user", "release"} /\ cur[d] \in Locals => rcap[cur[d]] # NONE)'
      BY <1>1, <1>2, <1>3, <1>4, <1>5, <1>6, <1>7, <1>8 DEF IInv, Types, AtHome, Calls, Running, Alone
    <2>3. (\A d \in CPUs : pc[d] = "block" => partner[arg[d]] = NONE)'
      BY <1>1, <1>2, <1>3, <1>4, <1>5, <1>6, <1>7, <1>8 DEF IInv, Types, AtHome, Calls, Running, Alone
    <2>4. (\A d \in CPUs : pc[d] \in {"activate", "block"} /\ arg[d] \in Locals => cont[arg[d]] # "null")'
      BY <1>1, <1>2, <1>3, <1>4, <1>5, <1>6, <1>7, <1>8 DEF IInv, Types, AtHome, Calls, Running, Alone
    <2>5. (\A d \in CPUs : pc[d] = "activate" /\ arg[d] \in Globals => arg[d] = Owner[sc[d]])'
      BY <1>1, <1>2, <1>3, <1>4, <1>5, <1>6, <1>7, <1>8 DEF IInv, Types, AtHome, Calls, Running, Alone
    <2>6. (\A x \in ECs : cont[x] \in {"sys_call", "send_msg"} /\ dst[x] = NONE => pc[Home[x]] \in {"exit", "user", "release"} /\ cur[Home[x]] = x)'
      BY <1>1, <1>2, <1>3, <1>4, <1>5, <1>6, <1>7, <1>8 DEF IInv, Types, AtHome, Calls, Running, Alone
    <2> QED
      BY <2>1, <2>2, <2>3, <2>4, <2>5, <2>6 DEF Running
  <1>13. Acyclic'
    BY <1>1, <1>2, <1>3, <1>4, <1>5, <1>6, <1>7, <1>8 DEF IInv, Types, Acyclic, Ranked
  <1>14. Linked'
    BY <1>1, <1>2, <1>3, <1>4, <1>5, <1>6, <1>7, <1>8, KeepLinked DEF Engaged
  <1>15. Waiters'
    <2>1. \A s \in Scs : place'[s] \in ECs =>
               \/ place'[s] = place[s] \/ Queued(place[s])'
               \/ place'[s] \in Globals /\ cont'[place'[s]] = "null"
      BY <1>1, <1>2, <1>3, <1>4, <1>5, <1>6, <1>7, <1>8
    <2>2. \A x \in ECs : Queued(x) => Queued(x)' \/ (pc'[c] = "release" /\ arg'[c] = x)
      BY <1>1, <1>2, <1>3, <1>4, <1>5, <1>6, <1>7, <1>8
    <2>3. \A x \in Globals : cont[x] = "null" => cont'[x] = "null"
      BY <1>1, <1>2, <1>3, <1>4, <1>5, <1>6, <1>7, <1>8
    <2>4. pc[c] = "release" => \A s \in Scs : place'[s] # arg[c]
      BY <1>1, <1>2, <1>3, <1>4, <1>5, <1>6, <1>7, <1>8
    <2> QED
      BY <1>1, <1>2, <1>3, <1>4, <1>5, <1>6, <1>7, <1>8, <2>1, <2>2, <2>3, <2>4, KeepWaiters
  <1>16. TokensUsed'
    BY <1>1, <1>2, <1>3, <1>4, <1>5, <1>6, <1>7, <1>8 DEF IInv, Types, TokensUsed
  <1>17. NoOrphanedCall'
    BY <1>1, <1>2, <1>3, <1>4, <1>5, <1>6, <1>7, <1>8, KeepOwned DEF IInv, Types
  <1> HIDE DEF Goto, schedule, return_to_user, ipc, sms, scs, InCharge, AnswerKeeps
  <1> QED
    BY <1>9, <1>10, <1>11, <1>12, <1>13, <1>14, <1>15, <1>16, <1>17 DEF IInv

LEMMA RevokeStep ==
    ASSUME IInv, NEW s \in Scs, RevokeSc(s)
    PROVE  IInv'
  <1>1. /\ place' = [place EXCEPT ![s] = IF @ = "off" THEN "gone" ELSE @]
        /\ cont' = cont /\ partner' = partner /\ rcap' = rcap /\ dst' = dst /\ smq' = smq /\ counter' = counter
        /\ cur' = cur /\ sc' = sc /\ pc' = pc /\ arg' = arg /\ ctr_link' = ctr_link
    BY DEF RevokeSc, ipc, sms, cpu, ctrs
  <1>2. \A t \in Scs : place'[t] = place[t] \/ (place[t] = "off" /\ place'[t] = "gone")
    BY <1>1 DEF IInv, Types
  <1>3. \A x : Queued(x)' <=> Queued(x)
    BY <1>1, SameQueues
  <1>4. Types'
    BY <1>1 DEF IInv, Types, Places
  <1>5. AtHome'
    BY <1>1, <1>2 DEF IInv, AtHome
  <1>6. Calls' /\ Running'
    BY <1>1, <1>3 DEF IInv, Calls, Running
  <1>7. Acyclic'
    BY <1>1 DEF IInv, Acyclic, Ranked
  <1>8. Linked'
    BY <1>1 DEF IInv, Linked, Chain, Top
  <1>9. Waiters'
    BY <1>1, <1>2, <1>3, Names DEF IInv, Waiters
  <1>10. TokensUsed'
    BY <1>1 DEF IInv, TokensUsed
  <1>11. NoOrphanedCall'
    BY <1>1, <1>2, KeepOwned
  <1> QED
    BY <1>4, <1>5, <1>6, <1>7, <1>8, <1>9, <1>10, <1>11 DEF IInv

LEMMA TalkStep ==
    ASSUME IInv, NEW c \in CPUs, Talks(c)
    PROVE  IInv'
  <1>1. CASE \E e, k : Delivers(c, e, k)
    BY <1>1, DeliverStep
  <1>2. CASE \E e, k : Helps(c, e, k)
    BY <1>2, HelpStep
  <1>3. CASE Refuses(c)
    BY <1>3, RefuseStep
  <1>4. ASSUME NEW cs, NEW k, NEW m, Replies(c, cs, k, m) PROVE IInv'
    <2>1. cur[c] \in Globals \/ cur[c] \in Locals
      BY <1>4, Current DEF Replies, Acts, InCharge, ECs
    <2>2. CASE cur[c] \in Globals
      BY <1>4, <2>2, SuspendStep
    <2>3. CASE cur[c] \in Locals /\ rcap[cur[c]] = NONE
      BY <1>4, <2>3, NoCallerStep
    <2>4. CASE cur[c] \in Locals /\ rcap[cur[c]] # NONE
      <3>1. CASE Owner[sc[c]] = rcap[cur[c]] /\ last_ref(sc[c])
        BY <1>4, <2>4, <3>1, ReplyRevokedStep
      <3>2. CASE ~ (Owner[sc[c]] = rcap[cur[c]] /\ last_ref(sc[c])) /\ m # NONE /\ counter[m] = 0
        BY <1>4, <2>4, <3>2, ReplyBlockStep, ReplyReadyStep
      <3>3. CASE ~ (Owner[sc[c]] = rcap[cur[c]] /\ last_ref(sc[c])) /\ ~ (m # NONE /\ counter[m] = 0)
        BY <1>4, <2>4, <3>3, ReplyReturnStep, ReplyHelpedStep
      <3> QED
        BY <3>1, <3>2, <3>3
    <2> QED
      BY <2>1, <2>2, <2>3, <2>4
  <1> QED
    BY <1>1, <1>2, <1>3, <1>4 DEF Talks

LEMMA KernelStep ==
    ASSUME IInv, NEW c \in CPUs, Kernel(c)
    PROVE  IInv'
  <1> USE DEF scs, ctrs
  <1>1. CASE Pick(c)
    <2>1. CASE \E s \in Ready(c) : /\ place' = [place EXCEPT ![s] = "current"] /\ sc' = [sc EXCEPT ![c] = s]
                                   /\ Goto(c, "activate", Owner[s]) /\ UNCHANGED cur
      BY <1>1, <2>1, PickStep DEF Pick, Ready
    <2>2. CASE sc' = [sc EXCEPT ![c] = NONE] /\ cur' = [cur EXCEPT ![c] = NONE] /\ Goto(c, "idle", NONE) /\ UNCHANGED place
      BY <1>1, <2>2, IdleStep DEF Pick
    <2> QED
      BY <1>1, <2>1, <2>2 DEF Pick
  <1>2. CASE Wake(c)
    BY <1>2, WakeStep DEF Wake
  <1>3. CASE activate(c)
    <2>1. PICK e, n : Activates(c, e, n)
      BY <1>3, ActivateForm
    <2> QED
      BY <2>1, ActivateBlockStep, ActivateRunStep
  <1>4. CASE block_sc(c)
    <2>1. CASE blocked(arg[c])
      BY <1>4, <2>1, SleepStep DEF block_sc
    <2>2. CASE ~ blocked(arg[c])
      BY <1>4, <2>2, AwakeStep DEF block_sc
    <2> QED
      BY <2>1, <2>2
  <1>5. CASE release(c)
    BY <1>5, ReleaseStep
  <1>6. CASE Exit(c)
    <2>1. CASE Goto(c, "user", NONE) /\ UNCHANGED <<cont, place, cur, sc>>
      BY <1>6, <2>1, EnterUserStep DEF Exit, ipc
    <2>2. CASE cont' = [cont EXCEPT ![cur[c]] = ExitCont(c)] /\ schedule(c, "ready")
      <3>1. ExitCont(c) \in Exits
        BY DEF ExitCont, Exits
      <3>2. pc[c] \in {"exit", "run", "user"} /\ (pc[c] = "run" => cont[cur[c]] \in Exits)
        BY <1>6 DEF Exit
      <3> QED
        BY <1>6, <2>2, <3>1, <3>2, PreemptStep DEF Exit
    <2> QED
      BY <1>6, <2>1, <2>2 DEF Exit
  <1>7. CASE Continue(c)
    BY <1>7, TalkForm, TalkStep
  <1> QED
    BY <1>1, <1>2, <1>3, <1>4, <1>5, <1>6, <1>7 DEF Kernel

LEMMA UserStep ==
    ASSUME IInv, NEW c \in CPUs, User(c)
    PROVE  IInv'
  <1> USE DEF scs, ctrs
  <1>1. CASE Call(c) \/ Exception(c) \/ sys_reply(c)
    BY <1>1, TalkForm, TalkStep
  <1>2. CASE Yield(c)
    BY <1>2, PreemptStep DEF Yield, Exits
  <1>3. ASSUME NEW m \in Sms, Up(c, m) PROVE IInv'
    <2>1. CASE smq[m] = <<>>
      BY <1>3, <2>1, UpTokenStep DEF Up
    <2>2. CASE smq[m] # <<>>
      BY <1>3, <2>2, UpWakeStep DEF Up
    <2> QED
      BY <2>1, <2>2
  <1>4. ASSUME NEW m \in Sms, NEW zero \in BOOLEAN, Down(c, m, zero) PROVE IInv'
    <2>1. counter[m] \in Nat
      BY DEF IInv, Types
    <2>2. CASE counter[m] > 0
      <3>1. (IF zero THEN 0 ELSE counter[m] - 1) \in Nat
        BY <2>1, <2>2
      <3>2. counter' = [counter EXCEPT ![m] = IF zero THEN 0 ELSE counter[m] - 1]
        BY <1>4, <2>2 DEF Down
      <3>3. PICK n \in Nat : counter' = [counter EXCEPT ![m] = n]
        BY <3>1, <3>2
      <3> QED
        BY <1>4, <2>2, <3>3, DownTokenStep DEF Down
    <2>3. CASE ~ counter[m] > 0
      <3>1. counter[m] = 0
        BY <2>1, <2>3
      <3> QED
        BY <1>4, <2>3, <3>1, DownQueueStep DEF Down
    <2> QED
      BY <2>2, <2>3
  <1> QED
    BY <1>1, <1>2, <1>3, <1>4 DEF User

LEMMA InitHolds ==
    ASSUME Init
    PROVE  IInv
  <1>1. /\ \A x \in ECs : partner[x] = NONE /\ rcap[x] = NONE
        /\ \A m \in Sms : smq[m] = <<>> /\ counter[m] = 0
        /\ \A c \in CPUs : pc[c] = "schedule"
        /\ \A s \in Scs : place[s] \in {"ready", "off"}
    BY DEF Init
  <1>2. \A x : ~ Queued(x)
    BY <1>1 DEF Queued, Range
  <1>3. Types
    <2>1. \A x \in Globals : Startup[x] \in Locals \cup {NONE}
      BY IpcAssumption
    <2>2. cont \in [ECs -> Conts] /\ dst \in [ECs -> Locals \cup {NONE}]
      BY <2>1, Names DEF Init, Conts, Exits
    <2>3. smq \in [Sms -> Seq(ECs)] /\ counter \in [Sms -> Nat] /\ place \in [Scs -> Places]
      BY DEF Init, Places
    <2> QED
      BY <2>2, <2>3 DEF Init, Types
  <1>4. AtHome
    <2>1. ASSUME NEW x \in ECs, dst[x] # NONE PROVE Home[dst[x]] = Home[x]
      <3>1. x \in Globals /\ dst[x] = Startup[x]
        BY <2>1, Names DEF Init
      <3> QED
        BY <2>1, <3>1, IpcAssumption
    <2> QED
      BY <1>1, <2>1 DEF AtHome
  <1>5. \A x \in Locals : cont[x] = "null" /\ x \in ECs
    BY Names DEF Init
  <1>6. Calls
    BY <1>1, <1>2, <1>5 DEF Calls
  <1>7. Running
    <2>1. ASSUME NEW x \in ECs, cont[x] \in {"sys_call", "send_msg"} PROVE dst[x] # NONE
      BY <2>1, Names DEF Init
    <2> QED
      BY <1>1, <2>1 DEF Running
  <1>8. Acyclic
    <2> DEFINE rank == [x \in ECs |-> 0]
    <2>1. Ranked(rank)
      BY <1>1 DEF Ranked
    <2> QED
      BY <2>1 DEF Acyclic
  <1>9. Linked /\ Waiters
    BY <1>1, Names DEF Linked, Waiters
  <1>10. TokensUsed
    BY <1>1 DEF TokensUsed, Range, IsInjective
  <1>11. NoOrphanedCall
    BY <1>1, Names DEF NoOrphanedCall
  <1> QED
    BY <1>3, <1>4, <1>6, <1>7, <1>8, <1>9, <1>10, <1>11 DEF IInv

LEMMA StepKeeps ==
    ASSUME IInv, [Next]_vars
    PROVE  IInv'
  <1>1. CASE UNCHANGED vars
    <2>1. /\ cont' = cont /\ partner' = partner /\ rcap' = rcap /\ dst' = dst /\ smq' = smq /\ counter' = counter
          /\ place' = place /\ cur' = cur /\ sc' = sc /\ pc' = pc /\ arg' = arg /\ ctr_link' = ctr_link
      BY <1>1 DEF vars, ipc, sms, scs, cpu, ctrs
    <2>2. Types' /\ AtHome' /\ Acyclic' /\ TokensUsed' /\ NoOrphanedCall'
      BY <2>1, ZenonT(60) DEF IInv, Types, AtHome, Acyclic, Ranked, TokensUsed, NoOrphanedCall
    <2>3. Calls' /\ Running' /\ Waiters'
      BY <2>1, SameQueues DEF IInv, Calls, Running, Waiters
    <2>4. Linked'
      BY <2>1 DEF IInv, Linked, Chain, Top
    <2> QED
      BY <2>2, <2>3, <2>4 DEF IInv
  <1>2. CASE Next
    BY <1>2, KernelStep, UserStep, RevokeStep DEF Next
  <1> QED
    BY <1>1, <1>2

\* The inductive invariant holds in every state of the specification.
THEOREM Invariance == Spec => []IInv
  <1>1. Init => IInv
    BY InitHolds
  <1>2. IInv /\ [Next]_vars => IInv'
    BY StepKeeps
  <1> QED
    BY <1>1, <1>2, PTL DEF Spec

\* Ec::set_partner and Ec::clr_partner, through calls, helping, replies, deaths
\* and revocation on all CPUs, leave the two ends of every call in agreement;
\* the loop of Ec::activate along partner ends; and no local EC is in user space
\* without a caller to reply to.
THEOREM CallChainsHold == Spec => []CallChains
  <1>1. ASSUME IInv PROVE CallChains
    <2> SUFFICES ASSUME NEW e \in ECs
                 PROVE  /\ partner[e] # NONE => rcap[partner[e]] = e /\ cont[partner[e]] # "null"
                        /\ rcap[e] # NONE => partner[rcap[e]] = e
                        /\ Walk(e)[Cardinality(ECs)] = NONE
                        /\ \A c \in CPUs : pc[c] = "user" /\ cur[c] = e /\ e \in Locals => rcap[e] # NONE
      BY DEF CallChains
    <2>1. Walk(e)[Cardinality(ECs)] = NONE
      BY <1>1, WalkEnds DEF IInv, N
    <2>2. /\ partner[e] # NONE => rcap[partner[e]] = e /\ cont[partner[e]] # "null"
          /\ rcap[e] # NONE => partner[rcap[e]] = e
      BY <1>1 DEF IInv, Calls
    <2>3. \A c \in CPUs : pc[c] = "user" /\ cur[c] = e /\ e \in Locals => rcap[e] # NONE
      BY <1>1 DEF IInv, Running
    <2> QED
      BY <2>1, <2>2, <2>3
  <1> QED
    BY <1>1, Invariance, PTL

\* Between the critical section of Sm::dn and that of Ec::block_sc, Sm::up and
\* Ec::release of another CPU lose no wakeup; a token is never left while an EC
\* waits, and no EC is in two queues or twice in one.
THEOREM SemaphoreIsSound == Spec => []SemaphoreSound
  <1>1. IInv => SemaphoreSound
    BY DEF IInv, Waiters, SemaphoreSound, NoLostWakeup, blocked
  <1> QED
    BY <1>1, Invariance, PTL

\* Destroying SCs, in Ec::reply, Ec::release or on revocation, never leaves a
\* server with a caller that no SC runs any more.
THEOREM NoCallIsOrphaned == Spec => []NoOrphanedCall
  <1>1. IInv => NoOrphanedCall
    BY DEF IInv
  <1> QED
    BY <1>1, Invariance, PTL
=============================================================================

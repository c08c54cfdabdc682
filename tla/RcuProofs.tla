----------------------------- MODULE RcuProofs -----------------------------
(***************************************************************************)
(* Proofs about Rcu, for every number of CPUs and objects, as long as the  *)
(* lists are too short for HZD_IDL: an idle CPU that is prodded reports    *)
(* without having noticed the batch, and then count is no longer exact.    *)
(***************************************************************************)
EXTENDS Rcu, FiniteSetTheorems, TLAPS

\* No list can exceed the threshold at which idle CPUs are prodded.
ShortLists == Cardinality(Elems) <= AccelThreshold

NoIdl == \A c \in CPUs : "IDL" \notin hazard[c]

\* A CPU is at most one batch behind, and only reports for the current one.
Noticed ==
    \A c \in CPUs :
        /\ l_batch[c] = batch \/ l_batch[c] + 1 = batch
        /\ pc[c] = "quiet" => l_batch[c] = batch /\ "RCU" \notin hazard[c]
        /\ "RCU" \in hazard[c] => l_batch[c] = batch

NobodyOwes == \A c \in CPUs : ~Owing(c)

\* A CPU that saw count fall to 0 and has not said so yet.
Reporter(c) == pc[c] = "start_batch" /\ arg[c] = "CMP"

Reported ==
    /\ "CMP" \in flags => NobodyOwes
    /\ \A c \in CPUs : Reporter(c) =>
           /\ "CMP" \notin flags /\ NobodyOwes
           /\ \A d \in CPUs : Reporter(d) => d = c

Starter(c) == pc[c] \in {"set_count", "next_batch"}

OneStarter ==
    \A c \in CPUs : Starter(c) =>
        /\ flags = {"PND", "CMP"}
        /\ \A d \in CPUs : Starter(d) => d = c

OwingSet == {c \in CPUs : Owing(c)}

CountRight ==
    /\ (\A c \in CPUs : pc[c] # "next_batch") => count = Cardinality(OwingSet)
    /\ (\E c \in CPUs : pc[c] = "next_batch") => count = Cardinality(CPUs)

\* The bookkeeping of batches.
Counting == NoIdl /\ Noticed /\ Reported /\ OneStarter /\ CountRight

\* CPU d has been quiescent in the current batch.
Passed(d) == l_batch[d] = batch /\ "RCU" \notin hazard[d]

\* The objects that wait for a batch: who has passed it has been seen.
Grace ==
    \A c \in CPUs :
        /\ \A e \in curr[c] : batch = c_batch[c] =>
               \A d \in CPUs : Passed(d) => d \notin unseen[e]
        /\ \A e \in curr[c] : batch > c_batch[c] => unseen[e] = {}
        /\ \A e \in done[c] : unseen[e] = {}
        /\ \A e \in next[c] :
               pc[c] \in {"update_curr", "update_next"} /\ batch = l_batch[c] + 1 =>
                   \A d \in CPUs : Passed(d) => d \notin unseen[e]

IInv == TypeOK /\ OnOneList /\ Counting /\ Grace /\ GraceElapsed

-----------------------------------------------------------------------------
(* Types and lists.                                                        *)

LEMMA CpuCount ==
    /\ Cardinality(CPUs) \in Nat /\ Cardinality(CPUs) < WordMod
    /\ WordMod \in Nat /\ WordMod > 0
  BY RcuAssumption, FS_CardinalityType

LEMMA InitIInv == Init => IInv
  <1> SUFFICES ASSUME Init PROVE IInv
    OBVIOUS
  <1>1. TypeOK
    BY CpuCount DEF Init, TypeOK, Locations
  <1>2. OnOneList
    BY DEF Init, OnOneList
  <1>3. NobodyOwes /\ OwingSet = {}
    BY DEF Init, NobodyOwes, Owing, OwingSet
  <1>4. Counting
    <2>1. NoIdl /\ Noticed /\ Reported /\ OneStarter
      BY <1>3 DEF Init, NoIdl, Noticed, Reported, Reporter, OneStarter, Starter
    <2>2. CountRight
      BY <1>3, FS_EmptySet DEF Init, CountRight
    <2> QED
      BY <2>1, <2>2 DEF Counting
  <1>5. Grace /\ GraceElapsed
    BY DEF Init, Grace, GraceElapsed
  <1> QED
    BY <1>1, <1>2, <1>4, <1>5 DEF IInv

\* A list is no longer than all objects together.
LEMMA ListLength ==
    ASSUME NEW S \in SUBSET Elems
    PROVE  Cardinality(S) <= Cardinality(Elems)
  BY RcuAssumption, FS_Subset, FS_CardinalityType

LEMMA TypeStep ==
    ASSUME TypeOK, [Next]_vars
    PROVE  TypeOK'
  <1> USE DEF TypeOK, Locations
  <1>1. CASE UNCHANGED vars
    BY <1>1 DEF vars
  <1>2. ASSUME NEW c \in CPUs, Enter(c) PROVE TypeOK'
    BY <1>2 DEF Enter, Goto, shared, local, ghost
  <1>3. ASSUME NEW c \in CPUs, NEW k \in {"user", "idle"}, handle_hazards(c, k) PROVE TypeOK'
    BY <1>3 DEF handle_hazards, Goto, shared, local
  <1>4. ASSUME NEW c \in CPUs, NEW e \in Elems, call(c, e) PROVE TypeOK'
    BY <1>4 DEF call, shared
  <1>5. ASSUME NEW c \in CPUs, update(c) PROVE TypeOK'
    BY <1>5 DEF update, Goto, shared, ghost
  <1>6. ASSUME NEW c \in CPUs, quiet(c) PROVE TypeOK'
    <2>1. (count - 1) % WordMod \in 0..(WordMod - 1)
      BY CpuCount
    <2> QED
      BY <1>6, <2>1 DEF quiet, Goto, local, ghost
  <1>7. ASSUME NEW c \in CPUs, start_batch(c) PROVE TypeOK'
    <2>1. StartBatchReturn(c) \in Locations
      BY DEF StartBatchReturn
    <2>2. flags' \subseteq {"PND", "CMP"}
      BY <1>7 DEF start_batch
    <2>3. pc' \in [CPUs -> Locations]
      BY <1>7, <2>1 DEF start_batch, Goto
    <2> QED
      BY <1>7, <2>2, <2>3 DEF start_batch, local, ghost
  <1>8. ASSUME NEW c \in CPUs, set_count(c) PROVE TypeOK'
    BY <1>8, CpuCount DEF set_count, Goto, local, ghost
  <1>9. ASSUME NEW c \in CPUs, next_batch(c) PROVE TypeOK'
    BY <1>9 DEF next_batch, StartBatchReturn, Goto, local, ghost
  <1>10. ASSUME NEW c \in CPUs, update_curr(c) PROVE TypeOK'
    BY <1>10 DEF update_curr, Goto, shared, ghost
  <1>11. ASSUME NEW c \in CPUs, update_next(c) PROVE TypeOK'
    BY <1>11 DEF update_next, Goto, shared, ghost
  <1>12. ASSUME NEW c \in CPUs, update_accel(c) PROVE TypeOK'
    BY <1>12 DEF update_accel, Goto, shared, local, ghost
  <1>13. ASSUME NEW c \in CPUs, invoke_batch(c) PROVE TypeOK'
    BY <1>13 DEF invoke_batch, Goto, shared
  <1> HIDE DEF TypeOK
  <1> QED
    BY <1>1, <1>2, <1>3, <1>4, <1>5, <1>6, <1>7, <1>8, <1>9, <1>10, <1>11, <1>12, <1>13
    DEF Next, Step

\* An object is on one list at a time.
LEMMA ListStep ==
    ASSUME TypeOK, OnOneList, [Next]_vars
    PROVE  OnOneList'
  <1> USE DEF TypeOK
  <1>1. CASE UNCHANGED <<next, curr, done, estate>>
    BY <1>1 DEF OnOneList
  <1>2. ASSUME NEW c \in CPUs, NEW e \in Elems, call(c, e) PROVE OnOneList'
    BY <1>2 DEF call, OnOneList
  <1>3. ASSUME NEW c \in CPUs, update_curr(c) PROVE OnOneList'
    <2>1. CASE UNCHANGED <<done, curr>>
      BY <1>3, <2>1 DEF update_curr, ghost, OnOneList
    <2>2. CASE /\ done' = [done EXCEPT ![c] = @ \cup curr[c]]
               /\ curr' = [curr EXCEPT ![c] = {}]
      BY <1>3, <2>2 DEF update_curr, ghost, OnOneList
    <2> QED
      BY <1>3, <2>1, <2>2 DEF update_curr
  <1>4. ASSUME NEW c \in CPUs, update_next(c) PROVE OnOneList'
    <2>1. CASE UNCHANGED <<curr, next>>
      BY <1>4, <2>1 DEF update_next, ghost, OnOneList
    <2>2. CASE /\ curr[c] = {}
               /\ curr' = [curr EXCEPT ![c] = next[c]]
               /\ next' = [next EXCEPT ![c] = {}]
      BY <1>4, <2>2 DEF update_next, ghost, OnOneList
    <2> QED
      BY <1>4, <2>1, <2>2 DEF update_next
  <1>5. ASSUME NEW c \in CPUs, invoke_batch(c) PROVE OnOneList'
    BY <1>5 DEF invoke_batch, OnOneList
  <1> HIDE DEF TypeOK
  <1>6. CASE UNCHANGED vars
    BY <1>1, <1>6 DEF vars
  <1>7. ASSUME NEW c \in CPUs, NEW k \in {"user", "idle"}, handle_hazards(c, k) PROVE OnOneList'
    BY <1>1, <1>7 DEF handle_hazards, local
  <1>8. ASSUME NEW c \in CPUs, Enter(c) \/ update(c) \/ quiet(c) \/ start_batch(c) \/ set_count(c)
                                 \/ next_batch(c) \/ update_accel(c)
        PROVE OnOneList'
    BY <1>1, <1>8 DEF Enter, update, quiet, start_batch, set_count, next_batch, update_accel,
                      local, ghost
  <1> QED
    BY <1>2, <1>3, <1>4, <1>5, <1>6, <1>7, <1>8 DEF Next, Step

-----------------------------------------------------------------------------
(* Batches.                                                                *)

LEMMA OwingFinite ==
    /\ IsFiniteSet(OwingSet) /\ Cardinality(OwingSet) \in Nat
    /\ Cardinality(OwingSet) <= Cardinality(CPUs)
    /\ Cardinality(OwingSet) = 0 <=> OwingSet = {}
  BY RcuAssumption, FS_Subset, FS_CardinalityType, FS_EmptySet DEF OwingSet

\* Steps that leave the shared words and the batch of every CPU alone, and do
\* not enter or leave start_batch or quiet().
LEMMA CountingFrame ==
    ASSUME TypeOK, Counting, NEW c \in CPUs, NEW l \in Locations,
           pc' = [pc EXCEPT ![c] = l],
           l \notin {"quiet", "start_batch", "set_count", "next_batch"},
           pc[c] \notin {"quiet", "start_batch", "set_count", "next_batch"},
           \A d \in CPUs \ {c} : arg'[d] = arg[d],
           UNCHANGED <<batch, flags, count, l_batch, hazard>>
    PROVE  Counting'
  <1> USE DEF TypeOK, Counting
  <1>1. \A d \in CPUs : Owing(d)' = Owing(d)
    BY DEF Owing
  <1>2. OwingSet' = OwingSet /\ NobodyOwes' = NobodyOwes
    BY <1>1 DEF OwingSet, NobodyOwes
  <1>3. NoIdl' /\ Noticed'
    BY DEF NoIdl, Noticed
  <1>4. \A d \in CPUs : (Reporter(d)' = Reporter(d)) /\ (Starter(d)' = Starter(d))
    BY DEF Reporter, Starter
  <1>5. Reported' /\ OneStarter'
    BY <1>2, <1>4 DEF Reported, OneStarter
  <1>6. CountRight'
    BY <1>2 DEF CountRight
  <1> QED
    BY <1>3, <1>5, <1>6

\* Leaving the kernel: whoever has HZD_RCU set is about to report instead.
LEMMA HazardCounting ==
    ASSUME TypeOK, Counting, NEW c \in CPUs, NEW k \in {"user", "idle"}, handle_hazards(c, k)
    PROVE  Counting'
  <1> USE DEF TypeOK, Counting
  <1>1. /\ batch' = batch /\ flags' = flags /\ count' = count /\ l_batch' = l_batch /\ arg' = arg
        /\ hazard' = [hazard EXCEPT ![c] = {}]
        /\ pc[c] \in {"kernel", "idle"}
        /\ pc' = [pc EXCEPT ![c] = IF "RCU" \in hazard[c] THEN "quiet" ELSE k]
    BY DEF handle_hazards, Goto, shared, local, NoIdl
  <1>2. \A d \in CPUs : Owing(d)' = Owing(d)
    BY <1>1 DEF Owing
  <1>3. OwingSet' = OwingSet /\ NobodyOwes' = NobodyOwes
    BY <1>2 DEF OwingSet, NobodyOwes
  <1>4. NoIdl' /\ Noticed'
    BY <1>1 DEF NoIdl, Noticed
  <1>5. \A d \in CPUs : /\ Reporter(d)' = Reporter(d) /\ Starter(d)' = Starter(d)
                        /\ pc'[d] = "next_batch" <=> pc[d] = "next_batch"
    BY <1>1 DEF Reporter, Starter
  <1>6. Reported' /\ OneStarter'
    BY <1>1, <1>3, <1>5 DEF Reported, OneStarter
  <1>7. CountRight'
    BY <1>1, <1>3, <1>5 DEF CountRight
  <1> QED
    BY <1>4, <1>6, <1>7

\* update() on a CPU that is behind makes it owe for another reason.
LEMMA UpdateCounting ==
    ASSUME TypeOK, Counting, NEW c \in CPUs, update(c)
    PROVE  Counting'
  <1> USE DEF TypeOK, Counting
  <1>1. /\ batch' = batch /\ flags' = flags /\ count' = count /\ arg' = arg
        /\ l_batch' = [l_batch EXCEPT ![c] = batch]
        /\ hazard' = [hazard EXCEPT ![c] = IF l_batch[c] # batch THEN @ \cup {"RCU"} ELSE @]
        /\ pc[c] = "kernel" /\ pc' = [pc EXCEPT ![c] = "update_curr"]
    BY DEF update, Goto, shared
  <1>2. \A d \in CPUs : Owing(d)' = Owing(d)
    BY <1>1 DEF Owing
  <1>3. OwingSet' = OwingSet /\ NobodyOwes' = NobodyOwes
    BY <1>2 DEF OwingSet, NobodyOwes
  <1>4. NoIdl' /\ Noticed'
    BY <1>1 DEF NoIdl, Noticed
  <1>5. \A d \in CPUs : /\ Reporter(d)' = Reporter(d) /\ Starter(d)' = Starter(d)
                        /\ pc'[d] = "next_batch" <=> pc[d] = "next_batch"
    BY <1>1 DEF Reporter, Starter
  <1>6. Reported' /\ OneStarter'
    BY <1>1, <1>3, <1>5 DEF Reported, OneStarter
  <1>7. CountRight'
    BY <1>1, <1>3, <1>5 DEF CountRight
  <1> QED
    BY <1>4, <1>6, <1>7

\* Reporting: count was at least 1, and the last one goes on to start_batch.
LEMMA QuietCounting ==
    ASSUME TypeOK, Counting, NEW c \in CPUs, quiet(c)
    PROVE  Counting'
  <1> USE DEF TypeOK, Counting
  <1>1. /\ batch' = batch /\ flags' = flags /\ l_batch' = l_batch /\ hazard' = hazard
        /\ pc[c] = "quiet" /\ count' = (count - 1) % WordMod
        /\ arg' = [arg EXCEPT ![c] = "CMP"]
        /\ pc' = [pc EXCEPT ![c] = IF count' = 0 THEN "start_batch" ELSE kind[c]]
    BY DEF quiet, Goto, local
  <1>2. Owing(c) /\ "CMP" \notin flags /\ \A d \in CPUs : ~Reporter(d) /\ ~Starter(d)
    BY <1>1 DEF Owing, Reported, NobodyOwes, OneStarter
  <1>3. count = Cardinality(OwingSet)
    BY <1>2 DEF CountRight, Starter
  <1>4. /\ c \in OwingSet /\ OwingSet' = OwingSet \ {c}
        /\ ~Owing(c)' /\ \A d \in CPUs \ {c} : Owing(d)' = Owing(d)
    BY <1>1, <1>2 DEF OwingSet, Owing, Noticed
  <1>5. Cardinality(OwingSet') = Cardinality(OwingSet) - 1
    BY <1>4, OwingFinite, FS_RemoveElement
  <1>6. count > 0 /\ count < WordMod
    BY <1>3, <1>4, OwingFinite, CpuCount
  <1>7. count' = count - 1
    BY <1>1, <1>6, CpuCount
  <1>8. count' = Cardinality(OwingSet')
    BY <1>3, <1>5, <1>7
  <1>9. NoIdl' /\ Noticed'
    BY <1>1 DEF NoIdl, Noticed
  <1>10. \A d \in CPUs : ~Starter(d)' /\ (Reporter(d)' => d = c /\ count' = 0)
    BY <1>1, <1>2 DEF Starter, Reporter
  <1>11. count' = 0 => NobodyOwes'
    <2>1. IsFiniteSet(OwingSet') 
      BY <1>4, OwingFinite, FS_RemoveElement
    <2>2. count' = 0 => OwingSet' = {}
      BY <1>8, <2>1, FS_EmptySet
    <2> QED
      BY <2>2 DEF NobodyOwes, OwingSet
  <1>12. Reported' /\ OneStarter'
    BY <1>1, <1>2, <1>10, <1>11 DEF Reported, OneStarter
  <1>13. CountRight'
    BY <1>8, <1>10 DEF CountRight, Starter
  <1> QED
    BY <1>9, <1>12, <1>13

\* Setting a flag: CMP is set by the one reporter, and whoever sets the second
\* flag finds no other starter, as a starter has both set.
LEMMA StartCounting ==
    ASSUME TypeOK, Counting, NEW c \in CPUs, start_batch(c)
    PROVE  Counting'
  <1> USE DEF TypeOK, Counting
  <1>1. /\ batch' = batch /\ count' = count /\ l_batch' = l_batch /\ hazard' = hazard /\ arg' = arg
        /\ pc[c] = "start_batch"
    BY DEF start_batch, local
  <1>2. PICK l \in {"user", "idle", "update_accel", "set_count"} :
            /\ pc' = [pc EXCEPT ![c] = l]
            /\ \/ l # "set_count" /\ flags' = flags
               \/ arg[c] \notin flags /\ flags' = flags \cup {arg[c]} /\ l = "set_count" /\ flags # {}
               \/ arg[c] \notin flags /\ flags' = flags \cup {arg[c]} /\ l # "set_count"
    BY DEF start_batch, StartBatchReturn, Goto
  <1>3. \A d \in CPUs : Owing(d)' = Owing(d)
    BY <1>1, <1>2 DEF Owing
  <1>4. OwingSet' = OwingSet /\ NobodyOwes' = NobodyOwes
    BY <1>3 DEF OwingSet, NobodyOwes
  <1>5. NoIdl' /\ Noticed'
    BY <1>1, <1>2 DEF NoIdl, Noticed
  <1>6. \A d \in CPUs : /\ Reporter(d)' => d # c /\ Reporter(d)
                        /\ Starter(d)' => Starter(d) \/ (d = c /\ l = "set_count")
                        /\ pc'[d] = "next_batch" <=> pc[d] = "next_batch"
    BY <1>1, <1>2 DEF Reporter, Starter
  <1>7. arg[c] = "CMP" => Reporter(c)
    BY <1>1 DEF Reporter
  <1>8. "CMP" \in flags' => "CMP" \in flags \/ Reporter(c)
    BY <1>2, <1>7
  <1>9. Reported'
    <2>1. "CMP" \in flags' => NobodyOwes'
      BY <1>4, <1>8 DEF Reported
    <2>2. ASSUME NEW d \in CPUs, Reporter(d)'
          PROVE  "CMP" \notin flags' /\ NobodyOwes' /\ \A x \in CPUs : Reporter(x)' => x = d
      BY <2>2, <1>4, <1>6, <1>8 DEF Reported
    <2> QED
      BY <2>1, <2>2 DEF Reported
  <1>10. OneStarter'
    <2>1. CASE \E d \in CPUs : Starter(d)
      <3>1. l # "set_count" /\ flags' = flags
        BY <2>1, <1>2 DEF OneStarter
      <3> QED
        BY <3>1, <1>6 DEF OneStarter
    <2>2. CASE \A d \in CPUs : ~Starter(d)
      <3>1. ASSUME l = "set_count" PROVE flags' = {"PND", "CMP"}
        <4>1. /\ flags \subseteq {"PND", "CMP"} /\ arg[c] \in {"PND", "CMP"}
              /\ arg[c] \notin flags /\ flags # {} /\ flags' = flags \cup {arg[c]}
          BY <1>2, <3>1
        <4>2. CASE arg[c] = "PND"
          <5>1. flags = {"CMP"}
            BY <4>1, <4>2
          <5> QED
            BY <4>1, <4>2, <5>1
        <4>3. CASE arg[c] = "CMP"
          <5>1. flags = {"PND"}
            BY <4>1, <4>3
          <5> QED
            BY <4>1, <4>3, <5>1
        <4> QED
          BY <4>1, <4>2, <4>3
      <3> QED
        BY <2>2, <3>1, <1>6 DEF OneStarter
    <2> QED
      BY <2>1, <2>2
  <1>11. CountRight'
    BY <1>1, <1>4, <1>6 DEF CountRight
  <1> QED
    BY <1>5, <1>9, <1>10, <1>11

\* count = Cpu::online, by the one starter.
LEMMA SetCountCounting ==
    ASSUME TypeOK, Counting, NEW c \in CPUs, set_count(c)
    PROVE  Counting'
  <1> USE DEF TypeOK, Counting
  <1>1. /\ batch' = batch /\ flags' = flags /\ l_batch' = l_batch /\ hazard' = hazard /\ arg' = arg
        /\ count' = Cardinality(CPUs)
        /\ pc[c] = "set_count" /\ pc' = [pc EXCEPT ![c] = "next_batch"]
    BY DEF set_count, Goto, local
  <1>2. \A d \in CPUs : Owing(d)' = Owing(d)
    BY <1>1 DEF Owing
  <1>3. NobodyOwes' = NobodyOwes
    BY <1>2 DEF NobodyOwes
  <1>4. NoIdl' /\ Noticed'
    BY <1>1 DEF NoIdl, Noticed
  <1>5. \A d \in CPUs : Reporter(d)' = Reporter(d) /\ Starter(d)' = Starter(d)
    BY <1>1 DEF Reporter, Starter
  <1>6. Reported' /\ OneStarter'
    BY <1>1, <1>3, <1>5 DEF Reported, OneStarter
  <1>7. CountRight'
    BY <1>1 DEF CountRight
  <1> QED
    BY <1>4, <1>6, <1>7

\* state++: CMP was set, so everybody was up to date, and now everybody owes.
LEMMA NextBatchCounting ==
    ASSUME TypeOK, Counting, NEW c \in CPUs, next_batch(c)
    PROVE  Counting'
  <1> USE DEF TypeOK, Counting
  <1>1. /\ batch' = batch + 1 /\ flags' = {} /\ count' = count
        /\ l_batch' = l_batch /\ hazard' = hazard /\ arg' = arg
        /\ pc[c] = "next_batch" /\ pc'[c] \in {"user", "idle", "update_accel"}
        /\ \A d \in CPUs \ {c} : pc'[d] = pc[d]
    BY DEF next_batch, StartBatchReturn, Goto, local
  <1>2. Starter(c) /\ NobodyOwes /\ "CMP" \in flags
    BY <1>1 DEF Starter, OneStarter, Reported
  <1>3. \A d \in CPUs : /\ l_batch[d] = batch /\ "RCU" \notin hazard[d] /\ pc[d] # "quiet"
                        /\ ~Reporter(d) /\ (Starter(d) => d = c)
    BY <1>2 DEF NobodyOwes, Owing, Reported, OneStarter
  <1>4. NoIdl' /\ Noticed'
    BY <1>1, <1>3 DEF NoIdl, Noticed
  <1>5. \A d \in CPUs : Owing(d)' /\ ~Reporter(d)' /\ ~Starter(d)'
    BY <1>1, <1>3 DEF Owing, Reporter, Starter
  <1>6. Reported' /\ OneStarter'
    BY <1>1, <1>5 DEF Reported, OneStarter
  <1>7. OwingSet' = CPUs
    BY <1>5 DEF OwingSet
  <1>8. CountRight'
    BY <1>1, <1>5, <1>7 DEF CountRight, Starter
  <1> QED
    BY <1>4, <1>6, <1>8

\* update() asks for a batch: a starter, not a reporter.
LEMMA UpdateNextCounting ==
    ASSUME TypeOK, Counting, NEW c \in CPUs, update_next(c)
    PROVE  Counting'
  <1>1. CASE Goto(c, "update_accel") /\ UNCHANGED arg
    BY <1>1, CountingFrame DEF update_next, Goto, shared, Locations
  <1>2. CASE Goto(c, "start_batch") /\ arg' = [arg EXCEPT ![c] = "PND"]
    <2> USE DEF TypeOK, Counting
    <2>1. /\ batch' = batch /\ flags' = flags /\ count' = count /\ l_batch' = l_batch
          /\ hazard' = hazard /\ pc[c] = "update_next" /\ pc' = [pc EXCEPT ![c] = "start_batch"]
          /\ arg' = [arg EXCEPT ![c] = "PND"]
      BY <1>2 DEF update_next, Goto, shared
    <2>2. \A d \in CPUs : Owing(d)' = Owing(d)
      BY <2>1 DEF Owing
    <2>3. OwingSet' = OwingSet /\ NobodyOwes' = NobodyOwes
      BY <2>2 DEF OwingSet, NobodyOwes
    <2>4. NoIdl' /\ Noticed'
      BY <2>1 DEF NoIdl, Noticed
    <2>5. \A d \in CPUs : /\ Reporter(d)' = Reporter(d) /\ Starter(d)' = Starter(d)
                          /\ pc'[d] = "next_batch" <=> pc[d] = "next_batch"
      BY <2>1 DEF Reporter, Starter
    <2>6. Reported' /\ OneStarter'
      BY <2>1, <2>3, <2>5 DEF Reported, OneStarter
    <2>7. CountRight'
      BY <2>1, <2>3, <2>5 DEF CountRight
    <2> QED
      BY <2>4, <2>6, <2>7
  <1> QED
    BY <1>1, <1>2 DEF update_next

\* The lists are short, so nobody is prodded.
LEMMA AccelQuiet ==
    ASSUME ShortLists, TypeOK, NEW c \in CPUs, update_accel(c)
    PROVE  hazard' = hazard
  <1>1. curr[c] \in SUBSET Elems /\ next[c] \in SUBSET Elems
    BY DEF TypeOK
  <1>2. /\ Cardinality(curr[c]) <= Cardinality(Elems) /\ Cardinality(next[c]) <= Cardinality(Elems)
        /\ Cardinality(curr[c]) \in Nat /\ Cardinality(next[c]) \in Nat
        /\ Cardinality(Elems) \in Nat /\ AccelThreshold \in Nat
    BY <1>1, ListLength, RcuAssumption, FS_Subset, FS_CardinalityType
  <1>3. ~(Cardinality(next[c]) > AccelThreshold) /\ ~(Cardinality(curr[c]) > AccelThreshold)
    BY <1>2 DEF ShortLists
  <1> QED
    BY <1>3 DEF update_accel

LEMMA CountingStep ==
    ASSUME ShortLists, TypeOK, Counting, [Next]_vars
    PROVE  Counting'
  <1>1. CASE UNCHANGED vars
    BY <1>1 DEF vars, Counting, NoIdl, Noticed, Reported, NobodyOwes, Owing, Reporter, OneStarter,
                Starter, CountRight, OwingSet
  <1>2. ASSUME NEW c \in CPUs, Enter(c) PROVE Counting'
    BY <1>2, CountingFrame DEF Enter, Goto, shared, local, Locations
  <1>3. ASSUME NEW c \in CPUs, NEW e \in Elems, call(c, e) PROVE Counting'
    <2>1. pc' = [pc EXCEPT ![c] = "kernel"]
      BY <1>3 DEF call, TypeOK
    <2> QED
      BY <1>3, <2>1, CountingFrame DEF call, shared, Locations
  <1>4. ASSUME NEW c \in CPUs, update_curr(c) PROVE Counting'
    BY <1>4, CountingFrame DEF update_curr, Goto, shared, Locations
  <1>5. ASSUME NEW c \in CPUs, update_accel(c) PROVE Counting'
    BY <1>5, CountingFrame, AccelQuiet DEF update_accel, Goto, shared, local, Locations
  <1>6. ASSUME NEW c \in CPUs, invoke_batch(c) PROVE Counting'
    <2>1. \A d \in CPUs \ {c} : arg'[d] = arg[d]
      BY <1>6 DEF invoke_batch, TypeOK
    <2> QED
      BY <1>6, <2>1, CountingFrame DEF invoke_batch, Goto, shared, Locations
  <1> QED
    BY <1>1, <1>2, <1>3, <1>4, <1>5, <1>6, HazardCounting, UpdateCounting, QuietCounting,
       StartCounting, SetCountCounting, NextBatchCounting, UpdateNextCounting
    DEF Next, Step

-----------------------------------------------------------------------------
(* Grace periods.                                                          *)

\* Nobody owes: whoever is not seen yet was never waited for.
LEMMA AllPassed ==
    ASSUME NobodyOwes, NEW d \in CPUs
    PROVE  Passed(d)
  BY DEF NobodyOwes, Owing, Passed

\* Steps that leave lists, batches and hazards alone and do not enter update().
LEMMA GraceFrame ==
    ASSUME TypeOK, Grace, NEW c \in CPUs, NEW l \in Locations \ {"update_curr", "update_next"},
           pc' = [pc EXCEPT ![c] = l],
           UNCHANGED <<batch, l_batch, c_batch, next, curr, done, hazard, unseen>>
    PROVE  Grace'
  <1>1. \A d \in CPUs : Passed(d)' = Passed(d)
    BY DEF Passed
  <1> QED
    BY <1>1 DEF Grace, TypeOK

LEMMA HazardGrace ==
    ASSUME TypeOK, Grace, NEW c \in CPUs, NEW k \in {"user", "idle"}, handle_hazards(c, k)
    PROVE  Grace'
  <1>1. /\ UNCHANGED <<batch, l_batch, c_batch, next, curr, done>>
        /\ hazard' = [hazard EXCEPT ![c] = {}]
        /\ unseen' = [e \in Elems |-> unseen[e] \ {c}]
        /\ pc'[c] \notin {"update_curr", "update_next"}
        /\ \A d \in CPUs \ {c} : pc'[d] = pc[d]
    BY DEF handle_hazards, Goto, shared, local, TypeOK
  <1>2. \A d \in CPUs \ {c} : Passed(d)' = Passed(d)
    BY <1>1 DEF Passed, TypeOK
  <1>3. \A e \in Elems : /\ c \notin unseen'[e] /\ unseen'[e] \subseteq unseen[e]
    BY <1>1
  <1>4. \A d \in CPUs : curr[d] \subseteq Elems /\ done[d] \subseteq Elems /\ next[d] \subseteq Elems
    BY DEF TypeOK
  <1> QED
    BY <1>1, <1>2, <1>3, <1>4 DEF Grace

\* A new object is on next only, and its CPU has yet to look at the batch.
LEMMA CallGrace ==
    ASSUME TypeOK, OnOneList, Grace, NEW c \in CPUs, NEW e \in Elems, call(c, e)
    PROVE  Grace'
  <1>1. /\ UNCHANGED <<batch, pc, l_batch, c_batch, curr, done, hazard>>
        /\ next' = [next EXCEPT ![c] = @ \cup {e}]
        /\ unseen' = [unseen EXCEPT ![e] = CPUs]
        /\ pc[c] = "kernel" /\ estate[e] = "live"
    BY DEF call, shared
  <1>2. \A d \in CPUs : Passed(d)' = Passed(d)
    BY <1>1 DEF Passed
  <1>3. \A d \in CPUs : e \notin curr[d] /\ e \notin done[d] /\ e \notin next[d]
    BY <1>1 DEF OnOneList
  <1>4. \A x \in Elems \ {e} : unseen'[x] = unseen[x]
    BY <1>1 DEF TypeOK
  <1>5. \A d \in CPUs : curr[d] \subseteq Elems /\ done[d] \subseteq Elems /\ next[d] \subseteq Elems
    BY DEF TypeOK
  <1>6. \A d \in CPUs \ {c} : next'[d] = next[d]
    BY <1>1 DEF TypeOK
  <1> QED
    BY <1>1, <1>2, <1>3, <1>4, <1>5, <1>6 DEF Grace

\* A CPU that notices a batch has not passed it.
LEMMA UpdateGrace ==
    ASSUME TypeOK, Grace, NEW c \in CPUs, update(c)
    PROVE  Grace'
  <1>1. /\ UNCHANGED <<batch, c_batch, next, curr, done, unseen>>
        /\ l_batch' = [l_batch EXCEPT ![c] = batch]
        /\ hazard' = [hazard EXCEPT ![c] = IF l_batch[c] # batch THEN @ \cup {"RCU"} ELSE @]
        /\ \A d \in CPUs \ {c} : pc'[d] = pc[d]
    BY DEF update, Goto, shared, ghost, TypeOK
  <1>2. \A d \in CPUs : Passed(d)' => Passed(d)
    BY <1>1 DEF Passed, TypeOK
  <1>3. l_batch'[c] = batch /\ batch \in Nat /\ \A d \in CPUs \ {c} : l_batch'[d] = l_batch[d]
    BY <1>1 DEF TypeOK
  <1>4. batch # l_batch'[c] + 1
    BY <1>3
  <1> QED
    BY <1>1, <1>2, <1>3, <1>4 DEF Grace

\* Everybody has passed the batch that ends.
LEMMA NextBatchGrace ==
    ASSUME TypeOK, Counting, Grace, NEW c \in CPUs, next_batch(c)
    PROVE  Grace'
  <1>1. /\ UNCHANGED <<l_batch, c_batch, next, curr, done, hazard, unseen>> /\ batch' = batch + 1
    BY DEF next_batch, local, ghost
  <1>2. NobodyOwes
    BY DEF next_batch, Counting, Starter, OneStarter, Reported
  <1>3. \A d \in CPUs : Passed(d) /\ l_batch[d] = batch
    BY <1>2, AllPassed DEF Passed
  <1>4. \A d \in CPUs : ~Passed(d)'
    BY <1>1, <1>3 DEF Passed, TypeOK
  <1>5. \A d \in CPUs : \A e \in curr[d] : batch = c_batch[d] => unseen[e] = {}
    BY <1>3 DEF Grace, TypeOK
  <1>6. \A d \in CPUs : c_batch[d] \in Nat /\ batch \in Nat
    BY DEF TypeOK
  <1>7. \A d \in CPUs : batch' > c_batch'[d] => batch > c_batch[d] \/ batch = c_batch[d]
    BY <1>1, <1>6
  <1>8. \A d \in CPUs : \A e \in curr'[d] : batch' > c_batch'[d] => unseen'[e] = {}
    BY <1>1, <1>5, <1>7 DEF Grace
  <1> QED
    BY <1>1, <1>4, <1>8 DEF Grace

\* complete() holds only when everybody has passed the batch of curr.
LEMMA UpdateCurrGrace ==
    ASSUME TypeOK, Counting, Grace, NEW c \in CPUs, update_curr(c)
    PROVE  Grace'
  <1>1. /\ UNCHANGED <<batch, l_batch, c_batch, next, hazard, unseen>>
        /\ pc[c] = "update_curr" /\ \A d \in CPUs \ {c} : pc'[d] = pc[d]
    BY DEF update_curr, Goto, shared, ghost, TypeOK
  <1>2. \A d \in CPUs : Passed(d)' = Passed(d)
    BY <1>1 DEF Passed
  <1>3. CASE UNCHANGED <<done, curr>>
    BY <1>1, <1>2, <1>3 DEF Grace
  <1>4. CASE /\ complete(c_batch[c])
             /\ done' = [done EXCEPT ![c] = @ \cup curr[c]]
             /\ curr' = [curr EXCEPT ![c] = {}]
    <2>1. ASSUME NEW e \in curr[c] PROVE unseen[e] = {}
      <3>1. CASE batch > c_batch[c]
        BY <3>1 DEF Grace
      <3>2. CASE batch = c_batch[c] /\ "CMP" \in flags
        <4>1. NobodyOwes
          BY <3>2 DEF Counting, Reported
        <4> QED
          BY <3>2, <4>1, AllPassed DEF Grace, TypeOK
      <3> QED
        BY <1>4, <3>1, <3>2 DEF complete
    <2>2. /\ \A d \in CPUs : curr'[d] = IF d = c THEN {} ELSE curr[d]
          /\ \A d \in CPUs : done'[d] = IF d = c THEN done[d] \cup curr[d] ELSE done[d]
      BY <1>4 DEF TypeOK
    <2>3. \A d \in CPUs : \A e \in done'[d] : unseen'[e] = {}
      BY <1>1, <2>1, <2>2 DEF Grace
    <2>4. \A d \in CPUs : curr'[d] \subseteq curr[d]
      BY <2>2
    <2>5. \A d \in CPUs : pc'[d] \in {"update_curr", "update_next"} =>
                           pc[d] \in {"update_curr", "update_next"}
      BY <1>1
    <2> QED
      BY <1>1, <1>2, <2>3, <2>4, <2>5 DEF Grace
  <1> QED
    BY <1>3, <1>4 DEF update_curr

\* The objects of next wait for the batch after the one their CPU knows of.  It
\* may be running already, and then whoever passed it did so after they came.
LEMMA UpdateNextGrace ==
    ASSUME TypeOK, Counting, Grace, NEW c \in CPUs, update_next(c)
    PROVE  Grace'
  <1>1. CASE Goto(c, "update_accel") /\ UNCHANGED <<curr, next, c_batch>>
    BY <1>1, GraceFrame DEF update_next, Goto, shared, ghost, Locations
  <1>2. CASE /\ Goto(c, "start_batch")
             /\ curr' = [curr EXCEPT ![c] = next[c]]
             /\ next' = [next EXCEPT ![c] = {}]
             /\ c_batch' = [c_batch EXCEPT ![c] = l_batch[c] + 1]
    <2>1. /\ UNCHANGED <<batch, l_batch, done, hazard, unseen>>
          /\ pc[c] = "update_next"
          /\ \A d \in CPUs \ {c} : pc'[d] = pc[d]
      BY <1>2 DEF update_next, Goto, shared, ghost, TypeOK
    <2>2. \A d \in CPUs : Passed(d)' = Passed(d)
      BY <2>1 DEF Passed
    <2>3. /\ curr'[c] = next[c] /\ next'[c] = {} /\ c_batch'[c] = l_batch[c] + 1
          /\ \A d \in CPUs \ {c} : curr'[d] = curr[d] /\ next'[d] = next[d] /\ c_batch'[d] = c_batch[d]
      BY <1>2 DEF TypeOK
    <2>4. ~(batch > l_batch[c] + 1)
      BY DEF Counting, Noticed, TypeOK
    <2>5. \A e \in next[c] : batch = l_batch[c] + 1 => \A d \in CPUs : Passed(d) => d \notin unseen[e]
      BY <2>1 DEF Grace
    <2> QED
      BY <2>1, <2>2, <2>3, <2>4, <2>5 DEF Grace
  <1> QED
    BY <1>1, <1>2 DEF update_next

LEMMA InvokeGrace ==
    ASSUME TypeOK, Grace, GraceElapsed, NEW c \in CPUs, invoke_batch(c)
    PROVE  Grace' /\ GraceElapsed'
  <1>1. /\ UNCHANGED <<batch, l_batch, c_batch, next, curr, hazard, unseen>>
        /\ done' = [done EXCEPT ![c] = {}]
        /\ pc'[c] = "kernel" /\ \A d \in CPUs \ {c} : pc'[d] = pc[d]
        /\ estate' = [e \in Elems |-> IF e \in done[c] THEN "freed" ELSE estate[e]]
    BY DEF invoke_batch, Goto, shared, TypeOK
  <1>2. \A d \in CPUs : Passed(d)' = Passed(d) /\ done'[d] \subseteq done[d]
    BY <1>1 DEF Passed, TypeOK
  <1>3. Grace'
    BY <1>1, <1>2 DEF Grace
  <1>4. GraceElapsed'
    BY <1>1 DEF Grace, GraceElapsed
  <1> QED
    BY <1>3, <1>4

LEMMA GraceStep ==
    ASSUME ShortLists, IInv, [Next]_vars
    PROVE  Grace' /\ GraceElapsed'
  <1> USE DEF IInv
  <1>1. CASE UNCHANGED vars
    BY <1>1 DEF vars, Grace, GraceElapsed, Passed
  <1>2. ASSUME NEW c \in CPUs, NEW k \in {"user", "idle"}, handle_hazards(c, k)
        PROVE  Grace' /\ GraceElapsed'
    <2>1. GraceElapsed'
      BY <1>2 DEF handle_hazards, GraceElapsed
    <2> QED
      BY <1>2, <2>1, HazardGrace
  <1>3. ASSUME NEW c \in CPUs, NEW e \in Elems, call(c, e) PROVE Grace' /\ GraceElapsed'
    <2>1. GraceElapsed'
      BY <1>3 DEF call, GraceElapsed, TypeOK
    <2> QED
      BY <1>3, <2>1, CallGrace
  <1>4. ASSUME NEW c \in CPUs, update(c) PROVE Grace' /\ GraceElapsed'
    BY <1>4, UpdateGrace DEF update, ghost, GraceElapsed
  <1>5. ASSUME NEW c \in CPUs, next_batch(c) PROVE Grace' /\ GraceElapsed'
    BY <1>5, NextBatchGrace DEF next_batch, ghost, GraceElapsed
  <1>6. ASSUME NEW c \in CPUs, update_curr(c) PROVE Grace' /\ GraceElapsed'
    BY <1>6, UpdateCurrGrace DEF update_curr, ghost, GraceElapsed
  <1>7. ASSUME NEW c \in CPUs, update_next(c) PROVE Grace' /\ GraceElapsed'
    BY <1>7, UpdateNextGrace DEF update_next, ghost, GraceElapsed
  <1>8. ASSUME NEW c \in CPUs, Enter(c) \/ quiet(c) \/ start_batch(c) \/ set_count(c) \/ update_accel(c)
        PROVE  Grace' /\ GraceElapsed'
    <2>1. UNCHANGED <<batch, l_batch, c_batch, next, curr, done, estate, unseen>>
      BY <1>8 DEF Enter, quiet, start_batch, set_count, update_accel, shared, local, ghost
    <2>2. hazard' = hazard
      BY <1>8, AccelQuiet DEF Enter, quiet, start_batch, set_count
    <2>3. kind[c] \in {"user", "idle"}
      BY DEF TypeOK
    <2>4. PICK l \in Locations \ {"update_curr", "update_next"} : pc' = [pc EXCEPT ![c] = l]
      BY <1>8, <2>3 DEF Enter, quiet, start_batch, set_count, update_accel, Goto, StartBatchReturn, Locations
    <2>5. GraceElapsed'
      BY <2>1 DEF GraceElapsed
    <2> QED
      BY <2>1, <2>2, <2>4, <2>5, GraceFrame
  <1> QED
    BY <1>1, <1>2, <1>3, <1>4, <1>5, <1>6, <1>7, <1>8, InvokeGrace DEF Next, Step

LEMMA IInvStep ==
    ASSUME ShortLists, IInv, [Next]_vars
    PROVE  IInv'
  <1>1. TypeOK' /\ OnOneList'
    BY TypeStep, ListStep DEF IInv
  <1>2. Counting'
    BY CountingStep DEF IInv
  <1> QED
    BY <1>1, <1>2, GraceStep DEF IInv

-----------------------------------------------------------------------------
(* The results.                                                            *)

(* IInv is an invariant: the bookkeeping of batches stays exact and        *)
(* objects wait long enough, however the steps of rcu.cpp interleave.      *)
LEMMA Inductive ==
    ASSUME ShortLists
    PROVE  Spec => []IInv
  <1>1. IInv /\ [Next]_vars => IInv'
    BY IInvStep
  <1> QED
    BY <1>1, InitIInv, PTL DEF Spec

(* Every variable of rcu.cpp keeps its type, count that of a machine word. *)
THEOREM RcuTypeOK ==
    ASSUME ShortLists
    PROVE  Spec => []TypeOK
  <1>1. IInv => TypeOK
    BY DEF IInv
  <1> QED
    BY <1>1, Inductive, PTL

(* Rcu::invoke_batch runs the callback of an object only after every CPU   *)
(* has been quiescent since Rcu::call of it.                               *)
THEOREM RcuGraceElapsed ==
    ASSUME ShortLists
    PROVE  Spec => []GraceElapsed
  <1>1. IInv => GraceElapsed
    BY DEF IInv
  <1> QED
    BY <1>1, Inductive, PTL

(* An object is on one of the lists of one CPU, and only while it waits    *)
(* for its callback.                                                       *)
THEOREM RcuOnOneList ==
    ASSUME ShortLists
    PROVE  Spec => []OnOneList
  <1>1. IInv => OnOneList
    BY DEF IInv
  <1> QED
    BY <1>1, Inductive, PTL

(* Rcu::count is the number of CPUs that have yet to report in the current *)
(* batch; Rcu::quiet never decrements it past 0.                           *)
THEOREM RcuCountExact ==
    ASSUME ShortLists
    PROVE  Spec => []CountExact
  <1>1. IInv => CountExact
    BY DEF IInv, Counting, CountRight, CountExact, OwingSet
  <1> QED
    BY <1>1, Inductive, PTL

(* The plain state++ of Rcu::start_batch is executed by one CPU at a time, *)
(* and with both flags set.                                                *)
THEOREM RcuSingleStarter ==
    ASSUME ShortLists
    PROVE  Spec => []SingleStarter
  <1>1. ASSUME IInv PROVE SingleStarter
    <2>1. SUFFICES ASSUME NEW c \in Starting
                   PROVE  flags = {"PND", "CMP"} /\ Cardinality(Starting) = 1
      BY DEF SingleStarter
    <2>2. Starter(c) /\ c \in CPUs
      BY DEF Starting, Starter
    <2>3. flags = {"PND", "CMP"} /\ \A d \in CPUs : Starter(d) => d = c
      BY <1>1, <2>2 DEF IInv, Counting, OneStarter
    <2>4. Starting = {c}
      BY <2>1, <2>3 DEF Starting, Starter
    <2> QED
      BY <2>3, <2>4, FS_Singleton
  <1> QED
    BY <1>1, Inductive, PTL

(* The batches of rcu.cpp implement the grace period of include/rcu.hpp:   *)
(* handle_hazards is a quiescent state, Rcu::call retires an object,       *)
(* invoke_batch reclaims those on done, and every other step is invisible. *)
THEOREM RcuImplementsGracePeriod ==
    ASSUME ShortLists
    PROVE  Spec => ImplementsGracePeriod
  <1>1. Init => GP!GPInit
    BY DEF Init, GP!GPInit
  <1>2. ASSUME IInv, [Next]_vars PROVE [GP!GPNext]_(GP!gpvars)
    <2>1. CASE UNCHANGED vars
      BY <2>1 DEF vars, GP!gpvars
    <2>2. ASSUME NEW c \in CPUs, NEW k \in {"user", "idle"}, handle_hazards(c, k)
          PROVE  GP!Quiesce(c)
      BY <2>2 DEF handle_hazards, GP!Quiesce
    <2>3. ASSUME NEW c \in CPUs, NEW e \in Elems, call(c, e)
          PROVE  GP!Retire(e)
      BY <2>3 DEF call, GP!Retire
    <2>4. ASSUME NEW c \in CPUs, invoke_batch(c)
          PROVE  done[c] \in SUBSET Elems /\ GP!Reclaim(done[c])
      <3>1. done[c] \in SUBSET Elems
        BY <1>2 DEF IInv, TypeOK
      <3>2. \A e \in done[c] : estate[e] = "retired" /\ unseen[e] = {}
        BY <1>2 DEF IInv, OnOneList, Grace
      <3> QED
        BY <2>4, <3>1, <3>2 DEF invoke_batch, GP!Reclaim
    <2>5. ASSUME NEW c \in CPUs, Enter(c) \/ update(c) \/ quiet(c) \/ start_batch(c) \/ set_count(c)
                      \/ next_batch(c) \/ update_curr(c) \/ update_next(c) \/ update_accel(c)
          PROVE  UNCHANGED GP!gpvars
      BY <2>5 DEF Enter, update, quiet, start_batch, set_count, next_batch, update_curr, update_next,
                  update_accel, ghost, GP!gpvars
    <2> QED
      BY <1>2, <2>1, <2>2, <2>3, <2>4, <2>5 DEF Next, Step, GP!GPNext
  <1> QED
    BY <1>1, <1>2, Inductive, PTL DEF Spec, ImplementsGracePeriod, GP!GPSpec
=============================================================================

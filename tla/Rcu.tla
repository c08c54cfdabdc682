-------------------------------- MODULE Rcu --------------------------------
(***************************************************************************)
(* Deferred reclamation: src/rcu.cpp, include/rcu.hpp, and the hazard bits *)
(* HZD_RCU and HZD_IDL as Ec::handle_hazards (src/ec.cpp) treats them.     *)
(*                                                                         *)
(* Batches are numbered.  The word Rcu::state holds the number of the      *)
(* current batch and two flags: CMP, all CPUs were quiescent in this       *)
(* batch, and PND, somebody wants another batch.  Whoever sets the second  *)
(* flag starts the next batch.  Rcu::count is the number of CPUs that      *)
(* still have to be quiescent in the current batch.                        *)
(*                                                                         *)
(* One step is one access to state or count.  The compare-and-swap loop of *)
(* start_batch is one step, as a failed attempt changes nothing.           *)
(***************************************************************************)
EXTENDS Integers, FiniteSets

CONSTANTS CPUs,           \* the CPUs that are online
          Elems,          \* the objects under RCU (Rcu_elem)
          Updaters,       \* the CPUs on which something calls Rcu::update()
          AccelThreshold, \* list length above which idle CPUs are prodded (2000)
          WordMod         \* number of values of the type mword (2^64)

ASSUME RcuAssumption ==
    /\ IsFiniteSet(CPUs) /\ CPUs # {}
    /\ IsFiniteSet(Elems)
    /\ Updaters \subseteq CPUs
    /\ AccelThreshold \in Nat
    /\ WordMod \in Nat /\ Cardinality(CPUs) < WordMod

VARIABLES batch,    \* state >> 2
          flags,    \* state & 3, as a subset of {"PND", "CMP"}
          count,    \* CPUs not yet quiescent in this batch
          pc,       \* where each CPU is
          kind,     \* what a CPU in handle_hazards returns to: "user" or "idle"
          arg,      \* the argument of start_batch: "PND" or "CMP"
          l_batch,  \* CPU-local: the batch this CPU knows of
          c_batch,  \* CPU-local: the batch that frees the objects in curr
          next,     \* CPU-local list: called since curr was filled
          curr,     \* CPU-local list: waiting for c_batch
          done,     \* CPU-local list: ready for their callbacks
          hazard,   \* CPU-local: the bits HZD_RCU and HZD_IDL
          estate,   \* history: "live", "retired" or "freed"
          unseen    \* history: CPUs not quiescent since Rcu::call of the object

vars == <<batch, flags, count, pc, kind, arg, l_batch, c_batch, next, curr, done,
          hazard, estate, unseen>>

shared == <<batch, flags, count>>
local  == <<l_batch, c_batch, next, curr, done>>
ghost  == <<estate, unseen>>

Init ==
    /\ batch = 0 /\ flags = {"CMP"} /\ count = 0
    /\ pc = [c \in CPUs |-> "kernel"]
    /\ kind = [c \in CPUs |-> "user"]
    /\ arg = [c \in CPUs |-> "CMP"]
    /\ l_batch = [c \in CPUs |-> 0]
    /\ c_batch = [c \in CPUs |-> 0]
    /\ next = [c \in CPUs |-> {}]
    /\ curr = [c \in CPUs |-> {}]
    /\ done = [c \in CPUs |-> {}]
    /\ hazard = [c \in CPUs |-> {}]
    /\ estate = [e \in Elems |-> "live"]
    /\ unseen = [e \in Elems |-> {}]

Goto(c, l) == pc' = [pc EXCEPT ![c] = l]

-----------------------------------------------------------------------------
(* Faulty variants, against which the properties are tried.                *)

\* complete() ignores the flag: the current batch counts as over.
CompleteEarly(b) == batch >= b

\* handle_hazards leaves the bits alone.
KeepHazards(c, k) ==
    /\ pc[c] = "kernel"
    /\ kind' = [kind EXCEPT ![c] = k]
    /\ IF "RCU" \in hazard[c] THEN Goto(c, "quiet") ELSE Goto(c, k)
    /\ unseen' = [e \in Elems |-> unseen[e] \ {c}]
    /\ UNCHANGED <<shared, arg, local, hazard, estate>>

\* start_batch goes on whenever it could set its flag.
StartAlways(c) ==
    /\ pc[c] = "start_batch"
    /\ IF batch # l_batch[c] \/ arg[c] \in flags
         THEN /\ Goto(c, IF arg[c] = "CMP" THEN kind[c] ELSE "update_accel")
              /\ UNCHANGED flags
         ELSE /\ flags' = flags \cup {arg[c]}
              /\ Goto(c, "set_count")
    /\ UNCHANGED <<batch, count, kind, arg, local, hazard, ghost>>

\* count is set before this CPU is counted out: one CPU is missing.
CountOthers(c) ==
    /\ pc[c] = "set_count"
    /\ count' = Cardinality(CPUs \ {c})
    /\ Goto(c, "next_batch")
    /\ UNCHANGED <<batch, flags, kind, arg, local, hazard, ghost>>

\* append() forgets to clear the list it takes from.
KeepCurr(c) ==
    /\ pc[c] = "update_curr"
    /\ done' = [done EXCEPT ![c] =
                   IF curr[c] # {} /\ (batch > c_batch[c] \/ (batch = c_batch[c] /\ "CMP" \in flags))
                     THEN @ \cup curr[c] ELSE @]
    /\ Goto(c, "update_next")
    /\ UNCHANGED <<shared, kind, arg, l_batch, c_batch, next, curr, hazard, ghost>>

\* The objects wait for the batch that is already running.
CurrentBatch(c) ==
    /\ pc[c] = "update_next"
    /\ IF curr[c] = {} /\ next[c] # {}
         THEN /\ curr' = [curr EXCEPT ![c] = next[c]]
              /\ next' = [next EXCEPT ![c] = {}]
              /\ c_batch' = [c_batch EXCEPT ![c] = l_batch[c]]
              /\ arg' = [arg EXCEPT ![c] = "PND"]
              /\ Goto(c, "start_batch")
         ELSE /\ Goto(c, "update_accel")
              /\ UNCHANGED <<curr, next, c_batch, arg>>
    /\ UNCHANGED <<shared, kind, l_batch, done, hazard, ghost>>

\* quiet() subtracts too much.
QuietTwo(c) ==
    /\ pc[c] = "quiet"
    /\ count' = count - 2
    /\ arg' = [arg EXCEPT ![c] = "CMP"]
    /\ Goto(c, IF count' = 0 THEN "start_batch" ELSE kind[c])
    /\ UNCHANGED <<batch, flags, kind, local, hazard, ghost>>

\* update() asks for no new batch.
NoRequest(c) ==
    /\ pc[c] = "update_next"
    /\ IF curr[c] = {} /\ next[c] # {}
         THEN /\ curr' = [curr EXCEPT ![c] = next[c]]
              /\ next' = [next EXCEPT ![c] = {}]
              /\ c_batch' = [c_batch EXCEPT ![c] = l_batch[c] + 1]
         ELSE UNCHANGED <<curr, next, c_batch>>
    /\ Goto(c, "update_accel")
    /\ UNCHANGED <<shared, kind, arg, l_batch, done, hazard, ghost>>
-----------------------------------------------------------------------------
\* Rcu::complete(b): (state & ~RCU_PND) - (b << 2) > 0.
complete(b) == batch > b \/ (batch = b /\ "CMP" \in flags)

-----------------------------------------------------------------------------
(* Entering and leaving the kernel.                                        *)

\* System call, exception or VM exit, or the idle loop being preempted.
Enter(c) ==
    /\ pc[c] \in {"user", "idle"}
    /\ Goto(c, "kernel")
    /\ kind' = [kind EXCEPT ![c] = "user"]  \* out of scope
    /\ UNCHANGED <<shared, arg, local, hazard, ghost>>

\* Ec::handle_hazards on the way to user space or in the idle loop: the bits are
\* taken and cleared before they are acted upon.
handle_hazards(c, k) ==
    /\ \/ pc[c] = "kernel"
       \/ pc[c] = "idle" /\ k = "idle" /\ hazard[c] # {}
    /\ hazard' = [hazard EXCEPT ![c] = {}]
    /\ kind' = [kind EXCEPT ![c] = k]
    /\ IF "RCU" \in hazard[c] \/ ("IDL" \in hazard[c] /\ k = "idle")
         THEN Goto(c, "quiet")
         ELSE Goto(c, k)
    /\ unseen' = [e \in Elems |-> unseen[e] \ {c}]
    /\ UNCHANGED <<shared, arg, local, estate>>

\* Rcu::quiet().
quiet(c) ==
    /\ pc[c] = "quiet"
    /\ count' = (count - 1) % WordMod
    /\ arg' = [arg EXCEPT ![c] = "CMP"]
    /\ Goto(c, IF count' = 0 THEN "start_batch" ELSE kind[c])
    /\ UNCHANGED <<batch, flags, kind, local, hazard, ghost>>

\* Rcu::call(e) on an object that is not on any list.
call(c, e) ==
    /\ pc[c] = "kernel"
    /\ estate[e] = "live"
    /\ next' = [next EXCEPT ![c] = @ \cup {e}]
    /\ estate' = [estate EXCEPT ![e] = "retired"]
    /\ unseen' = [unseen EXCEPT ![e] = CPUs]
    /\ UNCHANGED <<shared, pc, kind, arg, l_batch, c_batch, curr, done, hazard>>

-----------------------------------------------------------------------------
(* Rcu::start_batch, called by quiet() with CMP and by update() with PND.  *)

\* Where start_batch returns to: quiet() ends handle_hazards, update() goes on.
StartBatchReturn(c) == IF arg[c] = "CMP" THEN kind[c] ELSE "update_accel"

\* The loop: give up if the batch is not ours any more or the flag is set already;
\* otherwise set it, and go on only if the other one was set.
start_batch(c) ==
    /\ pc[c] = "start_batch"
    /\ IF batch # l_batch[c] \/ arg[c] \in flags
         THEN /\ Goto(c, StartBatchReturn(c))
              /\ UNCHANGED flags
         ELSE /\ flags' = flags \cup {arg[c]}
              /\ Goto(c, IF flags = {} THEN StartBatchReturn(c) ELSE "set_count")
    /\ UNCHANGED <<batch, count, kind, arg, local, hazard, ghost>>

\* count = Cpu::online.
set_count(c) ==
    /\ pc[c] = "set_count"
    /\ count' = Cardinality(CPUs)
    /\ Goto(c, "next_batch")
    /\ UNCHANGED <<batch, flags, kind, arg, local, hazard, ghost>>

\* state++, which carries into the batch number when both flags are set.
next_batch(c) ==
    /\ pc[c] = "next_batch"
    /\ batch' = batch + 1
    /\ flags' = {}
    /\ Goto(c, StartBatchReturn(c))
    /\ UNCHANGED <<count, kind, arg, local, hazard, ghost>>

-----------------------------------------------------------------------------
(* Rcu::update().                                                          *)

\* l_batch follows the current batch, and this CPU owes a quiescent state.
update(c) ==
    /\ pc[c] = "kernel" /\ c \in Updaters
    /\ l_batch' = [l_batch EXCEPT ![c] = batch]
    /\ hazard' = [hazard EXCEPT ![c] =
                     IF l_batch[c] # batch THEN @ \cup {"RCU"} ELSE @]
    /\ Goto(c, "update_curr")
    /\ UNCHANGED <<shared, kind, arg, c_batch, next, curr, done, ghost>>

\* done().append(&curr()) if the batch of curr is complete.
update_curr(c) ==
    /\ pc[c] = "update_curr"
    /\ IF curr[c] # {} /\ complete(c_batch[c])
         THEN /\ done' = [done EXCEPT ![c] = @ \cup curr[c]]
              /\ curr' = [curr EXCEPT ![c] = {}]
         ELSE UNCHANGED <<done, curr>>
    /\ Goto(c, "update_next")
    /\ UNCHANGED <<shared, kind, arg, l_batch, c_batch, next, hazard, ghost>>

\* curr().append(&next()) if curr is empty; a new batch is wanted.
update_next(c) ==
    /\ pc[c] = "update_next"
    /\ IF curr[c] = {} /\ next[c] # {}
         THEN /\ curr' = [curr EXCEPT ![c] = next[c]]
              /\ next' = [next EXCEPT ![c] = {}]
              /\ c_batch' = [c_batch EXCEPT ![c] = l_batch[c] + 1]
              /\ arg' = [arg EXCEPT ![c] = "PND"]
              /\ Goto(c, "start_batch")
         ELSE /\ Goto(c, "update_accel")
              /\ UNCHANGED <<curr, next, c_batch, arg>>
    /\ UNCHANGED <<shared, kind, l_batch, done, hazard, ghost>>

\* Long lists: every other CPU is asked to report at once if it is idle.
update_accel(c) ==
    /\ pc[c] = "update_accel"
    /\ hazard' = IF /\ curr[c] # {} /\ next[c] # {}
                    /\ \/ Cardinality(next[c]) > AccelThreshold
                       \/ Cardinality(curr[c]) > AccelThreshold
                   THEN [d \in CPUs |-> IF d = c THEN hazard[d]
                                                 ELSE hazard[d] \cup {"IDL"}]
                   ELSE hazard
    /\ Goto(c, "update_done")
    /\ UNCHANGED <<shared, kind, arg, local, ghost>>

\* invoke_batch(): the free callback of every object on done.
invoke_batch(c) ==
    /\ pc[c] = "update_done"
    /\ estate' = [e \in Elems |-> IF e \in done[c] THEN "freed" ELSE estate[e]]
    /\ done' = [done EXCEPT ![c] = {}]
    /\ arg' = [arg EXCEPT ![c] = "CMP"]  \* out of scope
    /\ Goto(c, "kernel")
    /\ UNCHANGED <<shared, kind, l_batch, c_batch, next, curr, hazard, unseen>>

-----------------------------------------------------------------------------
Step(c) ==
    \/ quiet(c)
    \/ start_batch(c) \/ set_count(c) \/ next_batch(c)
    \/ update_curr(c) \/ update_next(c) \/ update_accel(c) \/ invoke_batch(c)

Next ==
    \E c \in CPUs :
        \/ Enter(c)
        \/ \E k \in {"user", "idle"} : handle_hazards(c, k)
        \/ \E e \in Elems : call(c, e)
        \/ update(c)
        \/ Step(c)

\* A CPU inside the kernel proceeds; it keeps entering and leaving it; and where
\* update() has a caller it is called again and again.
Fairness ==
    \A c \in CPUs :
        /\ WF_vars(Step(c))
        /\ WF_vars(Enter(c))
        /\ SF_vars(\E k \in {"user", "idle"} : handle_hazards(c, k))
        /\ SF_vars(update(c))

Spec == Init /\ [][Next]_vars
FairSpec == Spec /\ Fairness

-----------------------------------------------------------------------------
Locations ==
    {"user", "idle", "kernel", "quiet", "update_curr", "update_next", "update_accel",
     "update_done", "start_batch", "set_count", "next_batch"}

TypeOK ==
    /\ batch \in Nat
    /\ flags \subseteq {"PND", "CMP"}
    /\ count \in 0..(WordMod - 1)
    /\ pc \in [CPUs -> Locations]
    /\ kind \in [CPUs -> {"user", "idle"}]
    /\ arg \in [CPUs -> {"PND", "CMP"}]
    /\ l_batch \in [CPUs -> Nat]
    /\ c_batch \in [CPUs -> Nat]
    /\ next \in [CPUs -> SUBSET Elems]
    /\ curr \in [CPUs -> SUBSET Elems]
    /\ done \in [CPUs -> SUBSET Elems]
    /\ hazard \in [CPUs -> SUBSET {"RCU", "IDL"}]
    /\ estate \in [Elems -> {"live", "retired", "freed"}]
    /\ unseen \in [Elems -> SUBSET CPUs]

(* The promise of Rcu::call(): when the free callback of an object has     *)
(* run, every CPU has been quiescent since the object was handed over, so  *)
(* that none of them still uses it.                                        *)
GraceElapsed == \A e \in Elems : estate[e] = "freed" => unseen[e] = {}

(* A CPU that is to be counted: it has not noticed the batch yet, or it    *)
(* has and was not quiescent since, or it is about to report.              *)
Owing(c) == l_batch[c] # batch \/ "RCU" \in hazard[c] \/ pc[c] = "quiet"

(* Rcu::count is exactly the number of CPUs that have not reported in the  *)
(* current batch, except in start_batch between count = Cpu::online and    *)
(* state++.  A CPU reports once per batch, so count never falls below 0.   *)
CountExact ==
    \/ \E c \in CPUs : pc[c] = "next_batch"
    \/ count = Cardinality({c \in CPUs : Owing(c)})

(* state++ in start_batch is a plain increment of a word that other CPUs   *)
(* change with compare-and-swap.  It is executed by one CPU at a time, and *)
(* with both flags set, so that it carries into the batch number and no    *)
(* other CPU can change the word in between.                               *)
Starting == {c \in CPUs : pc[c] \in {"set_count", "next_batch"}}
SingleStarter ==
    Starting # {} => flags = {"PND", "CMP"} /\ Cardinality(Starting) = 1

(* An object is on at most one of the lists, and on none after its free    *)
(* callback has run: Rcu::invoke_batch calls it once.                      *)
OnOneList ==
    /\ \A c, d \in CPUs :
        /\ next[c] \cap curr[d] = {} /\ next[c] \cap done[d] = {} /\ curr[c] \cap done[d] = {}
        /\ c # d => /\ next[c] \cap next[d] = {} /\ curr[c] \cap curr[d] = {}
                    /\ done[c] \cap done[d] = {}
    /\ \A c \in CPUs : \A e \in next[c] \cup curr[c] \cup done[c] : estate[e] = "retired"

GP == INSTANCE GracePeriod

(* The batches implement the grace period that include/rcu.hpp promises:   *)
(* Rcu::invoke_batch runs only callbacks of objects whose grace period is  *)
(* over.                                                                   *)
ImplementsGracePeriod == GP!GPSpec

(* docs/implementation.md: once all cores have exited to user space or     *)
(* were idle, the free callback of an object given to Rcu::call() is run.  *)
EventuallyFreed == \A e \in Elems : estate[e] = "retired" ~> estate[e] = "freed"
=============================================================================

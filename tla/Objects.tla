------------------------------ MODULE Objects ------------------------------
(***************************************************************************)
(* The life of kernel objects: the system calls that create, use and       *)
(* revoke them (src/syscall.cpp), the pointers between them, their         *)
(* reference counts (include/refptr.hpp) and their deletion by RCU.        *)
(*                                                                         *)
(* A CPU that enters the kernel gets a list of the accesses to shared      *)
(* counters that its handler goes on to make; every entry of the list is   *)
(* a step of its own.  A CPU with an empty list is in user space, which is *)
(* a quiescent state of RCU (module Rcu shows that a callback runs only    *)
(* after one on every CPU).  The lists and trees of capabilities are in    *)
(* Mdb: here an object has its root capability or has not, and no one      *)
(* revokes the selector of an object that is still being created (see the  *)
(* run mdb_slots).  The life of local ECs, semaphores and SCs that block   *)
(* is in Ipc as well, without counts.                                      *)
(***************************************************************************)
EXTENDS Integers, Sequences, FiniteSets

CONSTANTS CPUs,
          Objs,
          Kind,      \* Kobject::Type of every object
          Home,      \* the CPU that an EC or a vCPU is bound to
          Local,     \* the ECs without a scheduling context
          Scenarios, \* records: the objects to begin with, the pointers between them,
                     \* the objects to be created and those to be revoked
          None       \* the null pointer

VARIABLES life,    \* none, alive or dead (deleted), unused in this scenario
          mortal,  \* the objects that user space revokes in this scenario
          ref,     \* Refcount::ref
          cap,     \* the objects with a root capability
          ptr,     \* the counted pointers in an object, pairs of a field and an object
          cur,     \* what a CPU points to: Ec::current, Pd::current, Sc::current
          place,   \* the queue of an SC: ready, the EC that it waits for, None
          smq,     \* the ECs in the queue of the semaphore
          partner, \* Ec::partner, and Ec::rcap the other way round
          rcu,     \* the objects given to RCU, with the CPUs to wait for
          todo,    \* what a CPU still does in the kernel
          ok       \* no assertion about a counter has failed

objects == <<life, ref, cap, ptr>>
holders == <<cur, place, smq, partner>>
vars == <<objects, mortal, holders, rcu, todo, ok>>

Of(k) == {o \in Objs : Kind[o] = k}

Alive(k) == {o \in Of(k) : life[o] = "alive"}

\* Kinds whose deletion looks at the count.
Counted == Of("PD") \cup Of("EC") \cup Of("SC") \cup Of("SM")

InKernel == {c \in CPUs : todo[c] # <<>>}

Target(o, f) == CHOOSE q \in Objs : <<f, q>> \in ptr[o]

Has(o, f) == \E q \in Objs : <<f, q>> \in ptr[o]

-----------------------------------------------------------------------------
(* The list of a CPU.                                                      *)

\* Continue with the list p; w are the CPUs that RCU waits for.
Go(c, p, w) ==
    /\ todo' = [todo EXCEPT ![c] = p]
    /\ rcu' = IF p = <<>> THEN [o \in DOMAIN w |-> w[o] \ {c}] ELSE w

Step(c, op) == todo[c] # <<>> /\ Head(todo[c])[1] = op

Arg(c) == Head(todo[c])[2]

Rest(c) == Tail(todo[c])

\* Handlers start in user space.
Start(c, p) == todo[c] = <<>> /\ Go(c, p, rcu)

Releases(o) ==
    LET R[S \in SUBSET ptr[o]] ==
            IF S = {} THEN <<>>
            ELSE LET x == CHOOSE x \in S : TRUE IN <<<<"release", x[2]>>>> \o R[S \ {x}]
    IN  R[ptr[o]]

-----------------------------------------------------------------------------
(* Faulty variants, against which the properties are tried.                *)

\* del_rcu without the test: the count is zero when RCU calls back.
DelRefOnly(c) ==
    /\ Step(c, "release")
    /\ ref' = [ref EXCEPT ![Arg(c)] = @ - 1]
    /\ Go(c, IF ref[Arg(c)] = 1 THEN <<<<"call", Arg(c)>>>> \o Rest(c) ELSE Rest(c), rcu)
    /\ UNCHANGED <<life, cap, ptr, holders, ok>>

\* RCU calls back without waiting for the other CPUs.
CallbackAtOnce(c) ==
    /\ todo[c] = <<>>
    /\ \E o \in DOMAIN rcu :
          /\ todo' = [todo EXCEPT ![c] = <<<<"free", o>>>>]
          /\ rcu' = [q \in DOMAIN rcu \ {o} |-> rcu[q]]
    /\ UNCHANGED <<objects, holders, ok>>

-----------------------------------------------------------------------------
(* Accesses to one object.                                                 *)

\* Refcount::add_ref where the code asserts that it succeeds.
add_ref(c) ==
    /\ Step(c, "add")
    /\ ok' = (ok /\ ref[Arg(c)] > 0)
    /\ ref' = [ref EXCEPT ![Arg(c)] = IF @ = 0 THEN 0 ELSE @ + 1]
    /\ Go(c, Rest(c), rcu)
    /\ UNCHANGED <<life, cap, ptr, holders>>

\* The constructor or reset() of a Refptr; it stays empty if there is no
\* reference left to share.
Refptr(c) ==
    /\ Step(c, "point")
    /\ LET q == Arg(c)
           h == Head(todo[c])[3]
       IN  IF ref[q] = 0 THEN UNCHANGED <<ref, ptr>>
           ELSE /\ ref' = [ref EXCEPT ![q] = @ + 1]
                /\ ptr' = [ptr EXCEPT ![h] = @ \cup {<<Head(todo[c])[4], q>>}]
    /\ Go(c, Rest(c), rcu)
    /\ UNCHANGED <<life, cap, holders, ok>>

\* Refcount::del_rcu up to last_ref().
del_rcu(c) ==
    /\ Step(c, "release")
    /\ Go(c, <<<<IF ref[Arg(c)] = 1 THEN "call" ELSE "dec", Arg(c)>>>> \o Rest(c), rcu)
    /\ UNCHANGED <<objects, holders, ok>>

\* del_rcu: del_ref().
del_rcu_dec(c) ==
    /\ Step(c, "dec")
    /\ ref' = [ref EXCEPT ![Arg(c)] = @ - 1]
    /\ Go(c, IF ref[Arg(c)] = 1 THEN <<<<"one", Arg(c)>>>> \o Rest(c) ELSE Rest(c), rcu)
    /\ UNCHANGED <<life, cap, ptr, holders, ok>>

\* del_rcu: ref = 1.
del_rcu_one(c) ==
    /\ Step(c, "one")
    /\ ref' = [ref EXCEPT ![Arg(c)] = 1]
    /\ Go(c, <<<<"call", Arg(c)>>>> \o Rest(c), rcu)
    /\ UNCHANGED <<life, cap, ptr, holders, ok>>

\* Refcount::del_ref where the code asserts that it was not the last one.
del_ref(c) ==
    /\ Step(c, "del")
    /\ ok' = (ok /\ ref[Arg(c)] > 1)
    /\ ref' = [ref EXCEPT ![Arg(c)] = @ - 1]
    /\ Go(c, Rest(c), rcu)
    /\ UNCHANGED <<life, cap, ptr, holders>>

\* Rcu::call.  The list refuses an element that it has already.
Rcu_call(c) ==
    /\ Step(c, "call")
    /\ LET o == Arg(c)
       IN  /\ ok' = (ok /\ o \notin DOMAIN rcu)
           /\ Go(c, Rest(c), [q \in DOMAIN rcu \cup {o} |->
                                 IF q \in DOMAIN rcu THEN rcu[q] ELSE InKernel])
    /\ UNCHANGED <<objects, holders>>

\* Rcu::invoke_batch: the callback of an object whose grace period is over.
invoke(c) ==
    /\ todo[c] = <<>>
    /\ \E o \in DOMAIN rcu :
          /\ rcu[o] = {}
          /\ todo' = [todo EXCEPT ![c] = <<<<"free", o>>>>]
          /\ rcu' = [q \in DOMAIN rcu \ {o} |-> rcu[q]]
    /\ UNCHANGED <<objects, holders, ok>>

\* Pd::free, Ec::free, Sc::free, Sm::free; the callbacks of the other kinds
\* delete the object whatever its count says.
free(c) ==
    /\ Step(c, "free")
    /\ LET o == Arg(c)
       IN  IF o \notin Counted
           THEN ref' = ref /\ Go(c, <<<<"delete", o>>>> \o Rest(c), rcu)
           ELSE /\ ref' = [ref EXCEPT ![o] = @ - 1]
                /\ Go(c, IF ref[o] = 1 THEN <<<<"delete", o>>>> \o Rest(c) ELSE Rest(c), rcu)
    /\ UNCHANGED <<life, cap, ptr, holders, ok>>

\* operator delete: the destructor drops the counted pointers (and the user
\* mapping of a kernel page), and ~Sm() wakes everyone who waits.
delete(c) ==
    /\ Step(c, "delete")
    /\ LET o == Arg(c)
       IN  /\ life' = [life EXCEPT ![o] = "dead"]
           /\ ptr' = [ptr EXCEPT ![o] = {}]
           /\ Go(c, Releases(o) \o (IF Kind[o] = "SM" THEN <<<<"up", o>>>> ELSE <<>>) \o Rest(c), rcu)
    /\ UNCHANGED <<ref, cap, holders, ok>>

\* Space_obj::insert_root: fails if the selector is in use, and then the new
\* object is deleted.
insert_root(c) ==
    /\ Step(c, "insert")
    /\ \/ /\ cap' = cap \cup {Arg(c)}
          /\ Go(c, Rest(c), rcu)
       \/ /\ Go(c, <<<<"delete", Arg(c)>>>>, rcu)
          /\ UNCHANGED cap
    /\ UNCHANGED <<life, ref, ptr, holders, ok>>

-----------------------------------------------------------------------------
(* System calls that create objects.  The caller has found the objects     *)
(* that it names through their capabilities; if one is missing the call    *)
(* ends with BAD_CAP, and with BAD_CPU or BAD_PAR for a bad argument.      *)

create(c, o, pointers) ==
    /\ life[o] = "none"
    /\ life' = [life EXCEPT ![o] = "alive"]
    /\ ref' = [ref EXCEPT ![o] = 1]
    /\ Start(c, [i \in 1..Len(pointers) |-> <<"point", pointers[i][2], o, pointers[i][1]>>]
                \o <<<<"insert", o>>>>
                \o (IF Kind[o] = "SC" THEN <<<<"enqueue", o>>>> ELSE <<>>))
    /\ UNCHANGED <<cap, ptr, holders, ok>>

sys_create_pd(c) == \E o \in Of("PD"), parent \in Of("PD") \cap cap : create(c, o, <<>>)

sys_create_ec(c) ==
    \E o \in Of("EC"), p \in Of("PD") \cap cap :
        create(c, o, <<<<"pd", p>>, <<"pd_user_page", p>>>>)

sys_create_sc(c) ==
    \E o \in Of("SC"), p \in Of("PD") \cap cap, e \in (Of("EC") \cap cap) \ Local :
        create(c, o, <<<<"ec", e>>>>)

sys_create_pt(c) ==
    \E o \in Of("PT"), p \in Of("PD") \cap cap, e \in Of("EC") \cap cap \cap Local :
        create(c, o, <<<<"ec", e>>>>)

sys_create_sm(c) == \E o \in Of("SM"), p \in Of("PD") \cap cap : create(c, o, <<>>)

sys_create_kp(c) == \E o \in Of("KP"), p \in Of("PD") \cap cap : create(c, o, <<>>)

sys_create_vcpu(c) ==
    \E o \in Of("VCPU"), p \in Of("PD") \cap cap, k \in Of("KP") \cap cap :
        create(c, o, <<<<"pd", p>>, <<"kp_vcpu_state", k>>, <<"kp_fpu_state", k>>>>)

\* The end of sys_create_sc: remote_enqueue().
remote_enqueue(c) ==
    /\ Step(c, "enqueue")
    /\ ok' = (ok /\ ref[Arg(c)] > 0)
    /\ ref' = [ref EXCEPT ![Arg(c)] = @ + 1]
    /\ place' = [place EXCEPT ![Arg(c)] = "ready"]
    /\ Go(c, Rest(c), rcu)
    /\ UNCHANGED <<life, cap, ptr, cur, smq, partner>>

-----------------------------------------------------------------------------
(* Revocation.                                                             *)

\* Pd::revoke<Space_obj> takes the last rights from a root capability.
revoke(c) ==
    \E o \in cap \cap mortal :
        /\ Start(c, <<<<"call", o>>>>)
        /\ cap' = cap \ {o}
        /\ UNCHANGED <<life, ref, ptr, holders, ok>>

\* sys_revoke of capabilities of another PD holds a reference to the PD; the
\* capability that it revokes may be that of the PD itself.
sys_revoke_remote(c) ==
    \E p \in Of("PD") \cap cap, o \in cap \cap mortal :
        /\ ref[p] > 0
        /\ ref' = [ref EXCEPT ![p] = @ + 1]
        /\ cap' = cap \ {o}
        /\ Start(c, <<<<"call", o>>, <<"release", p>>>>)
        /\ UNCHANGED <<life, ptr, holders, ok>>

-----------------------------------------------------------------------------
(* Execution.  A CPU without a current SC runs its idle EC, whose objects  *)
(* live forever.                                                           *)

\* Ec::make_current and Pd::make_current: the old pointer is released before
\* the new one is counted.  A PD stays if it is the current one, unless its
\* TLB entries are stale on this CPU.
Switch(c, e) ==
    LET old == cur[c]["ec"]
        p == IF e = None THEN None ELSE Target(e, "pd")
        drop(x) == IF x = None THEN <<>> ELSE <<<<"release", x>>>>
        take(x) == IF x = None THEN <<>> ELSE <<<<"add", x>>>>
    IN  {drop(old) \o take(e) \o q :
            q \in {drop(cur[c]["pd"]) \o take(p)}
                  \cup (IF p = cur[c]["pd"] THEN {<<>>} ELSE {})}

MakeCurrent(c, e, s) ==
    cur' = [cur EXCEPT ![c] = [ec |-> e, pd |-> IF e = None THEN None ELSE Target(e, "pd"), sc |-> s]]

Ready(c) == {s \in Of("SC") : place[s] = "ready" /\ Home[Target(s, "ec")] = c}

\* The EC that runs when the SC is chosen: the last of the chain of calls.
Runs(s) ==
    LET e == Target(s, "ec") IN IF partner[e] # None THEN partner[e] ELSE e

\* Sc::schedule: the current SC goes back to the ready queue with its
\* reference, or gives it up.  Someone has enqueued another one, or the idle
\* SC is next.
schedule(c) ==
    \E suspend \in BOOLEAN, s \in Ready(c) \cup {None} :
        LET old == cur[c]["sc"]
            e == IF s = None THEN None ELSE Runs(s)
        IN  /\ s # old
            /\ old = None => suspend
            /\ old # None /\ s = None => suspend
            /\ e \notin smq
            /\ \E p \in Switch(c, e) :
                  Start(c, (IF old # None /\ suspend THEN <<<<"release", old>>>> ELSE <<>>) \o p)
            /\ MakeCurrent(c, e, s)
            /\ place' = [x \in Of("SC") |-> IF x = s THEN None
                                            ELSE IF x = old /\ ~suspend THEN "ready" ELSE place[x]]
            /\ UNCHANGED <<objects, smq, partner, ok>>

\* Ec::sys_call through a portal: set_partner and the switch to the callee.
sys_call(c) ==
    \E t \in Of("PT") \cap cap :
        LET e == cur[c]["ec"]
            l == Target(t, "ec")
        IN  /\ Has(t, "ec") /\ e # None /\ e \notin Local
            /\ Home[l] = c /\ \A x \in Of("EC") : partner[x] # l
            /\ partner' = [partner EXCEPT ![e] = l]
            /\ \E p \in Switch(c, l) : Start(c, <<<<"add", l>>, <<"add", e>>>> \o p)
            /\ MakeCurrent(c, l, cur[c]["sc"])
            /\ UNCHANGED <<objects, place, smq, ok>>

\* Ec::reply: clr_partner, then back to the caller, or to no one if the SC
\* has no other reference left.
reply(c) ==
    \E e \in Of("EC") :
        LET l == cur[c]["ec"]
            s == cur[c]["sc"]
            gone == ref[s] = 1
            next == IF gone THEN None ELSE e
        IN  /\ l # None /\ partner[e] = l
            /\ partner' = [partner EXCEPT ![e] = None]
            /\ \E p \in Switch(c, next) :
                  Start(c, <<<<"del", e>>, <<"del", l>>>>
                           \o (IF gone THEN <<<<"release", s>>>> ELSE <<>>) \o p)
            /\ MakeCurrent(c, next, IF gone THEN None ELSE s)
            /\ UNCHANGED <<objects, place, smq, ok>>

-----------------------------------------------------------------------------
(* Semaphores.                                                             *)

\* Sm::dn on a counter of zero, and block_sc: the queue of the semaphore
\* gets a reference to the EC, that of the EC one to the SC, whose own is
\* given up by schedule().
dn(c) ==
    \E m \in Of("SM") \cap cap :
        LET e == cur[c]["ec"]
            s == cur[c]["sc"]
        IN  /\ e # None /\ e \notin Local
            /\ smq' = smq \cup {e}
            /\ place' = [place EXCEPT ![s] = e]
            /\ \E p \in Switch(c, None) : Start(c, <<<<"add", e>>, <<"add", s>>, <<"release", s>>>> \o p)
            /\ MakeCurrent(c, None, None)
            /\ UNCHANGED <<objects, partner, ok>>

\* Sm::up: the first EC leaves the queue, its SCs become ready again, or go
\* to RCU if no one else knows them, and the EC's reference is dropped.  A
\* destructor goes on until the queue is empty.
wake(c, m, rest) ==
    \E e \in smq :
        LET S == {s \in Of("SC") : place[s] = e}
            lost == {s \in S : ref[s] = 1}
            calls == {p \in [1..Cardinality(lost) -> lost] : \A i, j \in DOMAIN p : p[i] = p[j] => i = j}
        IN  /\ smq' = smq \ {e}
            /\ place' = [s \in Of("SC") |-> IF s \in lost THEN None ELSE IF s \in S THEN "ready" ELSE place[s]]
            /\ \E p \in calls : Go(c, [i \in DOMAIN p |-> <<"call", p[i]>>] \o <<<<"release", e>>>> \o rest, rcu)
            /\ UNCHANGED <<objects, cur, partner, ok>>

up(c) == todo[c] = <<>> /\ \E m \in Of("SM") \cap cap : wake(c, m, <<>>)

Sm_destructor(c) ==
    /\ Step(c, "up")
    /\ \/ wake(c, Arg(c), todo[c])
       \/ smq = {} /\ Go(c, Rest(c), rcu) /\ UNCHANGED <<objects, holders, ok>>

-----------------------------------------------------------------------------
(* vCPUs and kernel pages.                                                 *)

\* try_acquire_vcpu: the current EC points to the vCPU until it returns to
\* the VMM.
try_acquire_vcpu(c) ==
    \E v \in Of("VCPU") \cap cap :
        LET e == cur[c]["ec"]
        IN  /\ e # None /\ ~Has(e, "vcpu") /\ Home[v] = c
            /\ \A x \in Of("EC") : <<"vcpu", v>> \notin ptr[x]
            /\ Start(c, <<<<"point", v, e, "vcpu">>>>)
            /\ UNCHANGED <<objects, holders, ok>>

release_vcpu(c) ==
    LET e == cur[c]["ec"]
    IN  /\ e # None /\ Has(e, "vcpu")
        /\ Start(c, <<<<"release", Target(e, "vcpu")>>>>)
        /\ ptr' = [ptr EXCEPT ![e] = @ \ {<<"vcpu", Target(e, "vcpu")>>}]
        /\ UNCHANGED <<life, ref, cap, holders, ok>>

\* Kp::add_user_mapping and remove_user_mapping.
sys_kp_ctrl_map(c) ==
    \E k \in Of("KP") \cap cap, p \in Of("PD") \cap cap :
        /\ Start(c, <<<<"map", p, k>>>>)
        /\ UNCHANGED <<objects, holders, ok>>

\* Under the lock of the kernel page.
add_user_mapping(c) ==
    /\ Step(c, "map")
    /\ LET p == Arg(c)
           k == Head(todo[c])[3]
       IN  IF Has(k, "pd_user_page") \/ ref[p] = 0 THEN UNCHANGED <<ref, ptr>>
           ELSE /\ ref' = [ref EXCEPT ![p] = @ + 1]
                /\ ptr' = [ptr EXCEPT ![k] = @ \cup {<<"pd_user_page", p>>}]
    /\ Go(c, Rest(c), rcu)
    /\ UNCHANGED <<life, cap, holders, ok>>

sys_kp_ctrl_unmap(c) ==
    \E k \in Of("KP") \cap cap :
        /\ Has(k, "pd_user_page")
        /\ Start(c, <<<<"release", Target(k, "pd_user_page")>>>>)
        /\ ptr' = [ptr EXCEPT ![k] = @ \ {<<"pd_user_page", Target(k, "pd_user_page")>>}]
        /\ UNCHANGED <<life, ref, cap, holders, ok>>

-----------------------------------------------------------------------------
Init ==
    \E x \in Scenarios :
        /\ life = [o \in Objs |-> IF o \in x.start THEN "alive" ELSE IF o \in x.later THEN "none" ELSE "unused"]
        /\ ptr = [o \in Objs |-> IF o \in x.start THEN x.ptr[o] ELSE {}]
        /\ place = [s \in Of("SC") |-> IF s \in x.start THEN "ready" ELSE None]
        /\ ref = [o \in Objs |->
                     Cardinality(UNION {{<<h, y>> : y \in {z \in x.ptr[h] : z[2] = o}} : h \in x.start})
                     + (IF o \in x.start THEN 1 ELSE 0)
                     + (IF o \in x.start /\ Kind[o] = "SC" THEN 1 ELSE 0)]
        /\ cap = x.start
        /\ mortal = x.mortal
        /\ cur = [c \in CPUs |-> [ec |-> None, pd |-> None, sc |-> None]]
        /\ smq = {}
        /\ partner = [e \in Of("EC") |-> None]
        /\ rcu = [o \in {} |-> {}]
        /\ todo = [c \in CPUs |-> <<>>]
        /\ ok = TRUE

Next ==
    /\ UNCHANGED mortal
    /\ \E c \in CPUs :
          \/ add_ref(c) \/ Refptr(c) \/ del_rcu(c) \/ del_rcu_dec(c) \/ del_rcu_one(c) \/ del_ref(c)
          \/ Rcu_call(c) \/ invoke(c) \/ free(c) \/ delete(c) \/ insert_root(c)
          \/ sys_create_pd(c) \/ sys_create_ec(c) \/ sys_create_sc(c) \/ sys_create_pt(c)
          \/ sys_create_sm(c) \/ sys_create_kp(c) \/ sys_create_vcpu(c) \/ remote_enqueue(c)
          \/ revoke(c) \/ sys_revoke_remote(c)
          \/ schedule(c) \/ sys_call(c) \/ reply(c) \/ dn(c) \/ up(c) \/ Sm_destructor(c)
          \/ try_acquire_vcpu(c) \/ release_vcpu(c) \/ sys_kp_ctrl_map(c) \/ add_user_mapping(c)
          \/ sys_kp_ctrl_unmap(c)

Spec == Init /\ [][Next]_vars
-----------------------------------------------------------------------------
(* Properties.                                                             *)

Pending(o, ops) ==
    Cardinality(UNION {{<<c, i>> : i \in {n \in DOMAIN todo[c] : todo[c][n][1] \in ops /\ todo[c][n][2] = o}} :
                          c \in InKernel})

\* The counted references to an object that are in place.
Held(o) ==
      Cardinality(UNION {{<<h, x>> : x \in {y \in ptr[h] : y[2] = o}} : h \in Objs})
    + Cardinality({x \in CPUs \X {"ec", "pd", "sc"} : cur[x[1]][x[2]] = o})
    + (IF o \in Of("SC") /\ place[o] # None THEN 1 ELSE 0)
    + (IF o \in smq THEN 1 ELSE 0)
    + (IF o \in Of("EC") THEN Cardinality({e \in Of("EC") : partner[e] = o})
                              + (IF partner[o] # None THEN 1 ELSE 0) ELSE 0)

\* The reference an object is born with: it is that of the capability, and
\* later that of the callback that will drop it.
Base(o) == IF \/ o \in cap \cup DOMAIN rcu \/ Pending(o, {"insert", "call", "free"}) > 0 THEN 1 ELSE 0

\* At every moment the count of a PD, EC or SC equals the references to it
\* that exist: the capability or the pending deletion, the pointers, queues
\* and CPUs that hold it and what CPUs are about to take or drop.  Two
\* del_rcu() at once, or one that races with the callback of a revocation,
\* lose no reference and drop none twice; and an object without references
\* is on its way to be deleted, so none is left over.
RefsExact ==
    \A o \in Alive("PD") \cup Alive("EC") \cup Alive("SC") :
        Pending(o, {"delete", "one"}) > 0
          \/ /\ ref[o] + Pending(o, {"add"})
                   = Base(o) + Held(o) + Pending(o, {"release", "dec", "del"})
             /\ ref[o] > 0

\* No one who may still follow a pointer to a PD, EC, SC or semaphore, be it
\* stored or just looked up, finds it deleted; and the assertions on counters
\* hold (include/ec.hpp, include/pd.hpp, src/sc.cpp): a reference that is
\* assumed to be there, is there, and none that may not be the last, is.
NoUseAfterFree ==
    /\ ok
    /\ \A o \in Counted :
          life[o] = "dead" =>
             /\ o \notin cap \cup DOMAIN rcu
             /\ Held(o) = 0
             /\ Pending(o, {"add", "point", "map", "enqueue", "release", "dec", "one", "del", "call", "free", "delete"}) = 0
=============================================================================

-------------------------------- MODULE Ipc --------------------------------
(***************************************************************************)
(* Synchronous IPC between execution contexts (ECs), helping, semaphores   *)
(* and the blocking and waking of scheduling contexts (SCs): Ec::sys_call, *)
(* send_msg, reply, die, activate, help, block_sc, release (src/syscall.cpp*)
(* src/ec.cpp, include/ec.hpp) and class Sm (include/sm.hpp).              *)
(*                                                                         *)
(* A CPU in the kernel takes one step for every section that another CPU   *)
(* can observe: a section under the lock of a semaphore or of an EC, and   *)
(* the entry into a continuation.  The remote ready queue and its NMI are  *)
(* in ReadyQueue: here an SC that is woken is ready at once.  ECs and      *)
(* semaphores are not destroyed; SCs are.                                  *)
(***************************************************************************)
EXTENDS Integers, Sequences, FiniteSets, SequencesExt

CONSTANTS CPUs,
          Globals,  \* ECs that run on an SC of their own
          Locals,   \* ECs that handle the calls of a portal
          Scs,
          Sms,
          Home,     \* the CPU of every EC
          Owner,    \* Sc::ec
          Prio,     \* Sc::prio
          Startup,  \* the callee of the startup exception of a global EC; NONE
                    \* for the EC of the root task, which starts in user space
          LoopMax,  \* the bound on ctr_loop in Ec::help, 100 in the code
          MaxCount, \* a bound on the counter of a semaphore
          Starts,   \* the sets of SCs to begin with; the others stay suspended
          Mortal,   \* the SCs that may be revoked
          NONE      \* the null pointer

ECs == Globals \cup Locals

ASSUME IpcAssumption ==
    /\ Globals \cap Locals = {}
    /\ IsFiniteSet(ECs)
    /\ NONE \notin ECs \cup Scs
    /\ Home \in [ECs -> CPUs]
    /\ Owner \in [Scs -> Globals]
    /\ Prio \in [Scs -> Nat]
    /\ Startup \in [Globals -> Locals \cup {NONE}]
    /\ \A e \in Globals : Startup[e] # NONE => Home[Startup[e]] = Home[e]
    /\ {"ready", "current", "off", "gone"} \cap ECs = {}
    /\ Mortal \subseteq Scs
    /\ Starts \subseteq SUBSET Scs
    /\ LoopMax \in Nat /\ MaxCount \in Nat

VARIABLES cont,    \* the continuation of every EC
          partner, \* the EC whose reply it waits for
          rcap,    \* the EC it has to reply to
          dst,     \* the callee of a call that it has to start again
          smq,     \* the ECs that wait for a semaphore, in order
          counter, \* the counter of a semaphore
          place,   \* where an SC is: ready, current, waiting for an EC, ...
          revoked, \* SCs without a capability
          cur,     \* Ec::current()
          sc,      \* Sc::current()
          pc,      \* where a CPU is
          arg,     \* the EC that its next kernel step is about
          ctr_link, ctr_loop

ipc  == <<cont, partner, rcap, dst>>
sms  == <<smq, counter>>
scs  == <<place, revoked>>
cpu  == <<cur, sc, pc, arg>>
ctrs == <<ctr_link, ctr_loop>>
vars == <<ipc, sms, scs, cpu, ctrs>>

\* The continuations that lead to user space.  sys_finish stands for
\* recv_user and recv_kern as well: all three end in ret_user_sysexit.
Exits == {"ret_user_sysexit", "ret_user_iret", "sys_finish"}

Waiting(e) == {s \in Scs : place[s] = e}

Ready(c) == {s \in Scs : place[s] = "ready" /\ Home[Owner[s]] = c}

Queued(e) == \E m \in Sms : e \in Range(smq[m])

blocked(e) == Queued(e) \/ cont[e] = "null"

\* The only reference left is that of the queue or of Sc::current().
last_ref(s) == s \in revoked

\* The ECs met on the way along partner, NONE from the end on.
Walk(e) ==
    LET w[n \in 0..Cardinality(ECs)] ==
            IF n = 0 THEN e ELSE IF w[n-1] = NONE THEN NONE ELSE partner[w[n-1]]
    IN  w

Links(e) == Cardinality({n \in 1..Cardinality(ECs) : Walk(e)[n] # NONE})

Init ==
    /\ cont = [e \in ECs |-> IF e \in Locals THEN "null" ELSE
                             IF Startup[e] = NONE THEN "ret_user_sysexit" ELSE "send_msg"]
    /\ partner = [e \in ECs |-> NONE]
    /\ rcap = [e \in ECs |-> NONE]
    /\ dst = [e \in ECs |-> IF e \in Locals THEN NONE ELSE Startup[e]]
    /\ smq = [m \in Sms |-> <<>>]
    /\ counter = [m \in Sms |-> 0]
    /\ \E S \in Starts : place = [s \in Scs |-> IF s \in S THEN "ready" ELSE "off"]
    /\ revoked = {}
    /\ cur = [c \in CPUs |-> NONE]
    /\ sc = [c \in CPUs |-> NONE]
    /\ pc = [c \in CPUs |-> "schedule"]
    /\ arg = [c \in CPUs |-> NONE]
    /\ ctr_link = [c \in CPUs |-> 0]
    /\ ctr_loop = [c \in CPUs |-> 0]

-----------------------------------------------------------------------------
(* Changes of the control of one CPU.                                      *)

Goto(c, l, e) ==
    /\ pc' = [pc EXCEPT ![c] = l]
    /\ arg' = [arg EXCEPT ![c] = e]

\* return_to_user: make e the current EC and run its continuation.
return_to_user(c, e) ==
    /\ cur' = [cur EXCEPT ![c] = e]
    /\ Goto(c, "run", NONE)
    /\ UNCHANGED sc

\* An SC that stops running because it is suspended: with its last
\* reference it is destroyed.
Suspended(s) == IF last_ref(s) THEN "gone" ELSE "off"

\* Sc::schedule; the SC stays behind at p.
schedule(c, p) ==
    /\ place' = [place EXCEPT ![sc[c]] = p]
    /\ Goto(c, "schedule", NONE)
    /\ UNCHANGED <<cur, sc>>

\* Sm::dn, when the EC e has to wait.
EnqueueOn(m, e) == smq' = [smq EXCEPT ![m] = Append(@, e)]

-----------------------------------------------------------------------------
(* Faulty variants, against which the properties are tried.                *)

\* activate does not start to count at 0.
ActivateKeepsLink(c) ==
    /\ pc[c] = "activate"
    /\ LET n == Links(arg[c])
           e == Walk(arg[c])[n]
       IN  /\ ctr_link' = [ctr_link EXCEPT ![c] = @ + n]
           /\ IF blocked(e) THEN Goto(c, "block", e) /\ UNCHANGED <<cur, sc>>
                            ELSE return_to_user(c, e)
    /\ UNCHANGED <<ipc, sms, scs, ctr_loop>>

\* block_sc does not look again under the lock.
BlockUnchecked(c) ==
    /\ pc[c] = "block"
    /\ schedule(c, arg[c])
    /\ UNCHANGED <<ipc, sms, revoked, ctrs>>

\* schedule leaves ctr_loop alone.
PickKeepsLoop(c) ==
    /\ pc[c] = "schedule"
    /\ \E s \in Ready(c) :
            /\ place' = [place EXCEPT ![s] = "current"]
            /\ sc' = [sc EXCEPT ![c] = s]
            /\ Goto(c, "activate", Owner[s])
    /\ UNCHANGED <<ipc, sms, revoked, cur, ctrs>>

\* reply always goes back to the caller.
AlwaysLinked(c) == TRUE

\* A callee that is busy is called all the same.
CallBusy(c, e, nb) ==
    /\ cont' = [cont EXCEPT ![cur[c]] = "ret_user_sysexit", ![e] = "sys_finish"]
    /\ partner' = [partner EXCEPT ![cur[c]] = e]
    /\ rcap' = [rcap EXCEPT ![e] = cur[c]]
    /\ dst' = [dst EXCEPT ![cur[c]] = NONE]
    /\ return_to_user(c, e)
    /\ UNCHANGED <<sms, scs, ctrs>>

\* help does not count.
HelpForever(c, e, k) ==
    /\ cont' = [cont EXCEPT ![cur[c]] = k]
    /\ dst' = [dst EXCEPT ![cur[c]] = e]
    /\ Goto(c, "activate", e)
    /\ UNCHANGED <<partner, rcap, sms, scs, cur, sc, ctrs>>

\* dn ignores the tokens of the semaphore.
DownQueues(c, m, zero) ==
    /\ pc[c] = "user"
    /\ cont' = [cont EXCEPT ![cur[c]] = "sys_finish"]
    /\ EnqueueOn(m, cur[c])
    /\ Goto(c, "block", cur[c])
    /\ UNCHANGED <<partner, rcap, dst, counter, scs, cur, sc, ctrs>>

\* release destroys an SC even if a server runs on it.
WokenStrict(s) == IF last_ref(s) THEN "gone" ELSE "ready"

-----------------------------------------------------------------------------
(* The scheduler and helping.                                              *)

\* The rest of Sc::schedule: take a ready SC, or the idle one.
Pick(c) ==
    /\ pc[c] = "schedule"
    /\ ctr_loop' = [ctr_loop EXCEPT ![c] = 0]
    /\ \/ \E s \in Ready(c) :
            /\ \A t \in Ready(c) : Prio[t] <= Prio[s]
            /\ place' = [place EXCEPT ![s] = "current"]
            /\ sc' = [sc EXCEPT ![c] = s]
            /\ Goto(c, "activate", Owner[s])
            /\ UNCHANGED cur
       \/ /\ Ready(c) = {}
          /\ sc' = [sc EXCEPT ![c] = NONE]
          /\ cur' = [cur EXCEPT ![c] = NONE]
          /\ Goto(c, "idle", NONE)
          /\ UNCHANGED place
    /\ UNCHANGED <<ipc, sms, revoked, ctr_link>>

\* Ec::idle leaves through handle_hazards when an SC has become ready.
Wake(c) ==
    /\ pc[c] = "idle"
    /\ Ready(c) # {}
    /\ Goto(c, "schedule", NONE)
    /\ UNCHANGED <<ipc, sms, scs, cur, sc, ctrs>>

\* Ec::activate walks to the end of the call chain and counts its links.
activate(c) ==
    /\ pc[c] = "activate"
    /\ LET n == Links(arg[c])
           e == Walk(arg[c])[n]
       IN  /\ ctr_link' = [ctr_link EXCEPT ![c] = n]
           /\ IF blocked(e) THEN Goto(c, "block", e) /\ UNCHANGED <<cur, sc>>
                            ELSE return_to_user(c, e)
    /\ UNCHANGED <<ipc, sms, scs, ctr_loop>>

\* Ec::block_sc, under the lock of the EC, and what its callers do when it
\* returns because the EC is not blocked any more.
block_sc(c) ==
    /\ pc[c] = "block"
    /\ IF blocked(arg[c])
       THEN schedule(c, arg[c])
       ELSE return_to_user(c, arg[c]) /\ UNCHANGED place
    /\ UNCHANGED <<ipc, sms, revoked, ctrs>>

-----------------------------------------------------------------------------
(* Replying.                                                               *)

\* What clr_partner returns: whether the call to be answered is part of the
\* chain that the SC was activated for.
linked(c) == ctr_link[c] # 0

\* Ec::reply by the current EC, whose continuation becomes k; callers have
\* already changed the continuations to cs.  m is the semaphore or NONE.
\* Where ctr_link would wrap around below 0, activate resets it before use.
reply(c, cs, k, m) ==
    LET e == cur[c]
        r == rcap[e]
    IN  /\ cont' = [cs EXCEPT ![e] = k]
        /\ UNCHANGED revoked
        /\ IF e \in Globals
           THEN /\ schedule(c, Suspended(sc[c]))
                /\ UNCHANGED <<partner, rcap, sms, ctr_link>>
           ELSE IF r = NONE
           THEN /\ Goto(c, "activate", Owner[sc[c]])
                /\ UNCHANGED <<partner, rcap, sms, cur, sc, place, ctr_link>>
           ELSE /\ partner' = [partner EXCEPT ![r] = NONE]
                /\ rcap' = [rcap EXCEPT ![e] = NONE]
                /\ ctr_link' = [ctr_link EXCEPT ![c] = IF @ > 0 THEN @ - 1 ELSE @]
                /\ IF Owner[sc[c]] = r /\ last_ref(sc[c])
                   THEN schedule(c, Suspended(sc[c])) /\ UNCHANGED sms
                   ELSE IF m # NONE /\ counter[m] = 0
                   THEN /\ EnqueueOn(m, r)
                        /\ IF linked(c)
                           THEN Goto(c, "block", r) /\ UNCHANGED <<cur, sc, place>>
                           ELSE schedule(c, "ready")
                        /\ UNCHANGED counter
                   ELSE /\ counter' = IF m = NONE THEN counter
                                                  ELSE [counter EXCEPT ![m] = @ - 1]
                        /\ IF linked(c)
                           THEN return_to_user(c, r)
                           ELSE Goto(c, "activate", Owner[sc[c]]) /\ UNCHANGED <<cur, sc>>
                        /\ UNCHANGED <<smq, place>>

\* Ec::sys_reply: with a semaphore, a caller that came from sys_call starts
\* its call again when it is woken.
sys_reply(c) ==
    /\ pc[c] = "user"
    /\ \E m \in Sms \cup {NONE} :
         LET r     == rcap[cur[c]]
             again == r # NONE /\ m # NONE /\ cont[r] = "ret_user_sysexit"
         IN  /\ reply(c, IF again THEN [cont EXCEPT ![r] = "sys_call"] ELSE cont, "null",
                      IF r = NONE THEN NONE ELSE m)
             /\ dst' = IF again THEN [dst EXCEPT ![r] = cur[c]] ELSE dst
    /\ UNCHANGED ctr_loop

\* Ec::die: the caller, if any, gets COM_ABT or dies in its turn.
die(c) ==
    LET r == rcap[cur[c]]
    IN  reply(c, IF r = NONE THEN cont
                 ELSE [cont EXCEPT ![r] = IF @ = "ret_user_sysexit" THEN "sys_finish" ELSE "dead"],
              "dead", NONE)

-----------------------------------------------------------------------------
(* Calling.                                                                *)

\* Ec::set_partner, and the transfer of control to the callee e.
deliver(c, e, k) ==
    /\ cont' = [cont EXCEPT ![cur[c]] = k, ![e] = "sys_finish"]
    /\ partner' = [partner EXCEPT ![cur[c]] = e]
    /\ rcap' = [rcap EXCEPT ![e] = cur[c]]
    /\ dst' = [dst EXCEPT ![cur[c]] = NONE]
    /\ ctr_link' = [ctr_link EXCEPT ![c] = @ + 1]
    /\ return_to_user(c, e)
    /\ UNCHANGED <<sms, scs, ctr_loop>>

\* Ec::help for a callee e that is not dead: run it on this SC, and go on
\* with k afterwards.  An EC whose SC helps too often is killed.
help(c, e, k) ==
    /\ ctr_loop' = [ctr_loop EXCEPT ![c] = IF @ < LoopMax THEN @ + 1 ELSE @]
    /\ IF ctr_loop[c] + 1 < LoopMax
       THEN /\ cont' = [cont EXCEPT ![cur[c]] = k]
            /\ dst' = [dst EXCEPT ![cur[c]] = e]
            /\ Goto(c, "activate", e)
            /\ UNCHANGED <<partner, rcap, sms, scs, cur, sc, ctr_link>>
       ELSE /\ die(c)
            /\ dst' = [dst EXCEPT ![cur[c]] = NONE]

\* Ec::sys_call through a portal of e; nb is DISABLE_BLOCKING.
sys_call(c, e, nb) ==
    \/ /\ cont[e] = "null"
       /\ deliver(c, e, "ret_user_sysexit")
    \/ /\ cont[e] \notin {"null", "dead"} /\ ~nb
       /\ help(c, e, "sys_call")
    \/ /\ cont[e] = "dead" \/ (cont[e] # "null" /\ nb)
       /\ dst' = [dst EXCEPT ![cur[c]] = NONE]
       /\ Goto(c, "exit", NONE)
       /\ UNCHANGED <<cont, partner, rcap, sms, scs, cur, sc, ctrs>>

\* Ec::send_msg: an exception, delivered through a portal of e.
send_msg(c, e) ==
    \/ /\ cont[e] = "null"
       /\ deliver(c, e, "ret_user_iret")
    \/ /\ cont[e] \notin {"null", "dead"}
       /\ help(c, e, "send_msg")
    \/ /\ cont[e] = "dead"
       /\ dst' = [dst EXCEPT ![cur[c]] = NONE]
       /\ die(c)
       /\ UNCHANGED ctr_loop

\* The portals an EC may use lead to local ECs of its own CPU; the other
\* calls return an error at once.
Callees(c) == {e \in Locals : Home[e] = c}

Call(c) ==
    /\ pc[c] = "user"
    /\ \E e \in Callees(c), nb \in BOOLEAN : sys_call(c, e, nb)

\* An exception in user space; without a portal it is fatal.
Exception(c) ==
    /\ pc[c] = "user"
    /\ \/ \E e \in Callees(c) : send_msg(c, e)
       \/ die(c) /\ UNCHANGED <<dst, ctr_loop>>

-----------------------------------------------------------------------------
(* Semaphores.                                                             *)

\* Sm::dn from sys_sm_ctrl, up to the end of the lock.
Down(c, m, zero) ==
    /\ pc[c] = "user"
    /\ cont' = [cont EXCEPT ![cur[c]] = "sys_finish"]
    /\ IF counter[m] > 0
       THEN /\ counter' = [counter EXCEPT ![m] = IF zero THEN 0 ELSE @ - 1]
            /\ Goto(c, "exit", NONE)
            /\ UNCHANGED smq
       ELSE /\ EnqueueOn(m, cur[c])
            /\ Goto(c, "block", cur[c])
            /\ UNCHANGED counter
    /\ UNCHANGED <<partner, rcap, dst, scs, cur, sc, ctrs>>

\* Sm::up, up to the end of the lock.
Up(c, m) ==
    /\ pc[c] = "user"
    /\ IF smq[m] = <<>>
       THEN /\ counter[m] < MaxCount
            /\ counter' = [counter EXCEPT ![m] = @ + 1]
            /\ Goto(c, "exit", NONE)
            /\ UNCHANGED smq
       ELSE /\ smq' = [smq EXCEPT ![m] = Tail(@)]
            /\ Goto(c, "release", Head(smq[m]))
            /\ UNCHANGED counter
    /\ UNCHANGED <<ipc, scs, cur, sc, ctrs>>

\* An SC woken by Ec::release: destroyed if nothing else refers to it,
\* unless its EC is in a call.
Woken(s) == IF ~last_ref(s) \/ partner[Owner[s]] # NONE THEN "ready" ELSE "gone"

\* Ec::release, under the lock of the EC.
release(c) ==
    /\ pc[c] = "release"
    /\ place' = [s \in Scs |-> IF s \in Waiting(arg[c]) THEN Woken(s) ELSE place[s]]
    /\ Goto(c, "exit", NONE)
    /\ UNCHANGED <<ipc, sms, revoked, cur, sc, ctrs>>

-----------------------------------------------------------------------------
(* Continuations and the way back to user space.                           *)

\* The continuation with which an EC that leaves the kernel is preempted.
ExitCont(c) == IF pc[c] = "run" /\ cont[cur[c]] = "ret_user_iret"
               THEN "ret_user_iret" ELSE "ret_user_sysexit"

\* ret_user_sysexit and ret_user_iret, which call handle_hazards.
Exit(c) ==
    /\ pc[c] = "exit" \/ (pc[c] = "run" /\ cont[cur[c]] \in Exits)
    /\ \/ /\ Goto(c, "user", NONE)
          /\ UNCHANGED <<cont, place, cur, sc>>
       \/ /\ \E s \in Ready(c) : Prio[s] > Prio[sc[c]]
          /\ cont' = [cont EXCEPT ![cur[c]] = ExitCont(c)]
          /\ schedule(c, "ready")
    /\ UNCHANGED <<partner, rcap, dst, sms, revoked, ctrs>>

\* Continuations that start a call again, and Ec::dead.
Continue(c) ==
    /\ pc[c] = "run"
    /\ \/ cont[cur[c]] = "sys_call" /\ sys_call(c, dst[cur[c]], FALSE)
       \/ cont[cur[c]] = "send_msg" /\ send_msg(c, dst[cur[c]])
       \/ cont[cur[c]] = "dead" /\ die(c) /\ UNCHANGED <<dst, ctr_loop>>

\* sys_ec_ctrl with the operation YIELD.
Yield(c) ==
    /\ pc[c] = "user"
    /\ cont' = [cont EXCEPT ![cur[c]] = "ret_user_sysexit"]
    /\ schedule(c, "ready")
    /\ UNCHANGED <<partner, rcap, dst, sms, revoked, ctrs>>

\* The capability of an SC is revoked and its reference dropped.
RevokeSc(s) ==
    /\ s \in Mortal \ revoked
    /\ revoked' = revoked \cup {s}
    /\ place' = [place EXCEPT ![s] = IF @ = "off" THEN "gone" ELSE @]
    /\ UNCHANGED <<ipc, sms, cpu, ctrs>>

Kernel(c) ==
    \/ Pick(c) \/ Wake(c) \/ activate(c) \/ block_sc(c)
    \/ release(c) \/ Exit(c) \/ Continue(c)

User(c) ==
    \/ Call(c) \/ Exception(c) \/ sys_reply(c) \/ Yield(c)
    \/ \E m \in Sms : Up(c, m) \/ \E zero \in BOOLEAN : Down(c, m, zero)

Next ==
    \/ \E c \in CPUs : Kernel(c) \/ User(c)
    \/ \E s \in Scs : RevokeSc(s)

Spec == Init /\ [][Next]_vars

\* A CPU in the kernel goes on; what runs in user space need not.
FairSpec == Spec /\ \A c \in CPUs : WF_vars(Kernel(c))

-----------------------------------------------------------------------------

TypeOK ==
    /\ cont \in [ECs -> Exits \cup {"null", "sys_call", "send_msg", "dead"}]
    /\ partner \in [ECs -> ECs \cup {NONE}]
    /\ rcap \in [ECs -> ECs \cup {NONE}]
    /\ dst \in [ECs -> ECs \cup {NONE}]
    /\ \A m \in Sms : Range(smq[m]) \subseteq ECs
    /\ counter \in [Sms -> 0..MaxCount]
    /\ place \in [Scs -> ECs \cup {"ready", "current", "off", "gone"}]
    /\ revoked \subseteq Scs
    /\ cur \in [CPUs -> ECs \cup {NONE}]
    /\ sc \in [CPUs -> Scs \cup {NONE}]
    /\ pc \in [CPUs -> {"schedule", "idle", "activate", "block", "run", "release", "exit", "user"}]
    /\ arg \in [CPUs -> ECs \cup {NONE}]
    /\ ctr_link \in [CPUs -> 0..Cardinality(ECs)]
    /\ ctr_loop \in [CPUs -> 0..LoopMax]

\* The two ends of a call agree, as the assertion in clr_partner and the
\* reply itself need; a callee is never free; a local EC runs for a caller;
\* call chains end, without which the loop of activate would not.
CallChains ==
    \A e \in ECs :
        /\ partner[e] # NONE => rcap[partner[e]] = e /\ cont[partner[e]] # "null"
        /\ rcap[e] # NONE => partner[rcap[e]] = e
        /\ Walk(e)[Cardinality(ECs)] = NONE
        /\ \A c \in CPUs : pc[c] = "user" /\ cur[c] = e /\ e \in Locals => rcap[e] # NONE

\* What an EC waits for: the reply to its call, or the callee it helps.
WaitsFor(e) ==
    ({partner[e]} \cup (IF cont[e] \in {"sys_call", "send_msg"} THEN {dst[e]} ELSE {})) \ {NONE}

\* The ECs of S and everything they wait for.
After(S) ==
    LET reach[n \in 0..Cardinality(ECs)] ==
            IF n = 0 THEN S ELSE reach[n-1] \cup UNION {WaitsFor(e) : e \in reach[n-1]}
    IN  reach[Cardinality(ECs)]

\* Time is donated along calls only: in user space an SC runs its own EC or
\* an EC that this one waits for, never the client of a server it helped.
\* The exception is an SC that has just broken a cycle of calls: the callers
\* of the EC it killed go on with it until they reply.
RunsForOwner ==
    \A c \in CPUs : pc[c] = "user" /\ ctr_loop[c] < LoopMax
                    => cur[c] \in After({Owner[sc[c]]})

\* An SC waits for an EC only while that EC is blocked or about to be
\* released: no wakeup falls between Sm::dn and Ec::block_sc.
NoLostWakeup ==
    \A s \in Scs : place[s] \in ECs =>
        \/ blocked(place[s])
        \/ \E c \in CPUs : pc[c] = "release" /\ arg[c] = place[s]

\* Nobody waits for a semaphore that has a token, and an EC waits once.
TokensUsed ==
    /\ \A m \in Sms : counter[m] > 0 => smq[m] = <<>>
    /\ \A m \in Sms : IsInjective(smq[m])
    /\ \A m, n \in Sms : m # n => Range(smq[m]) \cap Range(smq[n]) = {}

\* The destruction of an SC never leaves a server with a caller that
\* nobody runs any more: Ec::release and Ec::reply put it off.
NoOrphanedCall ==
    \A e \in Globals : partner[e] # NONE =>
        \E s \in Scs : Owner[s] = e /\ place[s] \notin {"off", "gone"}

\* Before an EC is killed for livelock, its SC has met a cycle of calls.
LivelockIsCycle ==
    \A c \in CPUs : ctr_loop[c] = LoopMax - 1 =>
        \E e \in After({Owner[sc[c]]}) : e \in After(WaitsFor(e))

\* Helping ends: a CPU always comes back to user space or becomes idle,
\* even when the calls it follows form a cycle.
KernelExits == \A c \in CPUs : []<>(pc[c] \in {"user", "idle"})

\* An SC runs its owner or an EC that its owner waits for, through Ec::help and
\* Ec::activate, and an EC is killed for livelock only if these wait in a circle.
TimeDonated == TypeOK /\ RunsForOwner /\ LivelockIsCycle

\* Sm::dn and Sm::up with their two critical sections each: no EC sleeps although
\* it has its token, and no token is left while ECs wait.
SemaphoreSound == NoLostWakeup /\ TokensUsed
=============================================================================

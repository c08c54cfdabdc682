------------------------------ MODULE Spinlock ------------------------------
(***************************************************************************)
(* The ticket lock of include/spinlock.hpp, one step per access to the two *)
(* shared bytes.  Tickets are taken modulo TicketMod (256 in the code, an  *)
(* uint8), so both counters wrap around again and again.                   *)
(*                                                                         *)
(* A CPU calls lock() and unlock() in turn (Lock_guard); it never takes a  *)
(* lock it already holds.                                                  *)
(***************************************************************************)
EXTENDS Integers, FiniteSets

CONSTANTS CPUs,      \* the CPUs that contend for this lock
          TicketMod  \* number of values of the type Ticket

\* static_assert(NUM_CPU < 256): every CPU can hold one ticket and the
\* counters of a fully contended lock still differ.
ASSUME TicketAssumption ==
    /\ IsFiniteSet(CPUs)
    /\ TicketMod \in Nat
    /\ Cardinality(CPUs) < TicketMod

VARIABLES next_ticket,        \* the next ticket given out
          served_ticket,      \* the ticket that may enter
          pc,                 \* where each CPU is
          our_ticket,         \* the local variable of lock()
          next_served_ticket  \* the local variable of unlock()

vars == <<next_ticket, served_ticket, pc, our_ticket, next_served_ticket>>

Ticket == 0..(TicketMod - 1)

Init ==
    /\ next_ticket = 0
    /\ served_ticket = 0
    /\ pc = [c \in CPUs |-> "out"]
    /\ our_ticket = [c \in CPUs |-> 0]
    /\ next_served_ticket = [c \in CPUs |-> 0]

-----------------------------------------------------------------------------
(* Faulty variants, against which the properties are tried.                *)

\* lock() takes no ticket when it finds the lock free.
TakeTicketIfBusy(c) ==
    /\ pc[c] = "out"
    /\ our_ticket' = [our_ticket EXCEPT ![c] = next_ticket]
    /\ next_ticket' = IF next_ticket = served_ticket
                         THEN next_ticket
                         ELSE (next_ticket + 1) % TicketMod
    /\ pc' = [pc EXCEPT ![c] = "spin"]
    /\ UNCHANGED <<served_ticket, next_served_ticket>>

\* unlock() skips a ticket.
ReleaseTwo(c) ==
    /\ pc[c] = "unlock"
    /\ served_ticket' = (next_served_ticket[c] + 1) % TicketMod
    /\ pc' = [pc EXCEPT ![c] = "out"]
    /\ UNCHANGED <<next_ticket, our_ticket, next_served_ticket>>
-----------------------------------------------------------------------------
\* Increment of an unsigned integer of the width of Ticket.
Inc(t) == (t + 1) % TicketMod

\* lock(): fetch_add on next_ticket.
TakeTicket(c) ==
    /\ pc[c] = "out"
    /\ our_ticket' = [our_ticket EXCEPT ![c] = next_ticket]
    /\ next_ticket' = Inc(next_ticket)
    /\ pc' = [pc EXCEPT ![c] = "spin"]
    /\ UNCHANGED <<served_ticket, next_served_ticket>>

\* lock(): the loop ends when our ticket is served.
Acquire(c) ==
    /\ pc[c] = "spin"
    /\ served_ticket = our_ticket[c]
    /\ pc' = [pc EXCEPT ![c] = "in"]
    /\ UNCHANGED <<next_ticket, served_ticket, our_ticket, next_served_ticket>>

\* unlock(): the plain read of served_ticket.
ReadServed(c) ==
    /\ pc[c] = "in"
    /\ next_served_ticket' = [next_served_ticket EXCEPT ![c] = Inc(served_ticket)]
    /\ pc' = [pc EXCEPT ![c] = "unlock"]
    /\ UNCHANGED <<next_ticket, served_ticket, our_ticket>>

\* unlock(): the releasing store.
Release(c) ==
    /\ pc[c] = "unlock"
    /\ served_ticket' = next_served_ticket[c]
    /\ pc' = [pc EXCEPT ![c] = "out"]
    /\ UNCHANGED <<next_ticket, our_ticket, next_served_ticket>>

Next == \E c \in CPUs : TakeTicket(c) \/ Acquire(c) \/ ReadServed(c) \/ Release(c)

\* A CPU in lock() or unlock() runs with interrupts disabled and keeps taking
\* steps; nobody has to call lock().
Fairness ==
    \A c \in CPUs : /\ WF_vars(Acquire(c))
                    /\ WF_vars(ReadServed(c))
                    /\ WF_vars(Release(c))

Spec == Init /\ [][Next]_vars
FairSpec == Spec /\ Fairness

-----------------------------------------------------------------------------
TypeOK ==
    /\ next_ticket \in Ticket
    /\ served_ticket \in Ticket
    /\ pc \in [CPUs -> {"out", "spin", "in", "unlock"}]
    /\ our_ticket \in [CPUs -> Ticket]
    /\ next_served_ticket \in [CPUs -> Ticket]

\* The CPUs that own a ticket and those between lock() and unlock().
Active == {c \in CPUs : pc[c] # "out"}
Inside == {c \in CPUs : pc[c] \in {"in", "unlock"}}

\* How far ticket t is ahead of ticket s, counting modulo TicketMod.
Ahead(s, t) == IF s <= t THEN t - s ELSE t - s + TicketMod

\* Place of an active CPU in the line: 0 is the head.
Place(c) == Ahead(served_ticket, our_ticket[c])

\* Spinlock::is_locked().
is_locked == next_ticket # served_ticket

(* Two CPUs are never between lock() and unlock() at the same time, also  *)
(* after the 8-bit tickets of Spinlock::lock() have wrapped around.       *)
MutualExclusion == \A c, d \in Inside : c = d

(* The assertion of Spinlock::unlock() never fires: while a CPU is inside, *)
(* is_locked() is true whatever the other CPUs do, even when every one of  *)
(* them has taken a ticket (the reason for static_assert(NUM_CPU < 256)).  *)
UnlockAssertion == Inside # {} => is_locked

(* The comment in Spinlock::unlock(): only the holder modifies             *)
(* served_ticket, so the value it computed by a plain read is still one    *)
(* past served_ticket when it is stored.                                   *)
PlainReadIsStable ==
    \A c \in CPUs : pc[c] = "unlock" => next_served_ticket[c] = Inc(served_ticket)

(* A CPU that calls Spinlock::lock() enters, provided that CPUs leave      *)
(* their critical sections.                                                *)
EveryLockReturns == \A c \in CPUs : pc[c] = "spin" ~> pc[c] = "in"
=============================================================================

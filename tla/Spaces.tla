------------------------------- MODULE Spaces -------------------------------
(***************************************************************************)
(* Memory spaces, the life of kernel objects, and the registers that are   *)
(* switched by hand.  As in Platform each part is its own module; here     *)
(* they get variables of their own and their promises a name.  MCSpaces    *)
(* lets one of them, which, take steps, SpacesProofs proves what they      *)
(* promise.                                                                *)
(***************************************************************************)
EXTENDS MemSpace

CONSTANTS \* Objects
          CPUs, Objs, Kind, Home, Local, Scenarios,
          \* Context
          ECs, Idle, VCPUs, None, Vals, Bad, Xcr0s, Scb

VARIABLES which,
          \* Objects
          life, mortal, ref, cap, ptr, cur, place, smq, partner, rcu, todo, ok,
          \* Context
          mode, ec, vcpu, hw, host_dr, area, bases, regs, seen, lent

O == INSTANCE Objects
X == INSTANCE Context WITH cur <- ec

space   == vars
object  == <<life, mortal, ref, cap, ptr, cur, place, smq, partner, rcu, todo, ok>>
context == <<mode, ec, vcpu, hw, host_dr, area, bases, regs, seen, lent>>

-----------------------------------------------------------------------------
(* The properties of the parts; those of MemSpace are its own.             *)

\* No CPU, queue or object leads to an object that is deleted (Objects).
NoUseAfterFree == O!NoUseAfterFree

\* The counters of objects are the references there are (Objects).
RefsExact == O!RefsExact

\* ECs and guests find their registers again (Context).
ContextKept == X!ContextKept
=============================================================================

------------------------------- MODULE MCTlb -------------------------------
(***************************************************************************)
(* Instance of TlbShootdown on two CPUs, in three situations: two CPUs     *)
(* revoke one page each and switch domains ("duel"); one page is revoked   *)
(* while an NMI of another origin arrives ("stray"); one CPU revokes a     *)
(* page while both stay in the domain ("quiet").                           *)
(***************************************************************************)
EXTENDS TlbShootdown

CONSTANTS g1, g2  \* the two pages

ASSUME PagesAssumption == g1 \in Pages /\ g2 \in Pages

VARIABLE scene

mcVars == <<vars, scene>>

MCInit ==
    \/ scene = "duel" /\ others = OtherNmis /\ Start(Pages)
    \/ scene = "stray" /\ others = 0 /\ Start({g1})
    \/ scene = "quiet" /\ others = OtherNmis /\ Start({g1})
       /\ cur = [c \in Cpu |-> Target]

\* In the quiet situation CPU 0 alone revokes and nobody switches.
MCNext ==
    /\ Next
    /\ scene = "quiet" =>
         \A c \in Cpu : cur'[c] = cur[c] /\ pc'[c] # "switch" /\ (c # 0 => job'[c] = {})
    /\ UNCHANGED scene

MCSpec ==
    /\ MCInit /\ [][MCNext]_mcVars
    /\ \A c \in Cpu :
         /\ WF_mcVars(Shootdown(c) /\ UNCHANGED scene)
         /\ WF_mcVars(Local(c) /\ UNCHANGED scene)
         /\ WF_mcVars(Nmi(c) /\ UNCHANGED scene)

(* When shootdown() has returned, no CPU runs user code of the domain with *)
(* a revoked translation, as long as it is the only revocation, no CPU is  *)
(* in the middle of Pd::make_current and no other NMI is under way.        *)
RevokedUnused == scene = "quiet" => NoStaleUse
=============================================================================

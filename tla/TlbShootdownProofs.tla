-------------------------- MODULE TlbShootdownProofs --------------------------
(***************************************************************************)
(* Proofs about TlbShootdown and the situations of MCTlb, for every number *)
(* of CPUs, pages and domains and every width of the shootdown counter     *)
(* that ShootdownAssumption allows.                                        *)
(***************************************************************************)
EXTENDS MCTlb, TLAPS

\* A system call has a page in hand only after taking it out of the page table,
\* and the loop variable of the first loop of shootdown() is a CPU.
InHand ==
    /\ \A c \in Cpu : \A g \in job[c] : page[g] # "mapped"
    /\ \A c \in Cpu : pc[c] \in {"test", "snapshot", "set_mask", "send"} => idx[c] \in Cpu

\* What only the handler of an NMI from user space executes.
InHandler == \A c \in Cpu : pc[c] \in {"deferred", "clear_mask"} => innmi[c]

IInv == NmiWorkKept /\ InHand /\ InHandler

-----------------------------------------------------------------------------
(* The quiet situation: CPU 0 revokes g1, and nothing else goes on.        *)

Loop == {"scan", "test", "snapshot", "set_mask", "send"}

\* Only CPU 0 is in shootdown(), only for g1, and nobody leaves the domain.
OneRevoker ==
    /\ others = OtherNmis
    /\ \A c \in Cpu : cur[c] = Target /\ tlb[c] \subseteq {g1}
    /\ \A c \in Cpu : pc[c] # "switch" /\ (c # 0 => job[c] = {} /\ pc[c] \notin Loop \cup {"merge"})
    /\ \A d \in Cpu : snap[0][d] = 0
    /\ page[g1] = "unmapped" <=> pc[0] \in Loop \cup {"merge"}
    /\ page[g1] = "unmapped" => job[0] = {g1}
    /\ \A g \in Pages : g # g1 => page[g] # "mapped"
    /\ pc[0] \in {"test", "snapshot", "set_mask", "send"} => idx[0] # 0

\* An NMI is on its way only to a CPU that CPU 0 waits for, and at most once.
NmiOnce ==
    /\ \A d \in Cpu : nmi[d] => counter[d] = 0 /\ d \in waitfor[0]
    /\ \A d \in Cpu : innmi[d] \/ trap[d] => counter[d] # 0
    /\ waitfor[0] # {} => pc[0] \in Loop

\* Before the mark is set, and for the CPUs the loop has not come to.
Untouched ==
    /\ page[g1] = "mapped" \/ pc[0] = "merge" =>
           /\ stale = {}
           /\ \A d \in Cpu : ~hazard[d] /\ counter[d] = 0 /\ pc[d] \in {"user", "kernel", "iret", "merge"}
    /\ pc[0] \in Loop =>
           \A d \in Cpu : d >= idx[0] =>
               /\ counter[d] = 0 /\ d \notin waitfor[0]
               /\ hazard[d] => d = idx[0] /\ pc[0] = "send"

\* Locations that end in a flush.
Flushing == {"check", "clear_stale", "switch_clear"}

\* Everything that makes CPU d flush before it runs user code: it is about to,
\* or HZD_TLB is set and d will look at it, since it is in the kernel, or an NMI
\* keeps it from leaving.
MustFlush(d) ==
    \/ d \notin stale
    \/ pc[d] \in Flushing
    \/ hazard[d] /\ \/ pc[d] \in {"kernel", "exit", "deferred"} \cup Loop
                    \/ pc[d] = "iret" /\ trap[d]
                    \/ nmi[d]

\* The CPUs the loop has come to are made to flush; the mark is not set again.
Marked ==
    /\ \A d \in Cpu : pc[d] \in {"flush", "switch_flush"} => d \notin stale
    /\ pc[0] = "send" => LET d == idx[0] IN d \in stale => hazard[d] \/ pc[d] \in Flushing
    /\ \A d \in Cpu : page[g1] = "revoked" \/ (pc[0] \in Loop /\ d < idx[0]) => MustFlush(d)

QuietInv == OneRevoker /\ NmiOnce /\ Untouched /\ Marked

-----------------------------------------------------------------------------
(* No NMI work is forgotten, whoever revokes and whatever else sends NMIs. *)

LEMMA CpuType == Cpu \subseteq Nat /\ \A c \in Cpu : c + 1 \in 0..NumCpus
  BY ShootdownAssumption DEF Cpu

LEMMA TypeStep ==
    ASSUME TypeOK, InHand, [Next]_vars
    PROVE  TypeOK'
  <1> USE ShootdownAssumption DEF TypeOK, Locations, memory, work, signal, Goto
  <1>1. CASE UNCHANGED vars
    BY <1>1 DEF vars
  <1>2. ASSUME NEW c \in Cpu, Enter(c) PROVE TypeOK'
    BY <1>2 DEF Enter
  <1>3. ASSUME NEW c \in Cpu, other_nmi(c) PROVE TypeOK'
    BY <1>3 DEF other_nmi
  <1>4. ASSUME NEW c \in Cpu, NEW g \in Pages, Fill(c, g) PROVE TypeOK'
    BY <1>4 DEF Fill
  <1>5. ASSUME NEW c \in Cpu, NEW g \in Pages, revoke(c, g) PROVE TypeOK'
    BY <1>5 DEF revoke
  <1>6. ASSUME NEW c \in Cpu, NEW p \in PDs, make_current(c, p) PROVE TypeOK'
    BY <1>6 DEF make_current
  <1>7. ASSUME NEW c \in Cpu, merge(c) PROVE TypeOK'
    BY <1>7 DEF merge
  <1>8. ASSUME NEW c \in Cpu, scan(c) PROVE TypeOK'
    <2>1. idx[c] \in Cpu /\ idx[c] + 1 \in 0..NumCpus
      BY <1>8, CpuType DEF scan, Remote
    <2>2. /\ idx' = idx \/ idx' = [idx EXCEPT ![c] = @ + 1]
          /\ hazard' = hazard \/ hazard' = [hazard EXCEPT ![c] = TRUE]
          /\ pc' = pc \/ pc' = [pc EXCEPT ![c] = "test"]
      BY <1>8 DEF scan, Remote, NextCpu
    <2>3. idx' \in [Cpu -> 0..NumCpus]
      BY <2>1, <2>2
    <2>4. hazard' \in [Cpu -> BOOLEAN] /\ pc' \in [Cpu -> Locations]
      BY <2>2
    <2> QED
      BY <1>8, <2>3, <2>4 DEF scan
  <1>9. ASSUME NEW c \in Cpu, test_hazard(c) PROVE TypeOK'
    BY <1>9, CpuType DEF test_hazard, Remote, NextCpu, InHand
  <1>10. ASSUME NEW c \in Cpu, snapshot(c) PROVE TypeOK'
    BY <1>10 DEF snapshot, Remote, InHand
  <1>11. ASSUME NEW c \in Cpu, set_mask(c) PROVE TypeOK'
    BY <1>11 DEF set_mask, Remote
  <1>12. ASSUME NEW c \in Cpu, send_nmi(c) PROVE TypeOK'
    BY <1>12, CpuType DEF send_nmi, Remote, NextCpu, InHand
  <1>13. ASSUME NEW c \in Cpu, NEW d \in Cpu, wait(c, d) PROVE TypeOK'
    BY <1>13 DEF wait
  <1>14. ASSUME NEW c \in Cpu, shootdown_done(c) PROVE TypeOK'
    BY <1>14 DEF shootdown_done
  <1>15. ASSUME NEW c \in Cpu, switch_clear(c) \/ clear_stale(c) PROVE TypeOK'
    BY <1>15 DEF switch_clear, clear_stale
  <1>16. ASSUME NEW c \in Cpu, load_cr3(c) PROVE TypeOK'
    BY <1>16 DEF load_cr3
  <1>17. ASSUME NEW c \in Cpu, handle_hazards(c) PROVE TypeOK'
    BY <1>17 DEF handle_hazards
  <1>18. ASSUME NEW c \in Cpu, iret(c) PROVE TypeOK'
    BY <1>18 DEF iret
  <1>19. ASSUME NEW c \in Cpu, check_stale(c) PROVE TypeOK'
    BY <1>19 DEF check_stale, AfterFlush
  <1>20. ASSUME NEW c \in Cpu, flush(c) PROVE TypeOK'
    BY <1>20 DEF flush, AfterFlush
  <1>21. ASSUME NEW c \in Cpu, do_deferred_nmi_work(c) PROVE TypeOK'
    BY <1>21 DEF do_deferred_nmi_work
  <1>22. ASSUME NEW c \in Cpu, clear_mask(c) PROVE TypeOK'
    BY <1>22 DEF clear_mask
  <1>23. ASSUME NEW c \in Cpu, nmi_in_kernel(c) PROVE TypeOK'
    <2>1. (counter[c] + 1) % CounterMod \in 0..(CounterMod - 1)
      OBVIOUS
    <2> QED
      BY <1>23, <2>1 DEF nmi_in_kernel, EarlyNmiWork
  <1>24. ASSUME NEW c \in Cpu, nmi_in_user(c) PROVE TypeOK'
    <2>1. (counter[c] + 1) % CounterMod \in 0..(CounterMod - 1)
      OBVIOUS
    <2> QED
      BY <1>24, <2>1 DEF nmi_in_user, EarlyNmiWork
  <1> HIDE DEF TypeOK
  <1> QED
    BY <1>1, <1>2, <1>3, <1>4, <1>5, <1>6, <1>7, <1>8, <1>9, <1>10, <1>11, <1>12, <1>13, <1>14,
       <1>15, <1>16, <1>17, <1>18, <1>19, <1>20, <1>21, <1>22, <1>23, <1>24
    DEF Next, Shootdown, Local, Nmi

LEMMA InHandStep ==
    ASSUME TypeOK, InHand, [Next]_vars
    PROVE  InHand'
  <1> USE DEF TypeOK, Locations, memory, work, signal, Goto
  <1>1. CASE UNCHANGED vars
    BY <1>1 DEF vars, InHand
  <1>2. ASSUME NEW c \in Cpu, NEW g \in Pages, revoke(c, g) PROVE InHand'
    BY <1>2 DEF revoke, InHand
  <1>3. ASSUME NEW c \in Cpu, shootdown_done(c) PROVE InHand'
    BY <1>3 DEF shootdown_done, InHand
  <1>4. ASSUME NEW c \in Cpu, merge(c) PROVE InHand'
    BY <1>4 DEF merge, InHand
  <1>5. ASSUME NEW c \in Cpu, scan(c) PROVE InHand'
    BY <1>5 DEF scan, Remote, NextCpu, InHand
  <1>6. ASSUME NEW c \in Cpu, test_hazard(c) PROVE InHand'
    BY <1>6 DEF test_hazard, Remote, NextCpu, InHand
  <1>7. ASSUME NEW c \in Cpu, snapshot(c) \/ set_mask(c) PROVE InHand'
    BY <1>7 DEF snapshot, set_mask, InHand
  <1>8. ASSUME NEW c \in Cpu, send_nmi(c) PROVE InHand'
    BY <1>8 DEF send_nmi, Remote, NextCpu, InHand
  <1>9. ASSUME NEW c \in Cpu, \/ Enter(c) \/ other_nmi(c) \/ switch_clear(c) \/ load_cr3(c)
                              \/ handle_hazards(c) \/ iret(c) \/ clear_stale(c)
        PROVE  InHand'
    BY <1>9 DEF Enter, other_nmi, switch_clear, load_cr3, handle_hazards, iret, clear_stale, InHand
  <1>10. ASSUME NEW c \in Cpu, \/ check_stale(c) \/ flush(c) \/ do_deferred_nmi_work(c)
                               \/ clear_mask(c) \/ nmi_in_kernel(c) \/ nmi_in_user(c)
         PROVE  InHand'
    BY <1>10 DEF check_stale, flush, AfterFlush, do_deferred_nmi_work, clear_mask, nmi_in_kernel,
                 nmi_in_user, InHand
  <1>11. ASSUME NEW c \in Cpu, NEW g \in Pages, Fill(c, g) PROVE InHand'
    BY <1>11 DEF Fill, InHand
  <1>12. ASSUME NEW c \in Cpu, NEW p \in PDs, make_current(c, p) PROVE InHand'
    BY <1>12 DEF make_current, InHand
  <1>13. ASSUME NEW c \in Cpu, NEW d \in Cpu, wait(c, d) PROVE InHand'
    BY <1>13 DEF wait, InHand
  <1> HIDE DEF TypeOK
  <1> QED
    BY <1>1, <1>2, <1>3, <1>4, <1>5, <1>6, <1>7, <1>8, <1>9, <1>10, <1>11, <1>12, <1>13
    DEF Next, Shootdown, Local, Nmi

\* A CPU whose NMI handler was entered from user space, or that is in user
\* space, has the whole GDT.
LEMMA TrapStep ==
    ASSUME TypeOK, InHandler, NoTrapInUser, [Next]_vars
    PROVE  InHandler' /\ NoTrapInUser'
  <1> USE DEF TypeOK, Locations, memory, work, signal, Goto, InHandler, NoTrapInUser
  <1>1. CASE UNCHANGED <<pc, innmi, trap>>
    BY <1>1
  <1>2. ASSUME NEW c \in Cpu, NEW l \in Locations, pc' = [pc EXCEPT ![c] = l],
               l \notin {"deferred", "clear_mask", "user"}, UNCHANGED <<innmi, trap>>
        PROVE  InHandler' /\ NoTrapInUser'
    BY <1>2
  <1>3. ASSUME NEW c \in Cpu, NEW g \in Pages, Fill(c, g) \/ revoke(c, g)
        PROVE  InHandler' /\ NoTrapInUser'
    BY <1>1, <1>2, <1>3 DEF Fill, revoke
  <1>4. ASSUME NEW c \in Cpu, NEW p \in PDs, make_current(c, p) PROVE InHandler' /\ NoTrapInUser'
    BY <1>2, <1>4 DEF make_current
  <1>5. ASSUME NEW c \in Cpu, NEW d \in Cpu, wait(c, d) PROVE InHandler' /\ NoTrapInUser'
    BY <1>1, <1>5 DEF wait
  <1>6. ASSUME NEW c \in Cpu, scan(c) \/ test_hazard(c) PROVE InHandler' /\ NoTrapInUser'
    <2>1. UNCHANGED <<innmi, trap>>
      BY <1>6 DEF scan, test_hazard
    <2>2. pc' = pc \/ \E l \in {"test", "scan", "snapshot"} : pc' = [pc EXCEPT ![c] = l]
      BY <1>6 DEF scan, test_hazard
    <2> QED
      BY <1>1, <1>2, <2>1, <2>2
  <1>7. ASSUME NEW c \in Cpu, \/ Enter(c) \/ other_nmi(c) \/ merge(c) \/ snapshot(c) \/ set_mask(c)
                              \/ send_nmi(c) \/ shootdown_done(c)
        PROVE  InHandler' /\ NoTrapInUser'
    BY <1>1, <1>2, <1>7 DEF Enter, other_nmi, merge, snapshot, set_mask, send_nmi, shootdown_done
  <1>8. ASSUME NEW c \in Cpu, \/ switch_clear(c) \/ load_cr3(c) \/ handle_hazards(c) \/ clear_stale(c)
        PROVE  InHandler' /\ NoTrapInUser'
    BY <1>2, <1>8 DEF switch_clear, load_cr3, handle_hazards, clear_stale
  <1>9. ASSUME NEW c \in Cpu, check_stale(c) \/ flush(c) PROVE InHandler' /\ NoTrapInUser'
    BY <1>9 DEF check_stale, flush, AfterFlush
  <1>10. ASSUME NEW c \in Cpu, iret(c) PROVE InHandler' /\ NoTrapInUser'
    BY <1>10 DEF iret
  <1>11. ASSUME NEW c \in Cpu, do_deferred_nmi_work(c) \/ clear_mask(c)
         PROVE  InHandler' /\ NoTrapInUser'
    BY <1>11 DEF do_deferred_nmi_work, clear_mask
  <1>12. ASSUME NEW c \in Cpu, nmi_in_kernel(c) \/ nmi_in_user(c) PROVE InHandler' /\ NoTrapInUser'
    BY <1>12, ZenonT(60) DEF nmi_in_kernel, nmi_in_user
  <1>13. CASE UNCHANGED vars
    BY <1>1, <1>13 DEF vars
  <1> HIDE DEF TypeOK, InHandler, NoTrapInUser
  <1> QED
    BY <1>3, <1>4, <1>5, <1>6, <1>7, <1>8, <1>9, <1>10, <1>11, <1>12, <1>13
    DEF Next, Shootdown, Local, Nmi

\* Steps that cannot make an entry an old one, and do not take the mark of a CPU
\* that has one or make it leave a place where it flushes.
LEMMA StaleFrame ==
    ASSUME TypeOK, InHand, StaleTracked,
           NEW c \in Cpu, NEW l \in Locations, pc' = pc \/ pc' = [pc EXCEPT ![c] = l],
           pc' # pc => pc[c] \notin {"merge", "flush", "switch_flush"} /\ l # "merge",
           UNCHANGED <<tlb, stale, job>>,
           \A g \in Pages : page'[g] = "mapped" <=> page[g] = "mapped"
    PROVE  StaleTracked'
  BY DEF StaleTracked, OldEntries, TypeOK, InHand

LEMMA StaleStep ==
    ASSUME TypeOK, InHand, StaleTracked, [Next]_vars
    PROVE  StaleTracked'
  <1> USE DEF TypeOK, Locations, memory, work, signal, Goto
  <1>1. CASE UNCHANGED vars
    BY <1>1 DEF vars, StaleTracked, OldEntries
  <1>2. ASSUME NEW c \in Cpu, NEW g \in Pages, Fill(c, g) PROVE StaleTracked'
    BY <1>2 DEF Fill, StaleTracked, OldEntries
  <1>3. ASSUME NEW c \in Cpu, NEW g \in Pages, revoke(c, g) PROVE StaleTracked'
    <2>1. \A d \in Cpu : OldEntries(d)' \subseteq OldEntries(d)
      BY <1>3 DEF revoke, OldEntries
    <2> QED
      BY <1>3, <2>1 DEF revoke, StaleTracked
  <1>4. ASSUME NEW c \in Cpu, merge(c) PROVE StaleTracked'
    BY <1>4 DEF merge, StaleTracked
  <1>5. ASSUME NEW c \in Cpu, shootdown_done(c) PROVE StaleTracked'
    <2>1. \A d \in Cpu : OldEntries(d)' \subseteq OldEntries(d)
      BY <1>5 DEF shootdown_done, OldEntries, InHand
    <2> QED
      BY <1>5, <2>1 DEF shootdown_done, StaleTracked
  <1>6. ASSUME NEW c \in Cpu, switch_clear(c) \/ clear_stale(c) PROVE StaleTracked'
    BY <1>6 DEF switch_clear, clear_stale, StaleTracked, OldEntries
  <1>7. ASSUME NEW c \in Cpu, load_cr3(c) \/ flush(c) PROVE StaleTracked'
    BY <1>7, SMTT(40) DEF load_cr3, flush, AfterFlush, StaleTracked, OldEntries
  <1>8. ASSUME NEW c \in Cpu, scan(c) \/ test_hazard(c) PROVE StaleTracked'
    <2>1. UNCHANGED <<page, tlb, stale, job>> /\ pc[c] \in {"scan", "test"}
      BY <1>8 DEF scan, test_hazard
    <2>2. pc' = pc \/ \E l \in {"test", "scan", "snapshot"} : pc' = [pc EXCEPT ![c] = l]
      BY <1>8 DEF scan, test_hazard
    <2> QED
      BY <2>1, <2>2, StaleFrame
  <1>9. ASSUME NEW c \in Cpu, \/ snapshot(c) \/ set_mask(c) \/ send_nmi(c) \/ (\E d \in Cpu : wait(c, d))
        PROVE  StaleTracked'
    BY <1>9, StaleFrame DEF snapshot, set_mask, send_nmi, wait
  <1>10. ASSUME NEW c \in Cpu, \/ Enter(c) \/ other_nmi(c) \/ \E p \in PDs : make_current(c, p)
         PROVE  StaleTracked'
    BY <1>10, StaleFrame DEF Enter, other_nmi, make_current
  <1>11. ASSUME NEW c \in Cpu, \/ handle_hazards(c) \/ iret(c) \/ check_stale(c)
         PROVE  StaleTracked'
    BY <1>11, StaleFrame DEF handle_hazards, iret, check_stale, AfterFlush
  <1>12. ASSUME NEW c \in Cpu, \/ do_deferred_nmi_work(c) \/ clear_mask(c) \/ nmi_in_kernel(c) \/ nmi_in_user(c)
         PROVE  StaleTracked'
    BY <1>12, StaleFrame DEF do_deferred_nmi_work, clear_mask, nmi_in_kernel, nmi_in_user
  <1> HIDE DEF TypeOK
  <1> QED
    BY <1>1, <1>2, <1>3, <1>4, <1>5, <1>6, <1>7, <1>8, <1>9, <1>10, <1>11, <1>12
    DEF Next, Shootdown, Local, Nmi

LEMMA StartIInv ==
    ASSUME NEW present \in SUBSET Pages, Start(present), others \in 0..OtherNmis
    PROVE  IInv
  <1> USE ShootdownAssumption
  <1>1. TypeOK
    BY DEF Start, TypeOK, Locations
  <1>2. StaleTracked /\ NoTrapInUser
    BY DEF Start, StaleTracked, OldEntries, NoTrapInUser
  <1>3. InHand /\ InHandler
    BY DEF Start, InHand, InHandler
  <1> QED
    BY <1>1, <1>2, <1>3 DEF IInv, NmiWorkKept

LEMMA IInvStep ==
    ASSUME IInv, [Next]_vars
    PROVE  IInv'
  BY TypeStep, InHandStep, TrapStep, StaleStep DEF IInv, NmiWorkKept

(* The mark in stale_host_tlb is set for every CPU with an outdated         *)
(* translation until the CPU flushes, and no CPU is in user space while an  *)
(* NMI that came in the kernel is unanswered: for every number of CPUs that *)
(* revoke memory, switch domains and are hit by other NMIs at any time.     *)
THEOREM NmiWorkIsKept == Spec => []NmiWorkKept
  <1>1. Init => IInv
    <2>1. Pages \in SUBSET Pages /\ 0 \in 0..OtherNmis
      BY ShootdownAssumption
    <2> QED
      BY <2>1, StartIInv DEF Init
  <1>2. IInv => NmiWorkKept
    BY DEF IInv
  <1> QED
    BY <1>1, <1>2, IInvStep, PTL DEF Spec

-----------------------------------------------------------------------------
(* One revocation, nothing else: after shootdown() nobody uses the page.   *)

LEMMA CpuZero == 0 \in Cpu /\ Cpu \subseteq Nat /\ \A c \in Cpu : c + 1 \in 0..NumCpus
  BY ShootdownAssumption DEF Cpu

\* What MCNext adds to Next in the quiet situation.
Quietly == \A c \in Cpu : cur'[c] = cur[c] /\ pc'[c] # "switch" /\ (c # 0 => job'[c] = {})

LEMMA OneRevokerStep ==
    ASSUME IInv, QuietInv, Next, Quietly
    PROVE  OneRevoker'
  <1> USE ShootdownAssumption, PagesAssumption, CpuZero
          DEF IInv, NmiWorkKept, TypeOK, Locations, InHand, InHandler, memory, work, signal,
              Goto, Quietly, QuietInv, OneRevoker, Untouched, Loop
  <1>1. ASSUME NEW c \in Cpu, Enter(c) PROVE OneRevoker'
    BY <1>1 DEF Enter
  <1>2. ASSUME NEW c \in Cpu, other_nmi(c) PROVE OneRevoker'
    BY <1>2 DEF other_nmi
  <1>3. ASSUME NEW c \in Cpu, NEW g \in Pages, Fill(c, g) PROVE OneRevoker'
    BY <1>3 DEF Fill
  <1>4. ASSUME NEW c \in Cpu, NEW g \in Pages, revoke(c, g) PROVE OneRevoker'
    BY <1>4 DEF revoke
  <1>5. ASSUME NEW c \in Cpu, NEW p \in PDs, make_current(c, p) PROVE OneRevoker'
    BY <1>5 DEF make_current
  <1>6. ASSUME NEW c \in Cpu, merge(c) PROVE OneRevoker'
    BY <1>6 DEF merge
  <1>7. ASSUME NEW c \in Cpu, scan(c) PROVE OneRevoker'
    BY <1>7 DEF scan, Remote, NextCpu
  <1>8. ASSUME NEW c \in Cpu, test_hazard(c) PROVE OneRevoker'
    BY <1>8 DEF test_hazard, Remote, NextCpu
  <1>9. ASSUME NEW c \in Cpu, snapshot(c) PROVE OneRevoker'
    BY <1>9 DEF snapshot, Remote
  <1>10. ASSUME NEW c \in Cpu, set_mask(c) PROVE OneRevoker'
    BY <1>10 DEF set_mask, Remote
  <1>11. ASSUME NEW c \in Cpu, send_nmi(c) PROVE OneRevoker'
    BY <1>11 DEF send_nmi, Remote, NextCpu
  <1>12. ASSUME NEW c \in Cpu, NEW d \in Cpu, wait(c, d) PROVE OneRevoker'
    BY <1>12 DEF wait, Remote
  <1>13. ASSUME NEW c \in Cpu, shootdown_done(c) PROVE OneRevoker'
    BY <1>13 DEF shootdown_done, Remote
  <1>14. ASSUME NEW c \in Cpu, switch_clear(c) PROVE OneRevoker'
    BY <1>14 DEF switch_clear
  <1>15. ASSUME NEW c \in Cpu, load_cr3(c) PROVE OneRevoker'
    BY <1>15 DEF load_cr3
  <1>16. ASSUME NEW c \in Cpu, handle_hazards(c) PROVE OneRevoker'
    BY <1>16 DEF handle_hazards
  <1>17. ASSUME NEW c \in Cpu, iret(c) PROVE OneRevoker'
    BY <1>17 DEF iret
  <1>18. ASSUME NEW c \in Cpu, check_stale(c) PROVE OneRevoker'
    BY <1>18 DEF check_stale, AfterFlush
  <1>19. ASSUME NEW c \in Cpu, clear_stale(c) PROVE OneRevoker'
    BY <1>19 DEF clear_stale
  <1>20. ASSUME NEW c \in Cpu, flush(c) PROVE OneRevoker'
    BY <1>20 DEF flush, AfterFlush
  <1>21. ASSUME NEW c \in Cpu, do_deferred_nmi_work(c) PROVE OneRevoker'
    BY <1>21 DEF do_deferred_nmi_work
  <1>22. ASSUME NEW c \in Cpu, clear_mask(c) PROVE OneRevoker'
    BY <1>22 DEF clear_mask
  <1>23. ASSUME NEW c \in Cpu, nmi_in_kernel(c) PROVE OneRevoker'
    BY <1>23 DEF nmi_in_kernel, EarlyNmiWork
  <1>24. ASSUME NEW c \in Cpu, nmi_in_user(c) PROVE OneRevoker'
    BY <1>24 DEF nmi_in_user, EarlyNmiWork
  <1> HIDE DEF IInv, QuietInv, OneRevoker, Untouched, Loop
  <1> QED
    BY <1>1, <1>2, <1>3, <1>4, <1>5, <1>6, <1>7, <1>8, <1>9, <1>10, <1>11, <1>12, <1>13,
       <1>14, <1>15, <1>16, <1>17, <1>18, <1>19, <1>20, <1>21, <1>22, <1>23, <1>24
    DEF Next, Shootdown, Local, Nmi

LEMMA NmiOnceStep ==
    ASSUME IInv, QuietInv, Next, Quietly
    PROVE  NmiOnce'
  <1> USE ShootdownAssumption, PagesAssumption, CpuZero
          DEF IInv, NmiWorkKept, TypeOK, Locations, InHand, InHandler, memory, work, signal,
              Goto, Quietly, QuietInv, OneRevoker, NmiOnce, Untouched, Loop
  <1>1. ASSUME NEW c \in Cpu, Enter(c) PROVE NmiOnce'
    BY <1>1 DEF Enter
  <1>2. ASSUME NEW c \in Cpu, other_nmi(c) PROVE NmiOnce'
    BY <1>2 DEF other_nmi
  <1>3. ASSUME NEW c \in Cpu, NEW g \in Pages, Fill(c, g) PROVE NmiOnce'
    BY <1>3 DEF Fill
  <1>4. ASSUME NEW c \in Cpu, NEW g \in Pages, revoke(c, g) PROVE NmiOnce'
    BY <1>4 DEF revoke
  <1>5. ASSUME NEW c \in Cpu, NEW p \in PDs, make_current(c, p) PROVE NmiOnce'
    BY <1>5 DEF make_current
  <1>6. ASSUME NEW c \in Cpu, merge(c) PROVE NmiOnce'
    BY <1>6 DEF merge
  <1>7. ASSUME NEW c \in Cpu, scan(c) PROVE NmiOnce'
    BY <1>7 DEF scan, Remote, NextCpu
  <1>8. ASSUME NEW c \in Cpu, test_hazard(c) PROVE NmiOnce'
    BY <1>8 DEF test_hazard, Remote, NextCpu
  <1>9. ASSUME NEW c \in Cpu, snapshot(c) PROVE NmiOnce'
    BY <1>9 DEF snapshot, Remote
  <1>10. ASSUME NEW c \in Cpu, set_mask(c) PROVE NmiOnce'
    BY <1>10 DEF set_mask, Remote
  <1>11. ASSUME NEW c \in Cpu, send_nmi(c) PROVE NmiOnce'
    BY <1>11 DEF send_nmi, Remote, NextCpu
  <1>12. ASSUME NEW c \in Cpu, NEW d \in Cpu, wait(c, d) PROVE NmiOnce'
    BY <1>12 DEF wait, Remote
  <1>13. ASSUME NEW c \in Cpu, shootdown_done(c) PROVE NmiOnce'
    BY <1>13 DEF shootdown_done, Remote
  <1>14. ASSUME NEW c \in Cpu, switch_clear(c) PROVE NmiOnce'
    BY <1>14 DEF switch_clear
  <1>15. ASSUME NEW c \in Cpu, load_cr3(c) PROVE NmiOnce'
    BY <1>15 DEF load_cr3
  <1>16. ASSUME NEW c \in Cpu, handle_hazards(c) PROVE NmiOnce'
    BY <1>16 DEF handle_hazards
  <1>17. ASSUME NEW c \in Cpu, iret(c) PROVE NmiOnce'
    BY <1>17 DEF iret
  <1>18. ASSUME NEW c \in Cpu, check_stale(c) PROVE NmiOnce'
    BY <1>18 DEF check_stale, AfterFlush
  <1>19. ASSUME NEW c \in Cpu, clear_stale(c) PROVE NmiOnce'
    BY <1>19 DEF clear_stale
  <1>20. ASSUME NEW c \in Cpu, flush(c) PROVE NmiOnce'
    BY <1>20 DEF flush, AfterFlush
  <1>21. ASSUME NEW c \in Cpu, do_deferred_nmi_work(c) PROVE NmiOnce'
    BY <1>21 DEF do_deferred_nmi_work
  <1>22. ASSUME NEW c \in Cpu, clear_mask(c) PROVE NmiOnce'
    BY <1>22 DEF clear_mask
  <1>23. ASSUME NEW c \in Cpu, nmi_in_kernel(c) PROVE NmiOnce'
    BY <1>23 DEF nmi_in_kernel, EarlyNmiWork
  <1>24. ASSUME NEW c \in Cpu, nmi_in_user(c) PROVE NmiOnce'
    BY <1>24 DEF nmi_in_user, EarlyNmiWork
  <1> HIDE DEF IInv, QuietInv, OneRevoker, NmiOnce, Untouched, Loop
  <1> QED
    BY <1>1, <1>2, <1>3, <1>4, <1>5, <1>6, <1>7, <1>8, <1>9, <1>10, <1>11, <1>12, <1>13,
       <1>14, <1>15, <1>16, <1>17, <1>18, <1>19, <1>20, <1>21, <1>22, <1>23, <1>24
    DEF Next, Shootdown, Local, Nmi

LEMMA UntouchedStep ==
    ASSUME IInv, QuietInv, Next, Quietly
    PROVE  Untouched'
  <1> USE ShootdownAssumption, PagesAssumption, CpuZero
          DEF IInv, NmiWorkKept, TypeOK, Locations, InHand, InHandler, memory, work, signal,
              Goto, Quietly, QuietInv, OneRevoker, NmiOnce, Untouched, Loop
  <1>1. ASSUME NEW c \in Cpu, Enter(c) PROVE Untouched'
    BY <1>1 DEF Enter
  <1>2. ASSUME NEW c \in Cpu, other_nmi(c) PROVE Untouched'
    BY <1>2 DEF other_nmi
  <1>3. ASSUME NEW c \in Cpu, NEW g \in Pages, Fill(c, g) PROVE Untouched'
    BY <1>3 DEF Fill
  <1>4. ASSUME NEW c \in Cpu, NEW g \in Pages, revoke(c, g) PROVE Untouched'
    BY <1>4 DEF revoke
  <1>5. ASSUME NEW c \in Cpu, NEW p \in PDs, make_current(c, p) PROVE Untouched'
    BY <1>5 DEF make_current
  <1>6. ASSUME NEW c \in Cpu, merge(c) PROVE Untouched'
    BY <1>6 DEF merge
  <1>7. ASSUME NEW c \in Cpu, scan(c) PROVE Untouched'
    BY <1>7 DEF scan, Remote, NextCpu
  <1>8. ASSUME NEW c \in Cpu, test_hazard(c) PROVE Untouched'
    BY <1>8 DEF test_hazard, Remote, NextCpu
  <1>9. ASSUME NEW c \in Cpu, snapshot(c) PROVE Untouched'
    BY <1>9 DEF snapshot, Remote
  <1>10. ASSUME NEW c \in Cpu, set_mask(c) PROVE Untouched'
    BY <1>10 DEF set_mask, Remote
  <1>11. ASSUME NEW c \in Cpu, send_nmi(c) PROVE Untouched'
    BY <1>11 DEF send_nmi, Remote, NextCpu
  <1>12. ASSUME NEW c \in Cpu, NEW d \in Cpu, wait(c, d) PROVE Untouched'
    BY <1>12 DEF wait, Remote
  <1>13. ASSUME NEW c \in Cpu, shootdown_done(c) PROVE Untouched'
    BY <1>13 DEF shootdown_done, Remote
  <1>14. ASSUME NEW c \in Cpu, switch_clear(c) PROVE Untouched'
    BY <1>14 DEF switch_clear
  <1>15. ASSUME NEW c \in Cpu, load_cr3(c) PROVE Untouched'
    BY <1>15 DEF load_cr3
  <1>16. ASSUME NEW c \in Cpu, handle_hazards(c) PROVE Untouched'
    BY <1>16 DEF handle_hazards
  <1>17. ASSUME NEW c \in Cpu, iret(c) PROVE Untouched'
    BY <1>17 DEF iret
  <1>18. ASSUME NEW c \in Cpu, check_stale(c) PROVE Untouched'
    BY <1>18 DEF check_stale, AfterFlush
  <1>19. ASSUME NEW c \in Cpu, clear_stale(c) PROVE Untouched'
    BY <1>19 DEF clear_stale
  <1>20. ASSUME NEW c \in Cpu, flush(c) PROVE Untouched'
    BY <1>20 DEF flush, AfterFlush
  <1>21. ASSUME NEW c \in Cpu, do_deferred_nmi_work(c) PROVE Untouched'
    BY <1>21 DEF do_deferred_nmi_work
  <1>22. ASSUME NEW c \in Cpu, clear_mask(c) PROVE Untouched'
    BY <1>22 DEF clear_mask
  <1>23. ASSUME NEW c \in Cpu, nmi_in_kernel(c) PROVE Untouched'
    BY <1>23 DEF nmi_in_kernel, EarlyNmiWork
  <1>24. ASSUME NEW c \in Cpu, nmi_in_user(c) PROVE Untouched'
    BY <1>24 DEF nmi_in_user, EarlyNmiWork
  <1> HIDE DEF IInv, QuietInv, OneRevoker, NmiOnce, Untouched, Loop
  <1> QED
    BY <1>1, <1>2, <1>3, <1>4, <1>5, <1>6, <1>7, <1>8, <1>9, <1>10, <1>11, <1>12, <1>13,
       <1>14, <1>15, <1>16, <1>17, <1>18, <1>19, <1>20, <1>21, <1>22, <1>23, <1>24
    DEF Next, Shootdown, Local, Nmi

LEMMA MarkedStep ==
    ASSUME IInv, QuietInv, Next, Quietly
    PROVE  Marked'
  <1> USE ShootdownAssumption, PagesAssumption, CpuZero
          DEF IInv, NmiWorkKept, TypeOK, Locations, InHand, InHandler, memory, work, signal,
              Goto, Quietly, QuietInv, OneRevoker, NmiOnce, Untouched, Marked, MustFlush,
                Flushing, Loop
  <1>1. ASSUME NEW c \in Cpu, Enter(c) PROVE Marked'
    BY <1>1 DEF Enter
  <1>2. ASSUME NEW c \in Cpu, other_nmi(c) PROVE Marked'
    BY <1>2 DEF other_nmi
  <1>3. ASSUME NEW c \in Cpu, NEW g \in Pages, Fill(c, g) PROVE Marked'
    BY <1>3 DEF Fill
  <1>4. ASSUME NEW c \in Cpu, NEW g \in Pages, revoke(c, g) PROVE Marked'
    BY <1>4 DEF revoke
  <1>5. ASSUME NEW c \in Cpu, NEW p \in PDs, make_current(c, p) PROVE Marked'
    BY <1>5 DEF make_current
  <1>6. ASSUME NEW c \in Cpu, merge(c) PROVE Marked'
    BY <1>6 DEF merge
  <1>7. ASSUME NEW c \in Cpu, scan(c) PROVE Marked'
    BY <1>7 DEF scan, Remote, NextCpu
  <1>8. ASSUME NEW c \in Cpu, test_hazard(c) PROVE Marked'
    BY <1>8 DEF test_hazard, Remote, NextCpu
  <1>9. ASSUME NEW c \in Cpu, snapshot(c) PROVE Marked'
    BY <1>9 DEF snapshot, Remote
  <1>10. ASSUME NEW c \in Cpu, set_mask(c) PROVE Marked'
    BY <1>10 DEF set_mask, Remote
  <1>11. ASSUME NEW c \in Cpu, send_nmi(c) PROVE Marked'
    BY <1>11 DEF send_nmi, Remote, NextCpu
  <1>12. ASSUME NEW c \in Cpu, NEW d \in Cpu, wait(c, d) PROVE Marked'
    BY <1>12 DEF wait, Remote
  <1>13. ASSUME NEW c \in Cpu, shootdown_done(c) PROVE Marked'
    <2>1. c = 0 /\ \A d \in Cpu : d < idx[0]
      BY <1>13 DEF shootdown_done, Remote, Cpu
    <2> QED
      BY <1>13, <2>1 DEF shootdown_done
  <1>14. ASSUME NEW c \in Cpu, switch_clear(c) PROVE Marked'
    BY <1>14 DEF switch_clear
  <1>15. ASSUME NEW c \in Cpu, load_cr3(c) PROVE Marked'
    BY <1>15 DEF load_cr3
  <1>16. ASSUME NEW c \in Cpu, handle_hazards(c) PROVE Marked'
    BY <1>16 DEF handle_hazards
  <1>17. ASSUME NEW c \in Cpu, iret(c) PROVE Marked'
    BY <1>17 DEF iret
  <1>18. ASSUME NEW c \in Cpu, check_stale(c) PROVE Marked'
    BY <1>18 DEF check_stale, AfterFlush
  <1>19. ASSUME NEW c \in Cpu, clear_stale(c) PROVE Marked'
    BY <1>19 DEF clear_stale
  <1>20. ASSUME NEW c \in Cpu, flush(c) PROVE Marked'
    BY <1>20 DEF flush, AfterFlush
  <1>21. ASSUME NEW c \in Cpu, do_deferred_nmi_work(c) PROVE Marked'
    BY <1>21 DEF do_deferred_nmi_work
  <1>22. ASSUME NEW c \in Cpu, clear_mask(c) PROVE Marked'
    BY <1>22 DEF clear_mask
  <1>23. ASSUME NEW c \in Cpu, nmi_in_kernel(c) PROVE Marked'
    BY <1>23 DEF nmi_in_kernel, EarlyNmiWork
  <1>24. ASSUME NEW c \in Cpu, nmi_in_user(c) PROVE Marked'
    BY <1>24 DEF nmi_in_user, EarlyNmiWork
  <1> HIDE DEF IInv, QuietInv, OneRevoker, NmiOnce, Untouched, Marked, MustFlush, Flushing, Loop
  <1> QED
    BY <1>1, <1>2, <1>3, <1>4, <1>5, <1>6, <1>7, <1>8, <1>9, <1>10, <1>11, <1>12, <1>13,
       <1>14, <1>15, <1>16, <1>17, <1>18, <1>19, <1>20, <1>21, <1>22, <1>23, <1>24
    DEF Next, Shootdown, Local, Nmi

LEMMA QuietStart ==
    ASSUME Start({g1}), others = OtherNmis, cur = [c \in Cpu |-> Target]
    PROVE  QuietInv
  <1> USE CpuZero, PagesAssumption
  <1>1. OneRevoker
    BY DEF Start, OneRevoker, Loop
  <1>2. NmiOnce /\ Untouched
    BY DEF Start, NmiOnce, Untouched, Loop
  <1>3. Marked
    BY DEF Start, Marked, Loop
  <1> QED
    BY <1>1, <1>2, <1>3 DEF QuietInv

\* A marked CPU in user space is one that CPU 0 still waits for.
LEMMA QuietUse ==
    ASSUME IInv, QuietInv
    PROVE  NoStaleUse
  <1> SUFFICES ASSUME NEW c \in Cpu, pc[c] = "user", NEW g \in tlb[c], page[g] = "revoked"
               PROVE  FALSE
    BY DEF NoStaleUse
  <1>1. g = g1 /\ pc[0] \notin Loop \cup {"merge"}
    BY DEF QuietInv, OneRevoker
  <1>2. g \in OldEntries(c)
    <2>1. \A d \in Cpu : pc[d] # "merge"
      BY <1>1, CpuZero DEF QuietInv, OneRevoker
    <2> QED
      BY <2>1 DEF OldEntries
  <1>3. c \in stale
    BY <1>2 DEF IInv, NmiWorkKept, StaleTracked
  <1>4. nmi[c]
    BY <1>1, <1>3 DEF QuietInv, Marked, MustFlush, Flushing, Loop
  <1> QED
    BY <1>1, <1>4 DEF QuietInv, NmiOnce

MCIInv == IInv /\ (scene = "quiet" => QuietInv)

LEMMA MCIInvStep ==
    ASSUME MCIInv, [MCNext]_mcVars
    PROVE  MCIInv'
  <1>1. IInv'
    <2>1. [Next]_vars
      BY DEF MCNext, mcVars
    <2> QED
      BY <2>1, IInvStep DEF MCIInv
  <1>2. ASSUME scene' = "quiet" PROVE QuietInv'
    <2>1. CASE UNCHANGED mcVars
      BY <1>2, <2>1 DEF mcVars, vars, MCIInv, QuietInv, OneRevoker, NmiOnce, Untouched, Marked, MustFlush
    <2>2. CASE MCNext
      <3>1. QuietInv /\ IInv /\ Next /\ Quietly
        BY <1>2, <2>2 DEF MCNext, MCIInv, Quietly
      <3> QED
        BY <3>1, OneRevokerStep, NmiOnceStep, UntouchedStep, MarkedStep DEF QuietInv
    <2> QED
      BY <2>1, <2>2
  <1> QED
    BY <1>1, <1>2 DEF MCIInv

(* When one CPU revokes a page and the CPUs stay in the domain, then once   *)
(* shootdown() has returned no CPU runs user code with a translation of     *)
(* that page, however many CPUs there are and wherever the mark, the        *)
(* hazard and the NMI find them.                                            *)
THEOREM RevokedIsUnused == MCSpec => []RevokedUnused
  <1>1. MCInit => MCIInv
    <2> SUFFICES ASSUME MCInit PROVE MCIInv
      OBVIOUS
    <2>1. IInv
      <3>1. others \in 0..OtherNmis /\ \E present \in SUBSET Pages : Start(present)
        BY ShootdownAssumption, PagesAssumption DEF MCInit
      <3> QED
        BY <3>1, StartIInv
    <2>2. ASSUME scene = "quiet" PROVE QuietInv
      BY <2>2, QuietStart DEF MCInit
    <2> QED
      BY <2>1, <2>2 DEF MCIInv
  <1>2. MCIInv => RevokedUnused
    BY QuietUse DEF MCIInv, RevokedUnused
  <1> QED
    BY <1>1, <1>2, MCIInvStep, PTL DEF MCSpec
=============================================================================

------------------------------ MODULE VcpuProofs ------------------------------
(***************************************************************************)
(* Proofs about Vcpu, for every number of ECs and vCPUs of the VMM and     *)
(* every bound on the system calls.                                        *)
(***************************************************************************)
EXTENDS Vcpu, TLAPS

\* From the second handle_hazards of run() to the VM exit.
Late == {"run_poked", "tlb", "invept", "entry"}

\* An EC whose continuation is to resume a vCPU owns one, any other does not;
\* and from run() on the VMCS is that of the vCPU.
Running ==
    /\ \A e \in ECs : e # cur => (cont[e] = "resume" <=> vcpu[e] \in VCPUs)
    /\ pc \in {"user", "iret", "iret_to_user"} <=> V = NoVcpu
    /\ pc \in {"run_sipi", "run_count", "run_hazards", "guest", "exit", "ret"} \cup Late => vmcs = V

\* An NMI that came too late for handle_hazards ends the run.
Interrupted ==
    \/ nmi \/ might_lose
    \/ pc \in Late /\ vmcs \in trashed

\* The mark is set while a guest may hold an outdated translation, HZD_TLB does
\* not survive the second handle_hazards without an NMI, and once shootdown()
\* has sent its NMI or found none necessary, the guest does not run on.
Shot ==
    /\ page = "unmapped" <=> rpc \in {"merge", "scan", "snap", "set", "send", "wait", "done"}
    /\ page # "mapped" /\ rpc # "merge" /\ cached => stale \/ pc = "invept"
    /\ pc \in {"run_count", "run_hazards", "guest"} \cup Late /\ sipi[V] => might_lose
    /\ "TLB" \in hazard /\ pc \in Late \cup {"guest"} => Interrupted \/ rpc = "send"
    /\ page = "revoked" \/ rpc \in {"wait", "done"} =>
           (pc \in {"entry", "guest"} /\ cached => Interrupted)

\* Where the event is that the VMM asked for: in the state page until the first
\* entry of the run, then in the VMCS, in delivery, in the vectoring information.
Carried(v) == \/ inj[v] /\ ~entered[v]
              \/ ent[v] /\ entered[v]

Event ==
    /\ \A v \in VCPUs :
           ~(v = V /\ pc \in {"tlb", "invept", "entry", "guest", "exit", "ret", "finish"}) =>
               (pending[v] => Carried(v))
    /\ \A v \in VCPUs : owner[v] = NoEc => ~pending[v] /\ ~entered[v]
    /\ pc \in {"tlb", "invept", "entry", "guest", "exit"} => entered[V]
    /\ pc \in {"tlb", "invept", "entry"} /\ pending[V] => ent[V]
    /\ pc = "guest" /\ pending[V] => dlv
    /\ pc = "exit" /\ pending[V] =>
           IF reason \in {"FAIL_VMENTRY", "FAIL_STATE"} THEN ent[V]
                                                        ELSE vect /\ reason \notin {"MTF", "INIT"}
    /\ pc = "exit" /\ reason = "FAIL_VMENTRY" => vmcs \in trashed
    /\ pc = "finish" => ~pending[V] /\ ~entered[V]

IInv == OwnerRuns /\ Running /\ Shot /\ Event /\ InjectionKept

-----------------------------------------------------------------------------
\* Truth values.
LEMMA FlagStep ==
    ASSUME TypeOK, Running, [Next]_vars
    PROVE  Flags'
  <1> USE VcpuAssumption
      DEF TypeOK, Flags, Types, Locations, cpustate, signals, vstate, events, memory, remote, V,
          Set, Goto, Running, Late
  <1>1. CASE ret_user_iret
    BY <1>1, Zenon DEF ret_user_iret, handle_hazards
  <1>2. CASE iret_to_user
    BY <1>2, Zenon DEF iret_to_user, fixup_nmi_user_trap
  <1>3. CASE NmiInKernel
    BY <1>3, Zenon DEF NmiInKernel, InKernel, do_early_nmi_work
  <1>4. CASE NmiInUser
    BY <1>4, Zenon DEF NmiInUser, do_early_nmi_work, do_deferred_nmi_work
  <1>5. CASE resume_vcpu
    BY <1>5, Zenon DEF resume_vcpu, handle_hazards
  <1>6. CASE run
    BY <1>6, Zenon DEF run, fetch_spurious_nmi
  <1>7. CASE run_sipi
    BY <1>7, Zenon DEF run_sipi
  <1>8. CASE run_hazards
    BY <1>8, Zenon DEF run_hazards, handle_hazards
  <1>9. CASE run_poked
    BY <1>9, Zenon DEF run_poked, run_after, synthesize_poked_exit
  <1>10. CASE invalidate
    BY <1>10, Zenon DEF invalidate
  <1>11. CASE vmresume
    BY <1>11, Zenon DEF vmresume
  <1>12. CASE GuestDelivered
    BY <1>12, Zenon DEF GuestDelivered
  <1>13. CASE ExitNmi
    BY <1>13, Zenon DEF ExitNmi, VmExit
  <1>14. CASE ExitMtf
    BY <1>14, Zenon DEF ExitMtf, VmExit
  <1>15. CASE handle_vmx
    BY <1>15, ZenonT(60) DEF handle_vmx, maybe_handle_invalid_guest_state, fixup_nmi_user_trap, handle_nmi,
                    reinject, do_early_nmi_work, handle_exception, handle_init, handle_other,
                    synthesize_poked_exit
  <1>16. CASE return_to_vmm
    BY <1>16, Zenon DEF return_to_vmm
  <1>17. CASE sys_finish
    BY <1>17, Zenon DEF sys_finish, release_vcpu
  <1>18. ASSUME NEW v \in VCPUs, NEW e \in BOOLEAN, NEW w \in BOOLEAN, sys_vcpu_ctrl_run(v, e, w) PROVE Flags'
    BY <1>18, Zenon DEF sys_vcpu_ctrl_run, try_acquire
  <1>19. ASSUME NEW v \in VCPUs, sys_vcpu_ctrl_poke(v) PROVE Flags'
    BY <1>19, Zenon DEF sys_vcpu_ctrl_poke
  <1>20. ASSUME NEW v \in VCPUs, poke(v) PROVE Flags'
    BY <1>20, Zenon DEF poke, BeginCall, RGoto, home
  <1>21. CASE RefuseEntry
    BY <1>21, Zenon DEF RefuseEntry
  <1>22. CASE GuestFill
    BY <1>22, Zenon DEF GuestFill
  <1>23. CASE ExitInit
    BY <1>23, Zenon DEF ExitInit, VmExit
  <1>24. CASE ExitOther
    BY <1>24, Zenon DEF ExitOther, VmExit
  <1>25. CASE LoseNmi
    BY <1>25, Zenon DEF LoseNmi
  <1>26. CASE poke_owner
    BY <1>26, Zenon DEF poke_owner, send_nmi, RGoto, home
  <1>27. CASE shootdown
    BY <1>27, Zenon DEF shootdown, send_nmi, RGoto, home
  <1>28. CASE remote_enqueue
    BY <1>28, Zenon DEF remote_enqueue, BeginCall, send_nmi, RGoto, home
  <1>29. CASE revoke
    BY <1>29, Zenon DEF revoke, BeginCall, RGoto, home
  <1>30. CASE UNCHANGED vars
    BY <1>30 DEF vars
  <1> HIDE DEF TypeOK, Flags, Types, Running, Late
  <1> QED
    BY <1>1, <1>2, <1>3, <1>4, <1>5, <1>6, <1>7, <1>8, <1>9, <1>10, <1>11, <1>12, <1>13,
       <1>14, <1>15, <1>16, <1>17, <1>18, <1>19, <1>20, <1>21, <1>22, <1>23, <1>24, <1>25,
       <1>26, <1>27, <1>28, <1>29, <1>30
    DEF Next, Kernel, Remote

\* Everything that is not a truth value.
LEMMA TypeStep ==
    ASSUME TypeOK, Running, [Next]_vars
    PROVE  Types'
  <1> USE VcpuAssumption
      DEF TypeOK, Flags, Types, Locations, cpustate, signals, vstate, events, memory, remote, V,
          Set, Goto, Running, Late
  <1>1. CASE ret_user_iret
    BY <1>1 DEF ret_user_iret, handle_hazards
  <1>2. CASE iret_to_user
    BY <1>2 DEF iret_to_user, fixup_nmi_user_trap
  <1>3. CASE NmiInKernel
    BY <1>3 DEF NmiInKernel, InKernel, do_early_nmi_work
  <1>4. CASE NmiInUser
    BY <1>4 DEF NmiInUser, do_early_nmi_work, do_deferred_nmi_work
  <1>5. CASE resume_vcpu
    BY <1>5 DEF resume_vcpu, handle_hazards
  <1>6. CASE run
    BY <1>6 DEF run, fetch_spurious_nmi
  <1>7. CASE run_sipi
    BY <1>7 DEF run_sipi
  <1>8. CASE run_hazards
    BY <1>8 DEF run_hazards, handle_hazards
  <1>9. CASE run_poked
    <2>1. V \in VCPUs
      BY <1>9 DEF run_poked, run_after
    <2>2. /\ poked[V] \in BOOLEAN /\ (ent[V] \/ inj[V]) \in BOOLEAN
      BY <2>1
    <2>3. entered' \in [VCPUs -> BOOLEAN] /\ mtf' \in [VCPUs -> BOOLEAN] /\ portal' \in [VCPUs -> BOOLEAN]
      BY <1>9, <2>2, ZenonT(60) DEF run_poked, run_after, synthesize_poked_exit
    <2>4. inj' \in [VCPUs -> BOOLEAN] /\ ent' \in [VCPUs -> BOOLEAN]
      BY <1>9, <2>2, ZenonT(60) DEF run_poked, run_after
    <2>5. pc' \in Locations /\ reason' \in {"POKED", "NONE"}
      BY <1>9 DEF run_poked, run_after, synthesize_poked_exit
    <2> QED
      BY <1>9, <2>3, <2>4, <2>5 DEF run_poked, run_after
  <1>10. CASE invalidate
    BY <1>10 DEF invalidate
  <1>11. CASE vmresume
    <2>1. ent' \in [VCPUs -> BOOLEAN]
      BY <1>11 DEF vmresume
    <2>2. pc' \in Locations /\ (reason' = reason \/ reason' = "FAIL_VMENTRY")
      BY <1>11 DEF vmresume
    <2> QED
      BY <1>11, <2>1, <2>2 DEF vmresume
  <1>12. CASE GuestDelivered
    BY <1>12 DEF GuestDelivered
  <1>13. CASE ExitNmi
    BY <1>13 DEF ExitNmi, VmExit
  <1>14. CASE ExitMtf
    BY <1>14 DEF ExitMtf, VmExit
  <1>15. CASE handle_vmx
    <2>1. V \in VCPUs
      BY <1>15 DEF handle_vmx
    <2>2. (ent[V] \/ vect) \in BOOLEAN
      OBVIOUS
    <2>3. ent' \in [VCPUs -> BOOLEAN]
      BY <1>15, <2>2 DEF handle_vmx, maybe_handle_invalid_guest_state, handle_nmi, reinject, handle_exception,
                     handle_init, handle_other
    <2>4. portal' \in [VCPUs -> BOOLEAN] /\ sipi' \in [VCPUs -> BOOLEAN]
      BY <1>15, ZenonT(60) DEF handle_vmx, maybe_handle_invalid_guest_state, handle_nmi, handle_exception,
               handle_init, handle_other, synthesize_poked_exit
    <2>5. pc' \in Locations /\ reason' \in {reason, "POKED"} /\ trashed' \subseteq VCPUs
      BY <1>15 DEF handle_vmx, maybe_handle_invalid_guest_state, fixup_nmi_user_trap, handle_nmi,
               handle_exception, handle_init, handle_other, synthesize_poked_exit
    <2>6. UNCHANGED <<hazard, inj, pending>> /\ mtf' \in [VCPUs -> BOOLEAN]
      BY <1>15 DEF handle_vmx, maybe_handle_invalid_guest_state, handle_nmi,
               handle_exception, handle_init, handle_other
    <2> QED
      BY <1>15, <2>3, <2>4, <2>5, <2>6 DEF handle_vmx
  <1>16. CASE return_to_vmm
    <2>1. /\ entered' = entered \/ entered' = [entered EXCEPT ![V] = FALSE]
          /\ portal' = portal \/ portal' = [portal EXCEPT ![V] = FALSE]
      BY <1>16 DEF return_to_vmm
    <2>2. entered' \in [VCPUs -> BOOLEAN] /\ portal' \in [VCPUs -> BOOLEAN]
      BY <2>1, ZenonT(60)
    <2> QED
      BY <1>16, <2>2, ZenonT(60) DEF return_to_vmm
  <1>17. CASE sys_finish
    BY <1>17 DEF sys_finish, release_vcpu
  <1>18. ASSUME NEW v \in VCPUs, NEW e \in BOOLEAN, NEW w \in BOOLEAN, sys_vcpu_ctrl_run(v, e, w) PROVE Types'
    BY <1>18 DEF sys_vcpu_ctrl_run, try_acquire
  <1>19. ASSUME NEW v \in VCPUs, sys_vcpu_ctrl_poke(v) PROVE Types'
    BY <1>19 DEF sys_vcpu_ctrl_poke
  <1>20. ASSUME NEW v \in VCPUs, poke(v) PROVE Types'
    BY <1>20 DEF poke, BeginCall, RGoto, home
  <1>21. CASE RefuseEntry
    BY <1>21 DEF RefuseEntry
  <1>22. CASE GuestFill
    BY <1>22 DEF GuestFill
  <1>23. CASE ExitInit
    BY <1>23 DEF ExitInit, VmExit
  <1>24. CASE ExitOther
    BY <1>24 DEF ExitOther, VmExit
  <1>25. CASE LoseNmi
    BY <1>25 DEF LoseNmi
  <1>26. CASE poke_owner
    BY <1>26 DEF poke_owner, send_nmi, RGoto, home
  <1>27. CASE shootdown
    <2>1. /\ hazard' \subseteq {"TLB", "RRQ", "SCHED"} /\ page' \in {page, "revoked"}
          /\ rpc' \in {"snap", "done", "set", "send", "wait", "idle"}
      BY <1>27 DEF shootdown, RGoto
    <2> QED
      BY <1>27, <2>1 DEF shootdown, home
  <1>28. CASE remote_enqueue
    <2>1. hazard' \subseteq {"TLB", "RRQ", "SCHED"} /\ rpc' \in {"wake", "idle"}
      BY <1>28 DEF remote_enqueue, RGoto
    <2>2. calls' \in 0..MaxCalls
      BY <1>28 DEF remote_enqueue, BeginCall
    <2> QED
      BY <1>28, <2>1, <2>2 DEF remote_enqueue, home
  <1>29. CASE revoke
    BY <1>29 DEF revoke, BeginCall, RGoto, home
  <1>30. CASE UNCHANGED vars
    BY <1>30 DEF vars
  <1> HIDE DEF TypeOK, Flags, Types, Running, Late
  <1> QED
    BY <1>1, <1>2, <1>3, <1>4, <1>5, <1>6, <1>7, <1>8, <1>9, <1>10, <1>11, <1>12, <1>13,
       <1>14, <1>15, <1>16, <1>17, <1>18, <1>19, <1>20, <1>21, <1>22, <1>23, <1>24, <1>25,
       <1>26, <1>27, <1>28, <1>29, <1>30
    DEF Next, Kernel, Remote

\* Who runs what: only handle_hazards changes the EC, and only between run()s.
LEMMA OwnerStep ==
    ASSUME OwnerRuns, Running, [Next]_vars
    PROVE  Owned' /\ Running'
  <1> USE VcpuAssumption
      DEF TypeOK, Flags, Types, Locations, cpustate, signals, vstate, events, memory, remote, V,
          Set, Goto, OwnerRuns, Owned, Running, Late
  <1>1. CASE ret_user_iret
    BY <1>1 DEF ret_user_iret, handle_hazards
  <1>2. CASE iret_to_user
    BY <1>2 DEF iret_to_user, fixup_nmi_user_trap
  <1>3. CASE NmiInKernel
    BY <1>3 DEF NmiInKernel, InKernel, do_early_nmi_work
  <1>4. CASE NmiInUser
    BY <1>4 DEF NmiInUser, do_early_nmi_work, do_deferred_nmi_work
  <1>5. CASE resume_vcpu
    BY <1>5 DEF resume_vcpu, handle_hazards
  <1>6. CASE run
    BY <1>6 DEF run, fetch_spurious_nmi
  <1>7. CASE run_sipi
    BY <1>7 DEF run_sipi
  <1>8. CASE run_hazards
    BY <1>8 DEF run_hazards, handle_hazards
  <1>9. CASE run_poked
    BY <1>9 DEF run_poked, run_after, synthesize_poked_exit
  <1>10. CASE invalidate
    BY <1>10 DEF invalidate
  <1>11. CASE vmresume
    BY <1>11 DEF vmresume
  <1>12. CASE GuestDelivered
    BY <1>12 DEF GuestDelivered
  <1>13. CASE ExitNmi
    BY <1>13 DEF ExitNmi, VmExit
  <1>14. CASE ExitMtf
    BY <1>14 DEF ExitMtf, VmExit
  <1>15. CASE handle_vmx
    BY <1>15 DEF handle_vmx, maybe_handle_invalid_guest_state, fixup_nmi_user_trap, handle_nmi,
                 reinject, do_early_nmi_work, handle_exception, handle_init, handle_other,
                 synthesize_poked_exit
  <1>16. CASE return_to_vmm
    BY <1>16 DEF return_to_vmm
  <1>17. CASE sys_finish
    BY <1>17 DEF sys_finish, release_vcpu
  <1>18. ASSUME NEW v \in VCPUs, NEW e \in BOOLEAN, NEW w \in BOOLEAN, sys_vcpu_ctrl_run(v, e, w) PROVE Owned' /\ Running'
    BY <1>18 DEF sys_vcpu_ctrl_run, try_acquire
  <1>19. ASSUME NEW v \in VCPUs, sys_vcpu_ctrl_poke(v) PROVE Owned' /\ Running'
    BY <1>19 DEF sys_vcpu_ctrl_poke
  <1>20. ASSUME NEW v \in VCPUs, poke(v) PROVE Owned' /\ Running'
    BY <1>20 DEF poke, BeginCall, RGoto, home
  <1>21. CASE RefuseEntry
    BY <1>21 DEF RefuseEntry
  <1>22. CASE GuestFill
    BY <1>22 DEF GuestFill
  <1>23. CASE ExitInit
    BY <1>23 DEF ExitInit, VmExit
  <1>24. CASE ExitOther
    BY <1>24 DEF ExitOther, VmExit
  <1>25. CASE LoseNmi
    BY <1>25 DEF LoseNmi
  <1>26. CASE poke_owner
    BY <1>26 DEF poke_owner, send_nmi, RGoto, home
  <1>27. CASE shootdown
    BY <1>27 DEF shootdown, send_nmi, RGoto, home
  <1>28. CASE remote_enqueue
    BY <1>28 DEF remote_enqueue, BeginCall, send_nmi, RGoto, home
  <1>29. CASE revoke
    BY <1>29 DEF revoke, BeginCall, RGoto, home
  <1>30. CASE UNCHANGED vars
    BY <1>30 DEF vars
  <1> HIDE DEF TypeOK, Flags, Types, OwnerRuns, Owned, Running, Late
  <1> QED
    BY <1>1, <1>2, <1>3, <1>4, <1>5, <1>6, <1>7, <1>8, <1>9, <1>10, <1>11, <1>12, <1>13,
       <1>14, <1>15, <1>16, <1>17, <1>18, <1>19, <1>20, <1>21, <1>22, <1>23, <1>24, <1>25,
       <1>26, <1>27, <1>28, <1>29, <1>30
    DEF Next, Kernel, Remote

\* Marks, HZD_TLB and NMIs between revocations on the other CPU and VM entries.
LEMMA ShotStep ==
    ASSUME OwnerRuns, Running, Shot, [Next]_vars
    PROVE  Shot'
  <1> USE VcpuAssumption
      DEF TypeOK, Flags, Types, Locations, cpustate, signals, vstate, events, memory, remote, V,
          Set, Goto, OwnerRuns, Owned, Running, Late, Shot, Interrupted
  <1>1. CASE ret_user_iret
    BY <1>1 DEF ret_user_iret, handle_hazards
  <1>2. CASE iret_to_user
    BY <1>2 DEF iret_to_user, fixup_nmi_user_trap
  <1>3. CASE NmiInKernel
    BY <1>3 DEF NmiInKernel, InKernel, do_early_nmi_work
  <1>4. CASE NmiInUser
    BY <1>4 DEF NmiInUser, do_early_nmi_work, do_deferred_nmi_work
  <1>5. CASE resume_vcpu
    BY <1>5 DEF resume_vcpu, handle_hazards
  <1>6. CASE run
    BY <1>6 DEF run, fetch_spurious_nmi
  <1>7. CASE run_sipi
    BY <1>7 DEF run_sipi
  <1>8. CASE run_hazards
    BY <1>8 DEF run_hazards, handle_hazards
  <1>9. CASE run_poked
    BY <1>9 DEF run_poked, run_after, synthesize_poked_exit
  <1>10. CASE invalidate
    BY <1>10 DEF invalidate
  <1>11. CASE vmresume
    BY <1>11 DEF vmresume
  <1>12. CASE GuestDelivered
    BY <1>12 DEF GuestDelivered
  <1>13. CASE ExitNmi
    BY <1>13 DEF ExitNmi, VmExit
  <1>14. CASE ExitMtf
    BY <1>14 DEF ExitMtf, VmExit
  <1>15. CASE handle_vmx
    BY <1>15 DEF handle_vmx, maybe_handle_invalid_guest_state, fixup_nmi_user_trap, handle_nmi,
                 reinject, do_early_nmi_work, handle_exception, handle_init, handle_other,
                 synthesize_poked_exit
  <1>16. CASE return_to_vmm
    BY <1>16 DEF return_to_vmm
  <1>17. CASE sys_finish
    BY <1>17 DEF sys_finish, release_vcpu
  <1>18. ASSUME NEW v \in VCPUs, NEW e \in BOOLEAN, NEW w \in BOOLEAN, sys_vcpu_ctrl_run(v, e, w) PROVE Shot'
    BY <1>18 DEF sys_vcpu_ctrl_run, try_acquire
  <1>19. ASSUME NEW v \in VCPUs, sys_vcpu_ctrl_poke(v) PROVE Shot'
    BY <1>19 DEF sys_vcpu_ctrl_poke
  <1>20. ASSUME NEW v \in VCPUs, poke(v) PROVE Shot'
    BY <1>20 DEF poke, BeginCall, RGoto, home
  <1>21. CASE RefuseEntry
    BY <1>21 DEF RefuseEntry
  <1>22. CASE GuestFill
    BY <1>22 DEF GuestFill
  <1>23. CASE ExitInit
    BY <1>23 DEF ExitInit, VmExit
  <1>24. CASE ExitOther
    BY <1>24 DEF ExitOther, VmExit
  <1>25. CASE LoseNmi
    BY <1>25 DEF LoseNmi
  <1>26. CASE poke_owner
    BY <1>26 DEF poke_owner, send_nmi, RGoto, home
  <1>27. CASE shootdown
    BY <1>27 DEF shootdown, send_nmi, RGoto, home
  <1>28. CASE remote_enqueue
    BY <1>28 DEF remote_enqueue, BeginCall, send_nmi, RGoto, home
  <1>29. CASE revoke
    BY <1>29 DEF revoke, BeginCall, RGoto, home
  <1>30. CASE UNCHANGED vars
    BY <1>30 DEF vars
  <1> HIDE DEF TypeOK, Flags, Types, OwnerRuns, Owned, Running, Late, Shot, Interrupted
  <1> QED
    BY <1>1, <1>2, <1>3, <1>4, <1>5, <1>6, <1>7, <1>8, <1>9, <1>10, <1>11, <1>12, <1>13,
       <1>14, <1>15, <1>16, <1>17, <1>18, <1>19, <1>20, <1>21, <1>22, <1>23, <1>24, <1>25,
       <1>26, <1>27, <1>28, <1>29, <1>30
    DEF Next, Kernel, Remote

\* The event on its way into the guest.
LEMMA EventStep ==
    ASSUME OwnerRuns, Running, Event, [Next]_vars
    PROVE  Event'
  <1> USE VcpuAssumption
      DEF TypeOK, Flags, Types, Locations, cpustate, signals, vstate, events, memory, remote, V,
          Set, Goto, OwnerRuns, Owned, Running, Late, Event, Carried
  <1>1. CASE ret_user_iret
    BY <1>1 DEF ret_user_iret, handle_hazards
  <1>2. CASE iret_to_user
    BY <1>2 DEF iret_to_user, fixup_nmi_user_trap
  <1>3. CASE NmiInKernel
    BY <1>3 DEF NmiInKernel, InKernel, do_early_nmi_work
  <1>4. CASE NmiInUser
    BY <1>4 DEF NmiInUser, do_early_nmi_work, do_deferred_nmi_work
  <1>5. CASE resume_vcpu
    BY <1>5 DEF resume_vcpu, handle_hazards
  <1>6. CASE run
    BY <1>6 DEF run, fetch_spurious_nmi
  <1>7. CASE run_sipi
    BY <1>7 DEF run_sipi
  <1>8. CASE run_hazards
    BY <1>8 DEF run_hazards, handle_hazards
  <1>9. CASE run_poked
    BY <1>9 DEF run_poked, run_after, synthesize_poked_exit
  <1>10. CASE invalidate
    BY <1>10 DEF invalidate
  <1>11. CASE vmresume
    BY <1>11 DEF vmresume
  <1>12. CASE GuestDelivered
    BY <1>12 DEF GuestDelivered
  <1>13. CASE ExitNmi
    BY <1>13 DEF ExitNmi, VmExit
  <1>14. CASE ExitMtf
    BY <1>14 DEF ExitMtf, VmExit
  <1>15. CASE handle_vmx
    BY <1>15 DEF handle_vmx, maybe_handle_invalid_guest_state, fixup_nmi_user_trap, handle_nmi,
                 reinject, do_early_nmi_work, handle_exception, handle_init, handle_other,
                 synthesize_poked_exit
  <1>16. CASE return_to_vmm
    BY <1>16 DEF return_to_vmm
  <1>17. CASE sys_finish
    BY <1>17 DEF sys_finish, release_vcpu
  <1>18. ASSUME NEW v \in VCPUs, NEW e \in BOOLEAN, NEW w \in BOOLEAN, sys_vcpu_ctrl_run(v, e, w) PROVE Event'
    BY <1>18 DEF sys_vcpu_ctrl_run, try_acquire
  <1>19. ASSUME NEW v \in VCPUs, sys_vcpu_ctrl_poke(v) PROVE Event'
    BY <1>19 DEF sys_vcpu_ctrl_poke
  <1>20. ASSUME NEW v \in VCPUs, poke(v) PROVE Event'
    BY <1>20 DEF poke, BeginCall, RGoto, home
  <1>21. CASE RefuseEntry
    BY <1>21 DEF RefuseEntry
  <1>22. CASE GuestFill
    BY <1>22 DEF GuestFill
  <1>23. CASE ExitInit
    BY <1>23 DEF ExitInit, VmExit
  <1>24. CASE ExitOther
    BY <1>24 DEF ExitOther, VmExit
  <1>25. CASE LoseNmi
    BY <1>25 DEF LoseNmi
  <1>26. CASE poke_owner
    BY <1>26 DEF poke_owner, send_nmi, RGoto, home
  <1>27. CASE shootdown
    BY <1>27 DEF shootdown, send_nmi, RGoto, home
  <1>28. CASE remote_enqueue
    BY <1>28 DEF remote_enqueue, BeginCall, send_nmi, RGoto, home
  <1>29. CASE revoke
    BY <1>29 DEF revoke, BeginCall, RGoto, home
  <1>30. CASE UNCHANGED vars
    BY <1>30 DEF vars
  <1> HIDE DEF TypeOK, Flags, Types, OwnerRuns, Owned, Running, Late, Event, Carried
  <1> QED
    BY <1>1, <1>2, <1>3, <1>4, <1>5, <1>6, <1>7, <1>8, <1>9, <1>10, <1>11, <1>12, <1>13,
       <1>14, <1>15, <1>16, <1>17, <1>18, <1>19, <1>20, <1>21, <1>22, <1>23, <1>24, <1>25,
       <1>26, <1>27, <1>28, <1>29, <1>30
    DEF Next, Kernel, Remote

\* What return_to_vmm will report.
LEMMA InjectionStep ==
    ASSUME OwnerRuns, Running, Event, InjectionKept, [Next]_vars
    PROVE  InjectionKept'
  <1> USE VcpuAssumption
      DEF TypeOK, Flags, Types, Locations, cpustate, signals, vstate, events, memory, remote, V,
          Set, Goto, OwnerRuns, Owned, Running, Late, Event, Carried, InjectionKept, reported
  <1>1. CASE ret_user_iret
    BY <1>1 DEF ret_user_iret, handle_hazards
  <1>2. CASE iret_to_user
    BY <1>2 DEF iret_to_user, fixup_nmi_user_trap
  <1>3. CASE NmiInKernel
    BY <1>3 DEF NmiInKernel, InKernel, do_early_nmi_work
  <1>4. CASE NmiInUser
    BY <1>4 DEF NmiInUser, do_early_nmi_work, do_deferred_nmi_work
  <1>5. CASE resume_vcpu
    BY <1>5 DEF resume_vcpu, handle_hazards
  <1>6. CASE run
    BY <1>6 DEF run, fetch_spurious_nmi
  <1>7. CASE run_sipi
    BY <1>7 DEF run_sipi
  <1>8. CASE run_hazards
    BY <1>8 DEF run_hazards, handle_hazards
  <1>9. CASE run_poked
    BY <1>9 DEF run_poked, run_after, synthesize_poked_exit
  <1>10. CASE invalidate
    BY <1>10 DEF invalidate
  <1>11. CASE vmresume
    BY <1>11 DEF vmresume
  <1>12. CASE GuestDelivered
    BY <1>12 DEF GuestDelivered
  <1>13. CASE ExitNmi
    BY <1>13 DEF ExitNmi, VmExit
  <1>14. CASE ExitMtf
    BY <1>14 DEF ExitMtf, VmExit
  <1>15. CASE handle_vmx
    BY <1>15 DEF handle_vmx, maybe_handle_invalid_guest_state, fixup_nmi_user_trap, handle_nmi,
                 reinject, do_early_nmi_work, handle_exception, handle_init, handle_other,
                 synthesize_poked_exit
  <1>16. CASE return_to_vmm
    BY <1>16 DEF return_to_vmm
  <1>17. CASE sys_finish
    BY <1>17 DEF sys_finish, release_vcpu
  <1>18. ASSUME NEW v \in VCPUs, NEW e \in BOOLEAN, NEW w \in BOOLEAN, sys_vcpu_ctrl_run(v, e, w) PROVE InjectionKept'
    BY <1>18 DEF sys_vcpu_ctrl_run, try_acquire
  <1>19. ASSUME NEW v \in VCPUs, sys_vcpu_ctrl_poke(v) PROVE InjectionKept'
    BY <1>19 DEF sys_vcpu_ctrl_poke
  <1>20. ASSUME NEW v \in VCPUs, poke(v) PROVE InjectionKept'
    BY <1>20 DEF poke, BeginCall, RGoto, home
  <1>21. CASE RefuseEntry
    BY <1>21 DEF RefuseEntry
  <1>22. CASE GuestFill
    BY <1>22 DEF GuestFill
  <1>23. CASE ExitInit
    BY <1>23 DEF ExitInit, VmExit
  <1>24. CASE ExitOther
    BY <1>24 DEF ExitOther, VmExit
  <1>25. CASE LoseNmi
    BY <1>25 DEF LoseNmi
  <1>26. CASE poke_owner
    BY <1>26 DEF poke_owner, send_nmi, RGoto, home
  <1>27. CASE shootdown
    BY <1>27 DEF shootdown, send_nmi, RGoto, home
  <1>28. CASE remote_enqueue
    BY <1>28 DEF remote_enqueue, BeginCall, send_nmi, RGoto, home
  <1>29. CASE revoke
    BY <1>29 DEF revoke, BeginCall, RGoto, home
  <1>30. CASE UNCHANGED vars
    BY <1>30 DEF vars
  <1> HIDE DEF TypeOK, Flags, Types, OwnerRuns, Owned, Running, Late, Event, Carried, InjectionKept, reported
  <1> QED
    BY <1>1, <1>2, <1>3, <1>4, <1>5, <1>6, <1>7, <1>8, <1>9, <1>10, <1>11, <1>12, <1>13,
       <1>14, <1>15, <1>16, <1>17, <1>18, <1>19, <1>20, <1>21, <1>22, <1>23, <1>24, <1>25,
       <1>26, <1>27, <1>28, <1>29, <1>30
    DEF Next, Kernel, Remote

-----------------------------------------------------------------------------
LEMMA InitIInv == Init => IInv
  <1> SUFFICES ASSUME Init PROVE IInv
    OBVIOUS
  <1> USE VcpuAssumption DEF Init, V
  <1>1. cur \in ECs /\ V = NoVcpu
    OBVIOUS
  <1>2. Flags
    BY Zenon DEF Flags
  <1>3. Types
    BY <1>1 DEF Types, Locations
  <1>4. Owned /\ Running
    BY <1>1 DEF Owned, Running, Late
  <1>5. Shot
    BY <1>1 DEF Shot, Late
  <1>6. Event /\ InjectionKept
    BY <1>1 DEF Event, InjectionKept
  <1> QED
    BY <1>2, <1>3, <1>4, <1>5, <1>6 DEF IInv, OwnerRuns, TypeOK

LEMMA IInvStep ==
    ASSUME IInv, [Next]_vars
    PROVE  IInv'
  <1>1. OwnerRuns' /\ Running'
    BY FlagStep, TypeStep, OwnerStep DEF IInv, OwnerRuns, TypeOK
  <1> QED
    BY <1>1, ShotStep, EventStep, InjectionStep DEF IInv

LEMMA Invariance == Spec => []IInv
  BY InitIInv, IInvStep, PTL DEF Spec

(* However the ECs of the VMM are preempted and resumed, a vCPU is run only *)
(* by the EC that owns it, and the VMCS that is current from run() to the   *)
(* VM exit is its own.                                                      *)
THEOREM OwnerAlwaysRuns == Spec => []OwnerRuns
  <1>1. IInv => OwnerRuns
    BY DEF IInv
  <1> QED
    BY <1>1, Invariance, PTL

(* A guest that may receive NMIs and has none pending does not execute with *)
(* a translation of a page whose revocation is complete: wherever in run()  *)
(* the NMI of the shootdown arrived, the VM entry failed or the guest was   *)
(* left, and the mark is looked at before the next entry.                   *)
THEOREM GuestTlbIsFresh == Spec => []GuestTlbFresh
  <1>1. IInv => GuestTlbFresh
    BY DEF IInv, Shot, Interrupted, Late, GuestTlbFresh
  <1> QED
    BY <1>1, Invariance, PTL

(* An event that the VMM asked for reaches the guest or is reported as not  *)
(* delivered, whatever pokes, NMIs, failed entries and interrupted          *)
(* deliveries come between.                                                 *)
THEOREM InjectionIsKept == Spec => []InjectionKept
  <1>1. IInv => InjectionKept
    BY DEF IInv
  <1> QED
    BY <1>1, Invariance, PTL
=============================================================================

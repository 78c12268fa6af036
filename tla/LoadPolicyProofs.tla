-------------------------- MODULE LoadPolicyProofs --------------------------
(***************************************************************************)
(* Proofs about LoadPolicy for any targets, entries, rules and needs: the  *)
(* types, the ownership of the pending entries, the accounting of the lent *)
(* rules, and that the protocol implements RuleLeases.                     *)
(***************************************************************************)
EXTENDS LoadPolicy, TLAPS

USE LoadPolicyAssumption DEF entryVars, policyVars, daemonVars

\* Every variable keeps its type, and a live entry records at least one rule.
LEMMA TypeStep == TypeOK /\ [Next]_vars => TypeOK'
<1> SUFFICES ASSUME TypeOK, [Next]_vars PROVE TypeOK'
  OBVIOUS
<1> USE DEF TypeOK, PcStates, Contexts, Live, Of
<1>1. ASSUME NEW p \in Procs, Allow(p)  PROVE TypeOK'
  BY <1>1 DEF Allow, MissingRules
<1>2. ASSUME NEW p \in Procs, InjectFails(p)  PROVE TypeOK'
  BY <1>2 DEF InjectFails, Revoke
<1>3. ASSUME NEW p \in Procs, PublishNothing(p)  PROVE TypeOK'
  BY <1>3 DEF PublishNothing
<1>4. ASSUME NEW p \in Procs, PublishNoMemory(p)  PROVE TypeOK'
  BY <1>4 DEF PublishNoMemory, Revoke
<1>5. ASSUME NEW p \in Procs, PublishLocked(p)  PROVE TypeOK'
  BY <1>5 DEF PublishLocked
<1>6. ASSUME NEW p \in Procs, Schedule(p)  PROVE TypeOK'
  BY <1>6 DEF Schedule
<1>7. ASSUME NEW p \in Procs, PublishDone(p)  PROVE TypeOK'
  BY <1>7 DEF PublishDone
<1>8. ASSUME NEW p \in Procs, Exec(p)  PROVE TypeOK'
  BY <1>8 DEF Exec
<1>9. ASSUME NEW p \in Procs, Request(p)  PROVE TypeOK'
  BY <1>9 DEF Request
<1>10. ASSUME NEW p \in Procs, NoDaemon(p)  PROVE TypeOK'
  BY <1>10 DEF NoDaemon
<1>11. ASSUME NEW p \in Procs, Die(p)  PROVE TypeOK'
  BY <1>11 DEF Die
<1>12. ASSUME NEW p \in Procs, RestoreLocked(p)  PROVE TypeOK'
  BY <1>12 DEF RestoreLocked
<1>13. ASSUME NEW c \in Contexts, CancelSync(c)  PROVE TypeOK'
  BY <1>13 DEF CancelSync
<1>14. ASSUME NEW c \in Contexts, RestoreAndFree(c)  PROVE TypeOK'
  BY <1>14 DEF RestoreAndFree, Revoke
<1>15. ASSUME NEW e \in Entries, TimerFires(e)  PROVE TypeOK'
  BY <1>15 DEF TimerFires
<1>16. ASSUME NEW e \in Entries, TimeoutLocked(e)  PROVE TypeOK'
  BY <1>16 DEF TimeoutLocked
<1>17. ASSUME NEW e \in Entries, TimeoutRestores(e)  PROVE TypeOK'
  BY <1>17 DEF TimeoutRestores, Revoke
<1>18. ASSUME NEW r \in Rules, SetSepolicy(r)  PROVE TypeOK'
  BY <1>18 DEF SetSepolicy
<1>19. ASSUME Answer  PROVE TypeOK'
  BY <1>19 DEF Answer
<1>20. ASSUME DaemonRestart  PROVE TypeOK'
  BY <1>20 DEF DaemonRestart
<1>21. CASE UNCHANGED vars
  BY <1>21 DEF vars
<1>22. QED
  BY <1>1, <1>2, <1>3, <1>4, <1>5, <1>6, <1>7, <1>8, <1>9, <1>10, <1>11,
     <1>12, <1>13, <1>14, <1>15, <1>16, <1>17, <1>18, <1>19, <1>20, <1>21
  DEF Next, TargetKernel, TargetUser, Timeout

\* Every variable keeps its type, and a live entry has rules to take back: the
\* pending list of tamisu_zygote_probe.c, its timeouts, and the policy.
THEOREM TypeCorrect == Spec => []TypeOK
<1>1. Init => TypeOK
  <2> SUFFICES ASSUME Init PROVE TypeOK
    OBVIOUS
  <2>1. /\ policy \subseteq Rules /\ explicit \subseteq Rules
        /\ pc \in [Procs -> PcStates]
        /\ local \in [Procs -> SUBSET Rules]
        /\ newest \in [Procs -> Entries \cup {None}]
    BY DEF Init, PcStates
  <2>2. /\ mem \in [Entries -> {"unused", "live", "freed"}]
        /\ tgid \in [Entries -> Procs \cup {None}]
        /\ added \in [Entries -> SUBSET Rules]
        /\ pending \subseteq Entries
        /\ timer \in [Entries -> {"idle", "armed", "locking", "restoring"}]
    BY DEF Init
  <2>3. /\ todo \in [Contexts -> SUBSET Entries]
        /\ cur \in [Contexts -> Entries \cup {None}]
        /\ reqs \subseteq Procs
        /\ serving \in Procs \cup {None}
    BY DEF Init
  <2>4. \A e \in Live : added[e] # {}
    <3>1. mem = [e \in Entries |-> "unused"]
      BY SMT DEF Init
    <3>2. QED  BY ONLY <3>1 DEF Live
  <2>5. QED  BY <2>1, <2>2, <2>3, <2>4 DEF TypeOK
<1>2. QED  BY <1>1, TypeStep, PTL DEF Spec

\* The ownership protocol is inductive.
LEMMA ProtocolStep == TypeOK /\ ProtocolInv /\ [Next]_vars => ProtocolInv'
<1> SUFFICES ASSUME TypeOK, ProtocolInv, [Next]_vars PROVE ProtocolInv'
  OBVIOUS
<1> USE DEF TypeOK, Contexts, Live, Of, OnPrivateList, ProtocolInv,
            NoUseAfterFree, OneOwner, TargetInv, DaemonInv, CancelledInv
<1>1. ASSUME NEW p \in Procs, Allow(p)  PROVE ProtocolInv'
  BY <1>1 DEF Allow, MissingRules
<1>2. ASSUME NEW p \in Procs, InjectFails(p)  PROVE ProtocolInv'
  BY <1>2 DEF InjectFails, Revoke
<1>3. ASSUME NEW p \in Procs, PublishNothing(p)  PROVE ProtocolInv'
  BY <1>3 DEF PublishNothing
<1>4. ASSUME NEW p \in Procs, PublishNoMemory(p)  PROVE ProtocolInv'
  BY <1>4 DEF PublishNoMemory, Revoke
<1>5. ASSUME NEW p \in Procs, PublishLocked(p)  PROVE ProtocolInv'
  <2>1. NoUseAfterFree'  BY <1>5 DEF PublishLocked
  <2>2. OneOwner'  BY <1>5 DEF PublishLocked
  <2>3. TargetInv'  BY <1>5 DEF PublishLocked
  <2>4. DaemonInv'  BY <1>5 DEF PublishLocked
  <2>5. CancelledInv'  BY <1>5 DEF PublishLocked
  <2>6. QED  BY <2>1, <2>2, <2>3, <2>4, <2>5
<1>6. ASSUME NEW p \in Procs, Schedule(p)  PROVE ProtocolInv'
  <2>1. NoUseAfterFree'  BY <1>6 DEF Schedule
  <2>2. OneOwner'  BY <1>6 DEF Schedule
  <2>3. TargetInv'  BY <1>6 DEF Schedule
  <2>4. DaemonInv'  BY <1>6 DEF Schedule
  <2>5. CancelledInv'  BY <1>6 DEF Schedule
  <2>6. QED  BY <2>1, <2>2, <2>3, <2>4, <2>5
<1>7. ASSUME NEW p \in Procs, PublishDone(p)  PROVE ProtocolInv'
  BY <1>7 DEF PublishDone
<1>8. ASSUME NEW p \in Procs, Exec(p)  PROVE ProtocolInv'
  BY <1>8 DEF Exec
<1>9. ASSUME NEW p \in Procs, Request(p)  PROVE ProtocolInv'
  BY <1>9 DEF Request
<1>10. ASSUME NEW p \in Procs, NoDaemon(p)  PROVE ProtocolInv'
  BY <1>10 DEF NoDaemon
<1>11. ASSUME NEW p \in Procs, Die(p)  PROVE ProtocolInv'
  BY <1>11 DEF Die
<1>12. ASSUME NEW p \in Procs, RestoreLocked(p)  PROVE ProtocolInv'
  <2>1. NoUseAfterFree'  BY <1>12 DEF RestoreLocked
  <2>2. OneOwner'  BY <1>12 DEF RestoreLocked
  <2>3. TargetInv'  BY <1>12 DEF RestoreLocked
  <2>4. DaemonInv'  BY <1>12 DEF RestoreLocked
  <2>5. CancelledInv'  BY <1>12 DEF RestoreLocked
  <2>6. QED  BY <2>1, <2>2, <2>3, <2>4, <2>5
<1>13. ASSUME NEW c \in Contexts, CancelSync(c)  PROVE ProtocolInv'
  <2>1. NoUseAfterFree'  BY <1>13 DEF CancelSync
  <2>2. OneOwner'  BY <1>13 DEF CancelSync
  <2>3. TargetInv'  BY <1>13 DEF CancelSync
  <2>4. DaemonInv'  BY <1>13 DEF CancelSync
  <2>5. CancelledInv'  BY <1>13 DEF CancelSync
  <2>6. QED  BY <2>1, <2>2, <2>3, <2>4, <2>5
<1>14. ASSUME NEW c \in Contexts, RestoreAndFree(c)  PROVE ProtocolInv'
  <2>1. NoUseAfterFree'  BY <1>14 DEF RestoreAndFree, Revoke
  <2>2. OneOwner'  BY <1>14 DEF RestoreAndFree, Revoke
  <2>3. TargetInv'  BY <1>14 DEF RestoreAndFree, Revoke
  <2>4. DaemonInv'  BY <1>14 DEF RestoreAndFree, Revoke
  <2>5. CancelledInv'  BY <1>14 DEF RestoreAndFree, Revoke
  <2>6. QED  BY <2>1, <2>2, <2>3, <2>4, <2>5
<1>15. ASSUME NEW e \in Entries, TimerFires(e)  PROVE ProtocolInv'
  BY <1>15 DEF TimerFires
<1>16. ASSUME NEW e \in Entries, TimeoutLocked(e)  PROVE ProtocolInv'
  <2>1. NoUseAfterFree'  BY <1>16 DEF TimeoutLocked
  <2>2. OneOwner'  BY <1>16 DEF TimeoutLocked
  <2>3. TargetInv'  BY <1>16 DEF TimeoutLocked
  <2>4. DaemonInv'  BY <1>16 DEF TimeoutLocked
  <2>5. CancelledInv'  BY <1>16 DEF TimeoutLocked
  <2>6. QED  BY <2>1, <2>2, <2>3, <2>4, <2>5
<1>17. ASSUME NEW e \in Entries, TimeoutRestores(e)  PROVE ProtocolInv'
  <2>1. NoUseAfterFree'  BY <1>17 DEF TimeoutRestores, Revoke
  <2>2. OneOwner'  BY <1>17 DEF TimeoutRestores, Revoke
  <2>3. TargetInv'  BY <1>17 DEF TimeoutRestores, Revoke
  <2>4. DaemonInv'  BY <1>17 DEF TimeoutRestores, Revoke
  <2>5. CancelledInv'  BY <1>17 DEF TimeoutRestores, Revoke
  <2>6. QED  BY <2>1, <2>2, <2>3, <2>4, <2>5
<1>18. ASSUME NEW r \in Rules, SetSepolicy(r)  PROVE ProtocolInv'
  BY <1>18 DEF SetSepolicy
<1>19. ASSUME Answer  PROVE ProtocolInv'
  BY <1>19 DEF Answer
<1>20. ASSUME DaemonRestart  PROVE ProtocolInv'
  BY <1>20 DEF DaemonRestart
<1>21. CASE UNCHANGED vars
  BY <1>21 DEF vars
<1>22. QED
  BY <1>1, <1>2, <1>3, <1>4, <1>5, <1>6, <1>7, <1>8, <1>9, <1>10, <1>11,
     <1>12, <1>13, <1>14, <1>15, <1>16, <1>17, <1>18, <1>19, <1>20, <1>21
  DEF Next, TargetKernel, TargetUser, Timeout

\* The accounting of the lent rules is inductive, given the protocol.
LEMMA GrantStep ==
  TypeOK /\ ProtocolInv /\ GrantInv /\ [Next]_vars => GrantInv'
<1> SUFFICES ASSUME TypeOK, ProtocolInv, GrantInv, [Next]_vars PROVE GrantInv'
  OBVIOUS
<1> USE DEF TypeOK, Contexts, Live, Of, OnPrivateList, ProtocolInv, NoUseAfterFree,
            TargetInv, GrantInv, GrantAccounting, Disjoint, Held
<1>1. ASSUME NEW p \in Procs, Allow(p)  PROVE GrantInv'
  <2>1. GrantAccounting'  BY <1>1 DEF Allow, MissingRules
  <2>2. Disjoint'  BY <1>1 DEF Allow, MissingRules
  <2>3. QED  BY <2>1, <2>2
<1>2. ASSUME NEW p \in Procs, InjectFails(p)  PROVE GrantInv'
  <2>1. GrantAccounting'  BY <1>2 DEF InjectFails, Revoke
  <2>2. Disjoint'  BY <1>2 DEF InjectFails, Revoke
  <2>3. QED  BY <2>1, <2>2
<1>3. ASSUME NEW p \in Procs, PublishNothing(p)  PROVE GrantInv'
  BY <1>3 DEF PublishNothing
<1>4. ASSUME NEW p \in Procs, PublishNoMemory(p)  PROVE GrantInv'
  <2>1. GrantAccounting'  BY <1>4 DEF PublishNoMemory, Revoke
  <2>2. Disjoint'  BY <1>4 DEF PublishNoMemory, Revoke
  <2>3. QED  BY <2>1, <2>2
<1>5. ASSUME NEW p \in Procs, PublishLocked(p)  PROVE GrantInv'
  <2>1. GrantAccounting'
    <3>1. UNCHANGED <<policy, explicit>>
      BY <1>5 DEF PublishLocked
    <3>2. Held' = Held
      BY <1>5 DEF PublishLocked
    <3>3. QED  BY <3>1, <3>2
  <2>2. Disjoint'  BY <1>5 DEF PublishLocked
  <2>3. QED  BY <2>1, <2>2
<1>6. ASSUME NEW p \in Procs, Schedule(p)  PROVE GrantInv'
  BY <1>6 DEF Schedule
<1>7. ASSUME NEW p \in Procs, PublishDone(p)  PROVE GrantInv'
  BY <1>7 DEF PublishDone
<1>8. ASSUME NEW p \in Procs, Exec(p)  PROVE GrantInv'
  BY <1>8 DEF Exec
<1>9. ASSUME NEW p \in Procs, Request(p)  PROVE GrantInv'
  BY <1>9 DEF Request
<1>10. ASSUME NEW p \in Procs, NoDaemon(p)  PROVE GrantInv'
  BY <1>10 DEF NoDaemon
<1>11. ASSUME NEW p \in Procs, Die(p)  PROVE GrantInv'
  BY <1>11 DEF Die
<1>12. ASSUME NEW p \in Procs, RestoreLocked(p)  PROVE GrantInv'
  BY <1>12 DEF RestoreLocked
<1>13. ASSUME NEW c \in Contexts, CancelSync(c)  PROVE GrantInv'
  BY <1>13 DEF CancelSync
<1>14. ASSUME NEW c \in Contexts, RestoreAndFree(c)  PROVE GrantInv'
  <2>1. GrantAccounting'
    <3>1. (Held \subseteq policy)'  BY <1>14 DEF RestoreAndFree, Revoke
    <3>2. (policy \subseteq explicit \cup Held)'
      BY <1>14 DEF RestoreAndFree, Revoke
    <3>3. QED  BY <3>1, <3>2
  <2>2. Disjoint'  BY <1>14 DEF RestoreAndFree, Revoke
  <2>3. QED  BY <2>1, <2>2
<1>15. ASSUME NEW e \in Entries, TimerFires(e)  PROVE GrantInv'
  BY <1>15 DEF TimerFires
<1>16. ASSUME NEW e \in Entries, TimeoutLocked(e)  PROVE GrantInv'
  BY <1>16 DEF TimeoutLocked
<1>17. ASSUME NEW e \in Entries, TimeoutRestores(e)  PROVE GrantInv'
  <2>1. GrantAccounting'  BY <1>17 DEF TimeoutRestores, Revoke
  <2>2. Disjoint'  BY <1>17 DEF TimeoutRestores, Revoke
  <2>3. QED  BY <2>1, <2>2
<1>18. ASSUME NEW r \in Rules, SetSepolicy(r)  PROVE GrantInv'
  BY <1>18 DEF SetSepolicy
<1>19. ASSUME Answer  PROVE GrantInv'
  BY <1>19 DEF Answer
<1>20. ASSUME DaemonRestart  PROVE GrantInv'
  BY <1>20 DEF DaemonRestart
<1>21. CASE UNCHANGED vars
  BY <1>21 DEF vars
<1>22. QED
  BY <1>1, <1>2, <1>3, <1>4, <1>5, <1>6, <1>7, <1>8, <1>9, <1>10, <1>11,
     <1>12, <1>13, <1>14, <1>15, <1>16, <1>17, <1>18, <1>19, <1>20, <1>21
  DEF Next, TargetKernel, TargetUser, Timeout

\* The inductive invariant holds throughout.
LEMMA Inductive == Spec => []IInv
<1>1. Init => IInv
  BY DEF Init, IInv, TypeOK, PcStates, ProtocolInv, NoUseAfterFree, OneOwner, TargetInv,
         DaemonInv, CancelledInv, GrantInv, GrantAccounting, Disjoint, Held, Live, Of,
         OnPrivateList, Contexts
<1>2. IInv /\ [Next]_vars => IInv'
  BY TypeStep, ProtocolStep, GrantStep DEF IInv
<1>3. QED  BY <1>1, <1>2, PTL DEF Spec

\* No context touches an entry that has been freed: zp_native_policy_timeout,
\* the publisher's sweep and the restore ioctl, in any interleaving.
THEOREM NoTouchAfterFree == Spec => []NoUseAfterFree
<1>1. IInv => NoUseAfterFree  BY DEF IInv, ProtocolInv
<1>2. QED  BY <1>1, Inductive, PTL

\* Every live entry has exactly one owner, so it is restored and freed once.
THEOREM OwnedOnce == Spec => []OneOwner
<1>1. IInv => OneOwner  BY DEF IInv, ProtocolInv
<1>2. QED  BY <1>1, Inductive, PTL

\* No lent rule outlives its record, and none disappears before it is taken
\* back.
THEOREM GrantsAccounted == Spec => []GrantAccounting
<1>1. IInv => GrantAccounting  BY DEF IInv, GrantInv
<1>2. QED  BY <1>1, Inductive, PTL

\* When zygiskd answers, whatever is left of the process's entries is being
\* taken back by its timeout.
THEOREM AnswerIsFinal == Spec => AnswerMeansOver
<1> DEFINE Final == \A p \in Procs : serving = p /\ serving' = None => AnsweredIsOver(p)'
<1>1. IInv /\ [Next]_vars => [Final]_vars
  <2> SUFFICES ASSUME IInv, Next, NEW p \in Procs, serving = p, serving' = None
               PROVE  AnsweredIsOver(p)'
    BY DEF vars
  <2>1. Answer
    <3> USE DEF Allow, InjectFails, PublishNothing, PublishNoMemory, PublishLocked,
                Schedule, PublishDone, Exec, Request, NoDaemon, Die,
                RestoreLocked, CancelSync, RestoreAndFree, TimerFires, TimeoutLocked,
                TimeoutRestores, SetSepolicy, DaemonRestart
    <3> QED  BY DEF Next, TargetKernel, TargetUser, Timeout
  <2>2. SUFFICES ASSUME NEW e \in Live, tgid[e] = p  PROVE timer[e] = "restoring"
    BY <2>1 DEF Answer, AnsweredIsOver, Live
  <2>3. e \notin pending
    BY <2>2 DEF IInv, ProtocolInv, DaemonInv, Of
  <2>4. ASSUME NEW c \in Contexts, OnPrivateList(e, c)  PROVE FALSE
    <3>1. c \in Procs
      BY <2>1, <2>4 DEF Answer, OnPrivateList, Contexts, Live
    <3>2. c = p
      BY <2>2, <2>4, <3>1 DEF IInv, ProtocolInv, TargetInv, Live
    <3>3. pc[p] \in {"schedule", "sweep"}
      BY <2>4, <3>1, <3>2 DEF IInv, ProtocolInv, TargetInv, OnPrivateList, Live
    <3>4. pc[p] \in {"waiting", "dead"}
      BY DEF IInv, ProtocolInv, DaemonInv
    <3> QED  BY <3>3, <3>4
  <2> QED  BY <2>2, <2>3, <2>4 DEF IInv, ProtocolInv, OneOwner
<1>2. QED  BY <1>1, Inductive, PTL DEF Spec, AnswerMeansOver

-----------------------------------------------------------------------------
\* The sets on lease, one by one.
LEMMA LeaseMembers ==
  ASSUME NEW S
  PROVE  S \in Leases <=> /\ S # {}
                          /\ (\E p \in Procs : S = local[p]) \/ (\E e \in Live : S = added[e])
BY DEF Leases

\* Taking back what p's task_work or an entry recorded ends that lease only.
LEMMA RevokeEndsLease ==
  ASSUME NEW S \in Leases, Revoke(S), Leases' = Leases \ {S}
  PROVE  RL!Release(S) \/ RL!Forfeit(S)
BY DEF Revoke, RL!Release, RL!Forfeit

\* The steps of the code that change neither the policy nor the set of leases.
Silent == UNCHANGED <<policy, explicit, local, mem, added>>

\* Such a step stutters in the abstract specification.
LEMMA SilentStep == Silent => UNCHANGED RL!vars
BY DEF Silent, RL!vars, Leases, Live

\* Every step of the protocol is a step of RuleLeases or changes nothing there.
LEMMA LeaseStep == IInv /\ [Next]_vars => [RL!Next]_(RL!vars)
<1> SUFFICES ASSUME IInv, [Next]_vars PROVE [RL!Next]_(RL!vars)
  OBVIOUS
<1> USE DEF IInv
<1>a. \A S \in Leases : S \in SUBSET Rules
  BY LeaseMembers DEF TypeOK, Live
<1>1. ASSUME NEW p \in Procs, Allow(p)  PROVE [RL!Next]_(RL!vars)
  <2>1. local[p] = {}
    BY <1>1 DEF Allow, ProtocolInv, TargetInv
  <2>2. CASE UNCHANGED <<policy, local>>
    BY <1>1, <2>2, SilentStep DEF Allow, Silent
  <2>3. CASE MissingRules(p) = {} /\ policy' = policy \cup {} /\ local' = [local EXCEPT ![p] = {}]
    <3>1. local' = local
      BY <2>1, <2>3 DEF TypeOK
    <3> QED  BY <1>1, <2>3, <3>1, SilentStep DEF Allow, Silent
  <2>4. CASE /\ MissingRules(p) # {}
             /\ policy' = policy \cup MissingRules(p)
             /\ local' = [local EXCEPT ![p] = MissingRules(p)]
    <3>1. Leases' = Leases \cup {MissingRules(p)}
      BY <1>1, <2>1, <2>4 DEF Allow, Leases, Live, TypeOK
    <3>2. RL!Take(MissingRules(p))
      BY <1>1, <2>4, <3>1 DEF Allow, RL!Take, MissingRules
    <3>3. MissingRules(p) \in SUBSET Rules
      BY DEF MissingRules
    <3> QED  BY <3>2, <3>3 DEF RL!Next
  <2> QED  BY <1>1, <2>2, <2>3, <2>4 DEF Allow
<1>2. ASSUME NEW p \in Procs, Revoke(local[p]), local' = [local EXCEPT ![p] = {}],
             UNCHANGED <<mem, added>>
      PROVE  [RL!Next]_(RL!vars)
  <2>1. CASE local[p] = {}
    BY <1>2, <2>1, SilentStep DEF Revoke, Silent, TypeOK
  <2>2. CASE local[p] # {}
    <3>1. local[p] \in Leases
      BY <2>2 DEF Leases
    <3>2. Leases' = Leases \ {local[p]}
      BY <1>2, <2>2 DEF Leases, Live, TypeOK, GrantInv, Disjoint
    <3> QED  BY <1>2, <1>a, <3>1, <3>2, RevokeEndsLease DEF RL!Next
  <2> QED  BY <2>1, <2>2
<1>3. ASSUME NEW e \in Live, Revoke(added[e]), added' = [added EXCEPT ![e] = {}],
             mem' = [mem EXCEPT ![e] = "freed"], UNCHANGED local
      PROVE  [RL!Next]_(RL!vars)
  <2>1. added[e] \in Leases
    BY DEF Leases, TypeOK
  <2>2. Leases' = Leases \ {added[e]}
    BY <1>3 DEF Leases, Live, TypeOK, GrantInv, Disjoint
  <2> QED  BY <1>3, <1>a, <2>1, <2>2, RevokeEndsLease DEF RL!Next
<1>4. ASSUME NEW p \in Procs, InjectFails(p)  PROVE [RL!Next]_(RL!vars)
  BY <1>2, <1>4 DEF InjectFails, entryVars
<1>5. ASSUME NEW p \in Procs, PublishNoMemory(p)  PROVE [RL!Next]_(RL!vars)
  BY <1>2, <1>5 DEF PublishNoMemory, entryVars
<1>6. ASSUME NEW p \in Procs, PublishLocked(p)  PROVE [RL!Next]_(RL!vars)
  <2>1. Leases' = Leases
    BY <1>6 DEF PublishLocked, Leases, Live, TypeOK
  <2> QED  BY <1>6, <2>1 DEF PublishLocked, RL!vars
<1>7. ASSUME NEW c \in Contexts, RestoreAndFree(c)  PROVE [RL!Next]_(RL!vars)
  <2>1. cur[c] \in Live
    BY <1>7 DEF RestoreAndFree, ProtocolInv, NoUseAfterFree
  <2> QED  BY <1>3, <1>7, <2>1 DEF RestoreAndFree
<1>8. ASSUME NEW e \in Entries, TimeoutRestores(e)  PROVE [RL!Next]_(RL!vars)
  <2>1. e \in Live
    BY <1>8 DEF TimeoutRestores, ProtocolInv, NoUseAfterFree
  <2> QED  BY <1>3, <1>8, <2>1 DEF TimeoutRestores
<1>9. ASSUME NEW r \in Rules, SetSepolicy(r)  PROVE [RL!Next]_(RL!vars)
  <2>1. RL!Grant({r})
    BY <1>9 DEF SetSepolicy, RL!Grant, Leases, Live
  <2> QED  BY <2>1 DEF RL!Next
<1>10. ASSUME Silent  PROVE [RL!Next]_(RL!vars)
  BY <1>10, SilentStep
<1>11. CASE UNCHANGED vars
  BY <1>10, <1>11 DEF vars, Silent
<1>12. CASE Next
  <2>1. ASSUME NEW p \in Procs,
               \/ PublishNothing(p) \/ Schedule(p) \/ PublishDone(p)
               \/ TargetUser(p) \/ RestoreLocked(p)
        PROVE  Silent
    BY <2>1 DEF Silent, PublishNothing, Schedule, PublishDone, TargetUser, Exec, Request,
                NoDaemon, Die, RestoreLocked
  <2>2. ASSUME NEW c \in Contexts, CancelSync(c)  PROVE Silent
    BY <2>2 DEF Silent, CancelSync
  <2>3. ASSUME NEW e \in Entries, TimerFires(e) \/ TimeoutLocked(e)  PROVE Silent
    BY <2>3 DEF Silent, TimerFires, TimeoutLocked
  <2>4. ASSUME Answer \/ DaemonRestart  PROVE Silent
    BY <2>4 DEF Silent, Answer, DaemonRestart
  <2> QED
    BY <1>1, <1>4, <1>5, <1>6, <1>7, <1>8, <1>9, <1>10, <1>12, <2>1, <2>2, <2>3, <2>4
    DEF Next, TargetKernel, Timeout
<1> QED  BY <1>11, <1>12

\* The pending-entry protocol implements leases on rules.
THEOREM Refinement == Spec => ImplementsLeases
<1>1. Init => RL!Init
  BY DEF Init, RL!Init, Leases, Live
<1>2. QED
  BY <1>1, LeaseStep, Inductive, PTL DEF Spec, ImplementsLeases, RL!Spec
=============================================================================

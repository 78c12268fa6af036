----------------------------- MODULE LoadPolicy -----------------------------
(***************************************************************************)
(* The temporary SELinux permissions of a native injection target          *)
(* (core/tamisu_zygote_probe.c and core/tamisu_rules.c).                   *)
(*                                                                         *)
(* The task_work that redirects a native process first allows the process  *)
(* to load the staged library (tamisu_file_load_policy_allow_current), and *)
(* records what it added.  If the redirection succeeds, the record becomes *)
(* a heap entry on the pending list with a 10 s timeout.  Three contexts   *)
(* may take an entry off the list and revoke its rules: the delayed work,  *)
(* the ioctl zygiskd issues when the process says it has finished loading, *)
(* and a later publication for the same tgid.  The list is protected by a  *)
(* mutex, but each of the three goes on working on the entry after it has  *)
(* dropped the mutex.                                                      *)
(*                                                                         *)
(* Environment: the pid of a dead process is not given to a new one while  *)
(* a request of the dead one still waits in zygiskd.                       *)
(***************************************************************************)
EXTENDS FiniteSets

CONSTANTS Procs,       \* tgids of native targets
          Entries,     \* zp_native_policy_pending objects, allocated once each
          Rules,       \* (source type, target type, permission) triples
          BootPolicy,  \* the rules of the policy loaded at boot
          Needs,       \* Needs[p]: the rules p's domain needs to load the library
          Zygiskd,     \* the daemon thread that issues the restore ioctl
          None         \* no process, no entry

ASSUME LoadPolicyAssumption ==
  /\ BootPolicy \subseteq Rules
  /\ Needs \in [Procs -> SUBSET Rules]
  /\ Zygiskd \notin Procs /\ None \notin Procs /\ None \notin Entries

VARIABLES
  policy,    \* te_avtab of the policy in force: the rules it allows
  explicit,  \* history: rules allowed for good (boot, SET_SEPOLICY, failed revocations)
  pc,        \* where each target stands
  local,     \* native_policy on the task_work's stack: the rules it added
  newest,    \* the entry a publisher has just put on the list
  mem,       \* the allocation of each entry
  tgid, added, pending,  \* the entry's fields; pending stands for the list too
  timer,     \* the entry's delayed_work
  todo,      \* private lists: entries taken off the pending list (old_entries, todo)
  cur,       \* the entry whose timeout a context has cancelled
  reqs,      \* restore requests zygiskd has not read yet
  serving    \* the process whose request zygiskd is serving

vars == <<policy, explicit, pc, local, newest, mem, tgid, added, pending, timer,
          todo, cur, reqs, serving>>

Contexts == Procs \cup {Zygiskd}

entryVars  == <<mem, tgid, added, pending>>
policyVars == <<policy, explicit>>
daemonVars == <<reqs, serving>>

PcStates == {"dead", "exec", "staged", "schedule", "sweep", "loading",
             "waiting", "running"}

Init ==
  /\ policy = BootPolicy /\ explicit = BootPolicy
  /\ pc = [p \in Procs |-> "dead"]
  /\ local = [p \in Procs |-> {}]
  /\ newest = [p \in Procs |-> None]
  /\ mem = [e \in Entries |-> "unused"]
  /\ tgid = [e \in Entries |-> None]
  /\ added = [e \in Entries |-> {}]
  /\ pending = {}
  /\ timer = [e \in Entries |-> "idle"]
  /\ todo = [c \in Contexts |-> {}]
  /\ cur = [c \in Contexts |-> None]
  /\ reqs = {} /\ serving = None

(***************************************************************************)
(* The policy operations.  Each runs under policy_mutex and is one step.   *)
(***************************************************************************)

\* tamisu_file_load_policy_restore, as zp_restore_native_policy_state calls
\* it: the rules are denied, or copying the policy fails; the caller ignores
\* the result and forgets the record either way.
Revoke(S) ==
  \/ policy' = policy \ S /\ UNCHANGED explicit
  \/ S # {} /\ explicit' = explicit \cup S /\ UNCHANGED policy

\* What a load of p must add: the required rules the policy does not allow.
MissingRulesMut(p) == Needs[p]
MissingRules(p) == Needs[p] \ policy

\* tamisu_file_load_policy_allow_current, called by zp_stage_fd; its failure
\* is only logged.
Allow(p) ==
  /\ pc[p] = "exec"
  /\ pc' = [pc EXCEPT ![p] = "staged"]
  /\ \/ /\ policy' = policy \cup MissingRules(p)
        /\ local' = [local EXCEPT ![p] = MissingRules(p)]
     \/ UNCHANGED <<policy, local>>
  /\ UNCHANGED <<explicit, newest, entryVars, timer, todo, cur, daemonVars>>

\* handle_sepolicy: a batch of allow commands from user space.
SetSepolicy(r) ==
  /\ policy' = policy \cup {r}
  /\ explicit' = explicit \cup {r}
  /\ UNCHANGED <<pc, local, newest, entryVars, timer, todo, cur, daemonVars>>

(***************************************************************************)
(* The target process.                                                     *)
(***************************************************************************)

\* execve of a native target: the LSM hook queues the task_work.
Exec(p) ==
  /\ \/ pc[p] = "running"
     \/ pc[p] = "dead" /\ p \notin reqs /\ serving # p
  /\ pc' = [pc EXCEPT ![p] = "exec"]
  /\ UNCHANGED <<policyVars, local, newest, entryVars, timer, todo, cur, daemonVars>>

\* A staging step after the policy change fails: the task_work takes its
\* rules back and the process runs without injection.
InjectFailsMut(p) ==
  /\ pc[p] = "staged"
  /\ local' = [local EXCEPT ![p] = {}]
  /\ pc' = [pc EXCEPT ![p] = "running"]
  /\ UNCHANGED <<policyVars, newest, entryVars, timer, todo, cur, daemonVars>>
InjectFails(p) ==
  /\ pc[p] = "staged"
  /\ Revoke(local[p])
  /\ local' = [local EXCEPT ![p] = {}]
  /\ pc' = [pc EXCEPT ![p] = "running"]
  /\ UNCHANGED <<newest, entryVars, timer, todo, cur, daemonVars>>

\* zp_publish_native_policy_state, when there is nothing to publish ...
PublishNothing(p) ==
  /\ pc[p] = "staged" /\ local[p] = {}
  /\ pc' = [pc EXCEPT ![p] = "loading"]
  /\ UNCHANGED <<policyVars, local, newest, entryVars, timer, todo, cur, daemonVars>>

\* ... when no entry can be allocated ...
PublishNoMemory(p) ==
  /\ pc[p] = "staged" /\ local[p] # {}
  /\ Revoke(local[p])
  /\ local' = [local EXCEPT ![p] = {}]
  /\ pc' = [pc EXCEPT ![p] = "loading"]
  /\ UNCHANGED <<newest, entryVars, timer, todo, cur, daemonVars>>

Of(p) == {e \in pending : tgid[e] = p}

\* ... and the section under zp_native_policy_lock that replaces the entries
\* of the same tgid by the new one.
PublishLocked(p) ==
  /\ local[p] # {}
  /\ pc[p] = "staged"
  /\ \E e \in Entries :
       /\ mem[e] = "unused"
       /\ mem' = [mem EXCEPT ![e] = "live"]
       /\ tgid' = [tgid EXCEPT ![e] = p]
       /\ added' = [added EXCEPT ![e] = local[p]]
       /\ pending' = (pending \ Of(p)) \cup {e}
       /\ newest' = [newest EXCEPT ![p] = e]
  /\ todo' = [todo EXCEPT ![p] = Of(p)]
  /\ local' = [local EXCEPT ![p] = {}]
  /\ pc' = [pc EXCEPT ![p] = "schedule"]
  /\ UNCHANGED <<policyVars, timer, cur, daemonVars>>

\* schedule_delayed_work, after the mutex has been dropped.
ScheduleMut(p) ==
  /\ pc[p] = "schedule"
  /\ newest' = [newest EXCEPT ![p] = None]
  /\ pc' = [pc EXCEPT ![p] = "sweep"]
  /\ UNCHANGED <<policyVars, local, entryVars, timer, todo, cur, daemonVars>>
Schedule(p) ==
  /\ pc[p] = "schedule"
  /\ timer' = [timer EXCEPT ![newest[p]] = "armed"]
  /\ newest' = [newest EXCEPT ![p] = None]
  /\ pc' = [pc EXCEPT ![p] = "sweep"]
  /\ UNCHANGED <<policyVars, local, entryVars, todo, cur, daemonVars>>

\* The publisher has dealt with the old entries and returns to user space,
\* where the redirected process loads its modules.
PublishDone(p) ==
  /\ pc[p] = "sweep" /\ todo[p] = {} /\ cur[p] = None
  /\ pc' = [pc EXCEPT ![p] = "loading"]
  /\ UNCHANGED <<policyVars, local, newest, entryVars, timer, todo, cur, daemonVars>>

\* restore_native_load_policy of the injected core: send the request and wait.
Request(p) ==
  /\ pc[p] = "loading"
  /\ pc' = [pc EXCEPT ![p] = "waiting"]
  /\ reqs' = reqs \cup {p}
  /\ UNCHANGED <<policyVars, local, newest, entryVars, timer, todo, cur, serving>>

\* ... or give up, because zygiskd cannot be reached.
NoDaemon(p) ==
  /\ pc[p] = "loading"
  /\ pc' = [pc EXCEPT ![p] = "running"]
  /\ UNCHANGED <<policyVars, local, newest, entryVars, timer, todo, cur, daemonVars>>

\* The process exits or is killed, in user space.
Die(p) ==
  /\ pc[p] \in {"loading", "waiting", "running"}
  /\ pc' = [pc EXCEPT ![p] = "dead"]
  /\ UNCHANGED <<policyVars, local, newest, entryVars, timer, todo, cur, daemonVars>>

(***************************************************************************)
(* The contexts that empty a private list: the publisher and the ioctl.    *)
(***************************************************************************)

\* cancel_delayed_work_sync: stop a timeout that has not started, or wait
\* until one that runs has returned.
CancelNoWait(c) ==
  /\ cur[c] = None
  /\ c \in Procs => pc[c] = "sweep"
  /\ \E e \in todo[c] :
       /\ timer' = [timer EXCEPT ![e] = IF @ = "armed" THEN "idle" ELSE @]
       /\ cur' = [cur EXCEPT ![c] = e]
       /\ todo' = [todo EXCEPT ![c] = @ \ {e}]
  /\ UNCHANGED <<policyVars, pc, local, newest, entryVars, daemonVars>>
CancelSync(c) ==
  /\ cur[c] = None
  /\ c \in Procs => pc[c] = "sweep"
  /\ \E e \in todo[c] :
       /\ timer[e] \in {"idle", "armed"}
       /\ timer' = [timer EXCEPT ![e] = "idle"]
       /\ cur' = [cur EXCEPT ![c] = e]
       /\ todo' = [todo EXCEPT ![c] = @ \ {e}]
  /\ UNCHANGED <<policyVars, pc, local, newest, entryVars, daemonVars>>

\* zp_restore_native_policy_state, then kfree.
RestoreAndFree(c) ==
  /\ cur[c] # None
  /\ Revoke(added[cur[c]])
  /\ added' = [added EXCEPT ![cur[c]] = {}]
  /\ mem' = [mem EXCEPT ![cur[c]] = "freed"]
  /\ cur' = [cur EXCEPT ![c] = None]
  /\ UNCHANGED <<pc, local, newest, tgid, pending, timer, todo, daemonVars>>

(***************************************************************************)
(* zygiskd and the ioctl: tamisu_zygote_probe_restore_native_policy.       *)
(***************************************************************************)

\* Read a request and take the process's entries off the list.
RestoreLocked(p) ==
  /\ serving = None /\ p \in reqs
  /\ serving' = p
  /\ reqs' = reqs \ {p}
  /\ todo' = [todo EXCEPT ![Zygiskd] = Of(p)]
  /\ pending' = pending \ Of(p)
  /\ UNCHANGED <<policyVars, pc, local, newest, mem, tgid, added, timer, cur>>

\* The ioctl returns and zygiskd answers the process, if it still lives.
Answer ==
  /\ serving # None /\ todo[Zygiskd] = {} /\ cur[Zygiskd] = None
  /\ serving' = None
  /\ pc' = [pc EXCEPT ![serving] = IF @ = "waiting" THEN "running" ELSE @]
  /\ UNCHANGED <<policyVars, local, newest, entryVars, timer, todo, cur, reqs>>

\* zygiskd restarts: the connections break and the waiting clients go on.
DaemonRestart ==
  /\ serving = None /\ reqs # {}
  /\ reqs' = {}
  /\ pc' = [p \in Procs |-> IF p \in reqs /\ pc[p] = "waiting" THEN "running" ELSE pc[p]]
  /\ UNCHANGED <<policyVars, local, newest, entryVars, timer, todo, cur, serving>>

(***************************************************************************)
(* The delayed work: zp_native_policy_timeout.                             *)
(***************************************************************************)
TimerFires(e) ==
  /\ timer[e] = "armed"
  /\ timer' = [timer EXCEPT ![e] = "locking"]
  /\ UNCHANGED <<policyVars, pc, local, newest, entryVars, todo, cur, daemonVars>>

\* The section under the mutex: the entry is this work's only if it is still
\* pending; otherwise the work returns without touching it again.
TimeoutLockedMut(e) ==
  /\ timer[e] = "locking"
  /\ timer' = [timer EXCEPT ![e] = "restoring"]
  /\ pending' = pending \ {e}
  /\ UNCHANGED <<policyVars, pc, local, newest, mem, tgid, added, todo, cur, daemonVars>>
TimeoutLocked(e) ==
  /\ timer[e] = "locking"
  /\ timer' = [timer EXCEPT ![e] = IF e \in pending THEN "restoring" ELSE "idle"]
  /\ pending' = pending \ {e}
  /\ UNCHANGED <<policyVars, pc, local, newest, mem, tgid, added, todo, cur, daemonVars>>

TimeoutRestores(e) ==
  /\ timer[e] = "restoring"
  /\ Revoke(added[e])
  /\ added' = [added EXCEPT ![e] = {}]
  /\ mem' = [mem EXCEPT ![e] = "freed"]
  /\ timer' = [timer EXCEPT ![e] = "idle"]
  /\ UNCHANGED <<pc, local, newest, tgid, pending, todo, cur, daemonVars>>

-----------------------------------------------------------------------------
TargetKernel(p) ==  \* the kernel's steps on behalf of p: they run to their end
  \/ Allow(p) \/ InjectFails(p) \/ PublishNothing(p) \/ PublishNoMemory(p)
  \/ PublishLocked(p) \/ Schedule(p) \/ PublishDone(p)

TargetUser(p) == Exec(p) \/ Request(p) \/ NoDaemon(p) \/ Die(p)

Timeout(e) == TimeoutLocked(e) \/ TimeoutRestores(e)

Next ==
  \/ \E p \in Procs : TargetKernel(p) \/ TargetUser(p) \/ RestoreLocked(p)
  \/ \E c \in Contexts : CancelSync(c) \/ RestoreAndFree(c)
  \/ \E e \in Entries : TimerFires(e) \/ Timeout(e)
  \/ \E r \in Rules : SetSepolicy(r)
  \/ Answer \/ DaemonRestart

Spec == Init /\ [][Next]_vars

\* Kernel code that has started runs to its end, a timer expires and its work
\* runs.  Nothing is assumed of the processes and of zygiskd's reading.
Fairness ==
  /\ \A p \in Procs : WF_vars(TargetKernel(p))
  /\ \A c \in Contexts : WF_vars(CancelSync(c)) /\ WF_vars(RestoreAndFree(c))
  /\ \A e \in Entries : WF_vars(TimerFires(e)) /\ WF_vars(Timeout(e))

FairSpec == Spec /\ Fairness

-----------------------------------------------------------------------------
Live == {e \in Entries : mem[e] = "live"}

\* Types; and a live entry has something to take back, because publishing
\* returns early when nothing was added.
TypeOK ==
  /\ policy \subseteq Rules /\ explicit \subseteq Rules
  /\ pc \in [Procs -> PcStates]
  /\ local \in [Procs -> SUBSET Rules]
  /\ newest \in [Procs -> Entries \cup {None}]
  /\ mem \in [Entries -> {"unused", "live", "freed"}]
  /\ tgid \in [Entries -> Procs \cup {None}]
  /\ added \in [Entries -> SUBSET Rules]
  /\ pending \subseteq Entries
  /\ timer \in [Entries -> {"idle", "armed", "locking", "restoring"}]
  /\ todo \in [Contexts -> SUBSET Entries]
  /\ cur \in [Contexts -> Entries \cup {None}]
  /\ reqs \subseteq Procs
  /\ serving \in Procs \cup {None}
  /\ \A e \in Live : added[e] # {}

\* No context that will touch an entry again (an armed or running timeout, a
\* publisher about to arm it, the owner of a private list, the list itself)
\* holds an entry that has been freed.  (The publisher's closing log line is
\* not covered: it reads the entry after arming it, relying on the 10 s alone.)
NoUseAfterFree ==
  /\ pending \subseteq Live
  /\ \A e \in Entries : timer[e] # "idle" => e \in Live
  /\ \A p \in Procs : pc[p] = "schedule" => newest[p] \in Live
  /\ \A c \in Contexts : todo[c] \subseteq Live /\ (cur[c] # None => cur[c] \in Live)

\* The places an entry can be owned from.
OnPrivateList(e, c) == e \in todo[c] \/ e = cur[c]

\* Every live entry has exactly one owner: the pending list, one private
\* list, or its running timeout.  So it is taken back and freed exactly once,
\* whichever of the three contexts gets to it first, and none is forgotten.
OneOwner ==
  \A e \in Live :
    /\ e \in pending \/ timer[e] = "restoring" \/ \E c \in Contexts : OnPrivateList(e, c)
    /\ ~(e \in pending /\ timer[e] = "restoring")
    /\ \A c \in Contexts : OnPrivateList(e, c) =>
         /\ e \notin pending /\ timer[e] # "restoring"
         /\ \A d \in Contexts : OnPrivateList(e, d) => c = d
         /\ ~(e \in todo[c] /\ e = cur[c])

\* Every rule that is in force and was not allowed for good is recorded by a
\* holder that will take it back, and what a holder has recorded is in force.
Held == {r \in Rules : \/ \E p \in Procs : r \in local[p]
                        \/ \E e \in Live : r \in added[e]}
GrantAccounting ==
  /\ policy \subseteq explicit \cup Held
  /\ Held \subseteq policy

\* A process that has its answer has no entry left except one its timeout is
\* taking back at this moment.
AnsweredIsOver(p) ==
  \A e \in Live : tgid[e] = p => timer[e] = "restoring"
AnswerMeansOver ==
  [][\A p \in Procs : serving = p /\ serving' = None => AnsweredIsOver(p)']_vars

\* No two holders have recorded the same rule: a rule is taken back once.
Disjoint ==
  /\ \A p, q \in Procs : p # q => local[p] \cap local[q] = {}
  /\ \A p \in Procs, e \in Live : local[p] \cap added[e] = {}
  /\ \A e, f \in Live : e # f => added[e] \cap added[f] = {}

(***************************************************************************)
(* The rest of the inductive invariant.                                    *)
(***************************************************************************)

\* What a target's position says about its record, its new entry and its
\* private list, and that a target in the kernel has no request out.
TargetInv ==
  \A p \in Procs :
    /\ local[p] # {} => pc[p] = "staged"
    /\ pc[p] = "schedule" =>
         newest[p] \in pending /\ tgid[newest[p]] = p /\ timer[newest[p]] = "idle"
    /\ todo[p] # {} \/ cur[p] # None => pc[p] \in {"schedule", "sweep"}
    /\ \A e \in Entries : OnPrivateList(e, p) => tgid[e] = p

\* zygiskd serves one request at a time, of a process that waits or is gone,
\* and has taken everything of that process off the list.
DaemonInv ==
  /\ serving = None => todo[Zygiskd] = {} /\ cur[Zygiskd] = None
  /\ serving # None => Of(serving) = {}
  /\ serving \notin reqs
  /\ \A p \in Procs : p \in reqs \/ serving = p => pc[p] \in {"waiting", "dead"}

\* An entry about to be freed by a private list has no timeout.
CancelledInv == \A c \in Contexts : cur[c] # None => timer[cur[c]] = "idle"

ProtocolInv == NoUseAfterFree /\ OneOwner /\ TargetInv /\ DaemonInv /\ CancelledInv
GrantInv == GrantAccounting /\ Disjoint
IInv == TypeOK /\ ProtocolInv /\ GrantInv

\* Every lent rule is taken back (or could not be, and is then explicit).
EveryGrantEnds ==
  \A r \in Rules : (r \in Held) ~> (r \notin Held)

\* The abstract specification: see RuleLeases.
Leases == ({local[p] : p \in Procs} \cup {added[e] : e \in Live}) \ {{}}
RL == INSTANCE RuleLeases WITH leases <- Leases
ImplementsLeases == RL!Spec
=============================================================================

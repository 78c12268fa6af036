-------------------------- MODULE ZygoteLifecycle ---------------------------
(***************************************************************************)
(* The life of the zygote's children as the kernel module follows it, and  *)
(* the hand-off of module files to them (core/tamisu_zygote_orch.c,        *)
(* core/tamisu_zygote_nl.c, core/tamisu_zygote_ctl.c).                     *)
(*                                                                         *)
(* The orchestrator tracks a child from the fork tracepoint to the free    *)
(* tracepoint and announces its specialisation, seen by the setuid hook or *)
(* reported by the injected core, to zygiskd.  The control plane keeps the *)
(* files a hand-off brings in a slot until a task_work, whose callback     *)
(* head lives in the slot itself, runs in the target and installs them.    *)
(*                                                                         *)
(* One bundle stands for the files of one hand-off.  Environment: a pid is *)
(* not reused before the free tracepoint of its last owner has run.        *)
(***************************************************************************)
EXTENDS Naturals, FiniteSets

CONSTANTS Pids,         \* process ids
          Slots,        \* yz_pending
          Bundles,      \* hand-offs, each with the references it takes
          MaxChildren,  \* ZO_MAX_CHILDREN
          MaxLives,     \* bound: processes that get one pid
          Replace,      \* may zygiskd hand off again before the delivery?
          None

ASSUME LifecycleAssumption ==
  /\ MaxChildren \in Nat /\ MaxLives \in Nat /\ Replace \in BOOLEAN
  /\ None \notin Pids /\ None \notin Bundles

VARIABLES
  task,    \* the kernel's task: none, alive, exiting (PF_EXITING, task works
           \* still run), exited (they no longer do), freeing (untracked)
  life,    \* history: how many processes have had this pid
  child,   \* zo_children: none, forked, specialized
  emit,    \* a specialisation seen under the lock and not announced yet
  sent,    \* history: announcements in this life
  slot,    \* yz_pending: the pid and the bundle of each slot, None if free
  works,   \* how often each slot's callback head is queued on each task
  taken,   \* the bundle a running callback has taken out of its slot
  fate,    \* history: unused, held, installed or dropped
  into,    \* history: the process each bundle was installed in
  handed,  \* history: the life of each pid in which it was handed a bundle
  hand     \* the hand-off in progress: stage, pid, bundle, the life of the
           \* task found, the bundle it replaced

zoVars  == <<child, emit, sent>>
ctlVars == <<slot, works, taken, fate, into, handed, hand>>
vars    == <<task, life, zoVars, ctlVars>>

Free == [pid |-> None, bundle |-> None]
Idle == [stage |-> "idle", pid |-> None, bundle |-> None, found |-> 0, old |-> None]

Init ==
  /\ task = [p \in Pids |-> "none"]
  /\ life = [p \in Pids |-> 0]
  /\ child = [p \in Pids |-> "none"]
  /\ emit = [p \in Pids |-> FALSE]
  /\ sent = [p \in Pids |-> 0]
  /\ slot = [s \in Slots |-> Free]
  /\ works = [p \in Pids |-> [s \in Slots |-> 0]]
  /\ taken = [p \in Pids |-> None]
  /\ fate = [b \in Bundles |-> "unused"]
  /\ into = [b \in Bundles |-> None]
  /\ handed = [p \in Pids |-> 0]
  /\ hand = Idle

(***************************************************************************)
(* The orchestrator.                                                       *)
(***************************************************************************)
Tracked == {p \in Pids : child[p] # "none"}

\* zo_on_fork and zo_track: a child of a zygote takes a free entry; when the
\* table is full it goes untracked, like any other process.
Fork(p) ==
  /\ task[p] = "none" /\ life[p] < MaxLives
  /\ task' = [task EXCEPT ![p] = "alive"]
  /\ life' = [life EXCEPT ![p] = @ + 1]
  /\ sent' = [sent EXCEPT ![p] = 0]
  /\ child' = [child EXCEPT ![p] =
       IF Cardinality(Tracked) < MaxChildren THEN "forked" ELSE @]
  /\ UNCHANGED <<emit, ctlVars>>

ForkElsewhere(p) ==
  /\ task[p] = "none" /\ life[p] < MaxLives
  /\ task' = [task EXCEPT ![p] = "alive"]
  /\ life' = [life EXCEPT ![p] = @ + 1]
  /\ sent' = [sent EXCEPT ![p] = 0]
  /\ UNCHANGED <<child, emit, ctlVars>>

\* tamisu_zygote_orch_on_uid_change from the setuid hook, and
\* tamisu_zygote_orch_on_userspace_report from the core's netlink report:
\* both run in the child, for an app uid that is not isolated, and decide
\* under zo_lock.  A child drops its uid and reports it in either order.
SpecializeUnchecked(p) ==
  /\ task[p] = "alive" /\ taken[p] = None /\ ~emit[p]
  /\ child[p] # "none"
  /\ child' = [child EXCEPT ![p] = "specialized"]
  /\ emit' = [emit EXCEPT ![p] = TRUE]
  /\ UNCHANGED <<task, life, sent, ctlVars>>
Specialize(p) ==
  /\ task[p] = "alive" /\ taken[p] = None /\ ~emit[p]
  /\ child[p] = "forked"
  /\ child' = [child EXCEPT ![p] = "specialized"]
  /\ emit' = [emit EXCEPT ![p] = TRUE]
  /\ UNCHANGED <<task, life, sent, ctlVars>>

\* tamisu_zygote_nl_emit_specialize, after the lock has been dropped.
Announce(p) ==
  /\ emit[p]
  /\ emit' = [emit EXCEPT ![p] = FALSE]
  /\ sent' = [sent EXCEPT ![p] = @ + 1]
  /\ UNCHANGED <<task, life, child, ctlVars>>

\* The process begins to exit, in its own context.
Exit(p) ==
  /\ task[p] = "alive" /\ taken[p] = None /\ ~emit[p]
  /\ task' = [task EXCEPT ![p] = "exiting"]
  /\ UNCHANGED <<life, zoVars, ctlVars>>

\* exit_task_work has run every queued callback; from now on adding fails.
WorksExited(p) ==
  /\ task[p] = "exiting" /\ taken[p] = None
  /\ \A s \in Slots : works[p][s] = 0
  /\ task' = [task EXCEPT ![p] = "exited"]
  /\ UNCHANGED <<life, zoVars, ctlVars>>

\* zo_on_free: the entry is cleared under zo_lock ...
OnFree(p) ==
  /\ task[p] = "exited"
  /\ task' = [task EXCEPT ![p] = IF child[p] = "none" THEN "none" ELSE "freeing"]
  /\ child' = [child EXCEPT ![p] = "none"]
  /\ UNCHANGED <<life, emit, sent, ctlVars>>

SlotOf(pid) == {s \in Slots : slot[s].pid = pid}

\* ... and then tamisu_zygote_ctl_release drops what a slot still holds.
ReleaseMut(p) ==
  /\ task[p] = "freeing"
  /\ task' = [task EXCEPT ![p] = "none"]
  /\ slot' = [s \in Slots |-> IF s \in SlotOf(p) THEN Free ELSE slot[s]]
  /\ UNCHANGED <<life, zoVars, works, taken, fate, into, handed, hand>>
Release(p) ==
  /\ task[p] = "freeing"
  /\ task' = [task EXCEPT ![p] = "none"]
  /\ slot' = [s \in Slots |-> IF s \in SlotOf(p) THEN Free ELSE slot[s]]
  /\ fate' = [b \in Bundles |->
       IF \E s \in SlotOf(p) : slot[s].bundle = b THEN "dropped" ELSE fate[b]]
  /\ UNCHANGED <<life, zoVars, works, taken, into, handed, hand>>

(***************************************************************************)
(* The hand-off ioctl: tamisu_zygote_ctl_handoff, called by zygiskd.       *)
(***************************************************************************)

\* Take the references and look the task up.  A task is found until it is
\* released; one that has exited may or may not be.
HandoffBegin(p, b) ==
  /\ hand.stage = "idle" /\ fate[b] = "unused" /\ life[p] > 0
  /\ Replace \/ handed[p] < life[p]
  /\ handed' = [handed EXCEPT ![p] = life[p]]
  /\ fate' = [fate EXCEPT ![b] = "held"]
  /\ \E found \in {0, life[p]} :
       /\ task[p] \in {"alive", "exiting"} => found = life[p]
       /\ task[p] \in {"none", "freeing"} => found = 0
       /\ hand' = [stage |-> "lock", pid |-> p, bundle |-> b, found |-> found, old |-> None]
  /\ UNCHANGED <<task, life, zoVars, slot, works, taken, into>>

\* The slot a hand-off uses: the one of a prior hand-off to the same pid,
\* else a free one.
AnySlot(pid) == IF SlotOf(pid) # {} THEN SlotOf(pid) ELSE Slots
ChosenSlots(pid) == IF SlotOf(pid) # {} THEN SlotOf(pid) ELSE SlotOf(None)

\* task_work_add puts the slot's callback head at the front of the task's
\* list, and fails when the task no longer runs task works.  A head that is
\* on the list already is linked to itself and runs twice, however often it
\* is added.
Queue(p, s) ==
  IF hand.found = life[p] /\ task[p] \in {"alive", "exiting"}
  THEN [works EXCEPT ![p][s] = IF @ = 0 THEN 1 ELSE 2]
  ELSE works

\* The section under yz_ctl_lock; the result of task_work_add is ignored.
HandoffLocked ==
  /\ hand.stage = "lock"
  /\ \E s \in ChosenSlots(hand.pid) :
       /\ slot' = [slot EXCEPT ![s] = [pid |-> hand.pid, bundle |-> hand.bundle]]
       /\ hand' = [hand EXCEPT !.stage = "put", !.old = slot[s].bundle]
       /\ works' = Queue(hand.pid, s)
  /\ UNCHANGED <<task, life, zoVars, taken, fate, into, handed>>

\* No slot: ENOSPC, and the references are dropped.
HandoffNoSpace ==
  /\ hand.stage = "lock" /\ ChosenSlots(hand.pid) = {}
  /\ fate' = [fate EXCEPT ![hand.bundle] = "dropped"]
  /\ hand' = Idle
  /\ UNCHANGED <<task, life, zoVars, slot, works, taken, into, handed>>

\* The replaced files are dropped outside the lock.
HandoffPut ==
  /\ hand.stage = "put"
  /\ fate' = [b \in Bundles |-> IF b = hand.old THEN "dropped" ELSE fate[b]]
  /\ hand' = Idle
  /\ UNCHANGED <<task, life, zoVars, slot, works, taken, into, handed>>

(***************************************************************************)
(* The task_work, in the target: yz_deliver_cb.                            *)
(***************************************************************************)

\* Take the files out of the slot and clear it, the callback head included,
\* under yz_ctl_lock.  (A cleared head that is run again is a call of a null
\* function unless another hand-off has taken the slot meanwhile.)
DeliverTake(p) ==
  /\ task[p] \in {"alive", "exiting"} /\ taken[p] = None /\ ~emit[p]
  /\ \E s \in Slots :
       /\ works[p][s] > 0 /\ slot[s] # Free
       /\ works' = [works EXCEPT ![p][s] = @ - 1]
       /\ taken' = [taken EXCEPT ![p] = slot[s].bundle]
       /\ slot' = [slot EXCEPT ![s] = Free]
  /\ UNCHANGED <<task, life, zoVars, fate, into, handed, hand>>

\* Install them in the current process.
DeliverInstall(p) ==
  /\ task[p] = "alive" /\ taken[p] # None
  /\ into' = [into EXCEPT ![taken[p]] = p]
  /\ fate' = [fate EXCEPT ![taken[p]] = "installed"]
  /\ taken' = [taken EXCEPT ![p] = None]
  /\ UNCHANGED <<task, life, zoVars, slot, works, handed, hand>>

\* A dying target, or one without a free descriptor, drops them.
DeliverDrop(p) ==
  /\ taken[p] # None
  /\ fate' = [fate EXCEPT ![taken[p]] = "dropped"]
  /\ taken' = [taken EXCEPT ![p] = None]
  /\ UNCHANGED <<task, life, zoVars, slot, works, into, handed, hand>>

-----------------------------------------------------------------------------
Handoff == HandoffLocked \/ HandoffNoSpace \/ HandoffPut

ProcessEnds(p) == WorksExited(p) \/ OnFree(p) \/ Release(p)
Deliver(p) == DeliverTake(p) \/ DeliverInstall(p) \/ DeliverDrop(p)

Next ==
  \/ \E p \in Pids :
       \/ Fork(p) \/ ForkElsewhere(p) \/ Specialize(p) \/ Announce(p) \/ Exit(p)
       \/ ProcessEnds(p) \/ Deliver(p)
       \/ \E b \in Bundles : HandoffBegin(p, b)
  \/ Handoff

Spec == Init /\ [][Next]_vars

\* What has begun in the kernel ends; processes need not fork or exit, and
\* zygiskd need not hand off.
FairSpec ==
  /\ Spec
  /\ WF_vars(Handoff)
  /\ \A p \in Pids : WF_vars(Announce(p)) /\ WF_vars(ProcessEnds(p)) /\ WF_vars(Deliver(p))

-----------------------------------------------------------------------------
\* Type invariant; in particular a child's specialisation is sent at most once
\* and a slot's callback head is on a list at most twice.
TypeOK ==
  /\ task \in [Pids -> {"none", "alive", "exiting", "exited", "freeing"}]
  /\ life \in [Pids -> 0..MaxLives] /\ handed \in [Pids -> 0..MaxLives]
  /\ child \in [Pids -> {"none", "forked", "specialized"}]
  /\ emit \in [Pids -> BOOLEAN]
  /\ sent \in [Pids -> 0..1]
  /\ slot \in [Slots -> [pid : Pids \cup {None}, bundle : Bundles \cup {None}]]
  /\ works \in [Pids -> [Slots -> 0..2]]
  /\ taken \in [Pids -> Bundles \cup {None}]
  /\ fate \in [Bundles -> {"unused", "held", "installed", "dropped"}]
  /\ into \in [Bundles -> Pids \cup {None}]
  /\ hand \in [stage : {"idle", "lock", "put"}, pid : Pids \cup {None},
               bundle : Bundles \cup {None}, found : 0..MaxLives, old : Bundles \cup {None}]

\* The places that hold the reference of bundle b.
Holders(b) ==
  {<<"slot", s>> : s \in {s \in Slots : slot[s].bundle = b}}
    \cup {<<"callback", p>> : p \in {p \in Pids : taken[p] = b}}
    \cup {<<"handoff", x>> : x \in {x \in {"new"} : hand.stage = "lock" /\ hand.bundle = b}}
    \cup {<<"handoff", x>> : x \in {x \in {"old"} : hand.old = b}}

\* Every reference a hand-off has taken is in exactly one place until it is
\* dropped or installed, and in none afterwards: no fput is missed or doubled
\* when deliveries, replacements and releases interleave.
RefsBalanced ==
  \A b \in Bundles : Cardinality(Holders(b)) = IF fate[b] = "held" THEN 1 ELSE 0

\* A tracked child is announced at most once in its life, whichever of the
\* setuid hook and the report comes first, and only once it has specialised.
AnnouncedOnce ==
  \A p \in Pids :
    /\ sent[p] <= 1
    /\ (sent[p] = 1 \/ emit[p]) /\ p \in Tracked => child[p] = "specialized"

\* What a callback takes out of a slot was handed to the process it runs in.
TakenByTarget ==
  \A p \in Pids : \A s \in Slots :
    (slot[s].bundle # None /\ taken[p] = None /\ taken'[p] = slot[s].bundle)
      => slot[s].pid = p

\* Files are installed in the process they were handed to, and a bundle whose
\* callback is queued in a process finds its end there.
InstalledInTarget ==
  /\ [][TakenByTarget]_vars
  /\ \A b \in Bundles : \A p \in Pids :
       (\E s \in Slots : slot[s].bundle = b /\ works[p][s] > 0)
         ~> fate[b] \in {"installed", "dropped"}

\* A slot whose callback head is on a task's list belongs to that task.
QueuedSlotsOwned ==
  \A p \in Pids : \A s \in Slots : works[p][s] > 0 => slot[s].pid = p /\ works[p][s] = 1

=============================================================================

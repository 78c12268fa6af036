--------------------------- MODULE SyscallRedirect ---------------------------
(***************************************************************************)
(* The redirection of execve (core/tamisu_syscall_hook.c,                  *)
(* tamisu_syscall_hook_manager.c, tamisu_syscall_event_bridge.c,           *)
(* tamisu_tp_marker.c), from the load of the module to its unload          *)
(* (tamisu_init.c), with the sys_read table hook of the boot integration   *)
(* (tamisu_daemon_integration.c).                                          *)
(*                                                                         *)
(* A marked task that enters execve fires the sys_enter probe, which sends *)
(* it to a dispatcher in an unused slot of the system call table; the      *)
(* dispatcher puts the number back and runs the hook, which ends in the    *)
(* real call.  Other tracers use the same two tracepoints at any time, and *)
(* the module may be unloaded while calls are under way.                   *)
(***************************************************************************)
EXTENDS Integers, Sequences, SequencesExt, FiniteSets

CONSTANTS
    Tasks, InitTask,
    MaxCalls,      \* bound: system calls per task
    MaxToggles,    \* bound: times another tracer starts or stops
    MaxSweeps      \* bound: MARK_REFRESH requests

ASSUME InitAssumption == InitTask \in Tasks
ASSUME BoundsAssumption == {MaxCalls, MaxToggles, MaxSweeps} \subseteq Nat

Slots == {"spare", "execve", "read"}
Tracepoints == {"sys_enter", "sys_exit"}

\* The kernel's own table.
Kernel == [spare |-> "ni", execve |-> "sys_execve", read |-> "sys_read"]

\* The life of the module, in the order of tamisu_init and tamisu_exit.
Phases == <<"off", "dispatcher", "marker", "route", "probe", "on",
            "probe_off", "marker_off", "route_off", "restored", "gone">>

VARIABLES
    phase,
    started,    \* tamisu_hooks_started
    table,      \* sys_call_table
    entries,    \* hooked_entries: the slots changed and what they held
    route,      \* syscall_hooks[__NR_execve] is set
    dispNr,     \* tamisu_dispatcher_nr is the spare slot, not -1
    others,     \* tracepoints another tracer uses
    toggles,
    sweeps,
    regCount,   \* tracepoint_reg_count
    mark,       \* tasks with the tracepoint flag
    kind,       \* init, a child of init, a zygote, a service, or free
    swept,      \* history: a refresh passed over the task between fork and exec
    early,      \* history: another tracer was active when the module loaded
    calls       \* per task: its call, where it is, the number in its registers

module == <<phase, started, table, entries, route, dispNr>>
tracing == <<others, toggles, sweeps, regCount, mark, swept, early>>
vars == <<module, tracing, kind, calls>>

-----------------------------------------------------------------------------
(* The tracepoints and the marks.                                           *)

\* `phase` is p or later.
Reached(p) == \E i, j \in DOMAIN Phases : Phases[i] = p /\ Phases[j] = phase /\ i <= j

ProbeOn == started /\ phase \in {"probe", "on"}
KretprobesOn == started /\ Reached("marker") /\ ~Reached("marker_off")
HasText == phase \notin {"off", "gone"}

Live == {t \in Tasks : kind[t] # "free"}

\* Tracepoints with a probe: the kernel counts them.
Enabled == others \cup (IF ProbeOn THEN {"sys_enter"} ELSE {})

\* tamisu_mark_running_process_locked: init and the zygotes, nobody else.
OursOnly == {t \in Live : kind[t] \in {"init", "zygote"}}
SweptNow == {t \in Live : kind[t] = "child"}

\* syscall_regfunc, `refs` tracepoints in use before: the kernel marks all at
\* the first; syscall_regfunc_handler then overrides by its own count.
Registered(refs) ==
    LET byKernel == IF refs = 0 THEN Live ELSE mark
    IN  IF ~KretprobesOn
        THEN /\ mark' = byKernel
             /\ UNCHANGED <<regCount, swept>>
        ELSE /\ regCount' = regCount + 1
             /\ mark' = IF regCount < 1 THEN OursOnly
                        ELSE IF regCount = 1 THEN Live ELSE byKernel
             /\ swept' = IF regCount < 1 THEN swept \cup SweptNow ELSE swept

\* The handler forgets to count what it sees going away.
UnregisteredMut(refs) ==
    LET byKernel == IF refs = 0 THEN {} ELSE mark
    IN  /\ mark' = byKernel
        /\ UNCHANGED <<regCount, swept>>

\* syscall_unregfunc, `refs` tracepoints left in use, and its handler.
Unregistered(refs) ==
    LET byKernel == IF refs = 0 THEN {} ELSE mark
    IN  IF ~KretprobesOn
        THEN /\ mark' = byKernel
             /\ UNCHANGED <<regCount, swept>>
        ELSE /\ regCount' = regCount - 1
             /\ mark' = IF regCount - 1 <= 0 THEN {}
                        ELSE IF regCount - 1 = 1 THEN OursOnly ELSE byKernel
             /\ swept' = IF regCount - 1 = 1 THEN swept \cup SweptNow ELSE swept

\* Another tracer takes a tracepoint; one that has a probe already calls nobody.
TracerOn(tp) ==
    /\ tp \notin others /\ toggles < MaxToggles
    /\ others' = others \cup {tp}
    /\ toggles' = toggles + 1
    /\ IF tp \in Enabled THEN UNCHANGED <<mark, regCount, swept>>
                         ELSE Registered(Cardinality(Enabled))
    /\ UNCHANGED <<module, sweeps, early, kind, calls>>

TracerOff(tp) ==
    /\ tp \in others /\ toggles < MaxToggles
    /\ others' = others \ {tp}
    /\ toggles' = toggles + 1
    /\ IF tp = "sys_enter" /\ ProbeOn
       THEN UNCHANGED <<mark, regCount, swept>>
       ELSE Unregistered(Cardinality(Enabled) - 1)
    /\ UNCHANGED <<module, sweeps, early, kind, calls>>

\* MARK_REFRESH: tamisu_mark_running_process
Refresh ==
    /\ phase = "on" /\ sweeps < MaxSweeps
    /\ sweeps' = sweeps + 1
    /\ IF regCount <= 1
       THEN mark' = OursOnly /\ swept' = swept \cup SweptNow
       ELSE UNCHANGED <<mark, swept>>
    /\ UNCHANGED <<module, others, toggles, regCount, early, kind, calls>>

-----------------------------------------------------------------------------
(* Load and unload.                                                         *)

Hooked(nr) == \E i \in DOMAIN entries : entries[i].nr = nr

\* tamisu_syscall_table_hook: the first original is the one kept.
Hook(nr, fn) ==
    /\ table' = [table EXCEPT ![nr] = fn]
    /\ entries' = IF Hooked(nr) THEN entries
                  ELSE Append(entries, [nr |-> nr, orig |-> table[nr]])

\* tamisu_syscall_hook_init
InstallDispatcher ==
    /\ phase = "off"
    /\ phase' = "dispatcher" /\ started' = TRUE
    /\ Hook("spare", "dispatcher")
    /\ dispNr' = TRUE /\ route' = FALSE
    /\ early' = (others # {})
    /\ UNCHANGED <<others, toggles, sweeps, regCount, mark, swept, kind, calls>>

\* The slot could not be patched: tamisu_hook_init gives up, tamisu_init goes on.
InstallFails ==
    /\ phase = "off"
    /\ phase' = "probe"
    /\ entries' = Append(entries, [nr |-> "spare", orig |-> table["spare"]])
    /\ UNCHANGED <<started, table, route, dispNr, tracing, kind, calls>>

\* tamisu_tp_marker_init
InstallMarker ==
    /\ phase = "dispatcher"
    /\ phase' = "marker"
    /\ early' = (early \/ others # {})
    /\ UNCHANGED <<started, table, entries, route, dispNr>>
    /\ UNCHANGED <<others, toggles, sweeps, regCount, mark, swept, kind, calls>>

\* tamisu_register_syscall_hook(__NR_execve, ...)
AddRoute ==
    /\ phase = "marker"
    /\ phase' = "route"
    /\ route' = TRUE
    /\ UNCHANGED <<started, table, entries, dispNr, tracing, kind, calls>>

\* tamisu_tracepoint_probe_register("sys_enter", ...)
RegisterProbe ==
    /\ phase = "route"
    /\ phase' = "probe"
    /\ early' = (early \/ others # {})
    /\ IF "sys_enter" \in others THEN UNCHANGED <<mark, regCount, swept>>
                                 ELSE Registered(Cardinality(Enabled))
    /\ UNCHANGED <<started, table, entries, route, dispNr>>
    /\ UNCHANGED <<others, toggles, sweeps, kind, calls>>

\* tamisu_tamisu_daemon_init hooks read, for init.rc.
HookRead ==
    /\ phase = "probe"
    /\ phase' = "on"
    /\ Hook("read", "tamisu_sys_read")
    /\ UNCHANGED <<started, route, dispNr, tracing, kind, calls>>

\* Late load: the boot integration is not started.
SkipRead ==
    /\ phase = "probe"
    /\ phase' = "on"
    /\ UNCHANGED <<started, table, entries, route, dispNr, tracing, kind, calls>>

\* do_stop_init_rc_hook: the work item that takes the read hook out again, by
\* moving the last entry into its place.
UnhookRead ==
    /\ phase = "on"
    /\ \E i \in DOMAIN entries :
          /\ entries[i].nr = "read"
          /\ table' = [table EXCEPT !["read"] = entries[i].orig]
          /\ entries' = Front([entries EXCEPT ![i] = Last(entries)])
    /\ UNCHANGED <<phase, started, route, dispNr, tracing, kind, calls>>

\* tamisu_hook_exit: the probe goes, and no handler is running any more.
RemoveProbe ==
    /\ phase = "on" /\ started
    /\ phase' = "probe_off"
    /\ IF "sys_enter" \in others THEN UNCHANGED <<mark, regCount, swept>>
                                 ELSE Unregistered(Cardinality(Enabled) - 1)
    /\ UNCHANGED <<started, table, entries, route, dispNr>>
    /\ UNCHANGED <<others, toggles, sweeps, early, kind, calls>>

\* tamisu_hook_exit returns early when the hooks never started.
SkipHookExit ==
    /\ phase = "on" /\ ~started
    /\ phase' = "restored"
    /\ UNCHANGED <<started, table, entries, route, dispNr, tracing, kind, calls>>

\* tamisu_tp_marker_exit
RemoveMarker ==
    /\ phase = "probe_off"
    /\ phase' = "marker_off"
    /\ UNCHANGED <<started, table, entries, route, dispNr, tracing, kind, calls>>

\* tamisu_unregister_syscall_hook
RemoveRoute ==
    /\ phase = "marker_off"
    /\ phase' = "route_off"
    /\ route' = FALSE
    /\ UNCHANGED <<started, table, entries, dispNr, tracing, kind, calls>>

\* tamisu_syscall_hook_exit puts one entry back at a time ...
RestoreSlot ==
    /\ phase = "route_off" /\ entries # <<>>
    /\ table' = [table EXCEPT ![Head(entries).nr] = Head(entries).orig]
    /\ entries' = Tail(entries)
    /\ UNCHANGED <<phase, started, route, dispNr, tracing, kind, calls>>

\* ... and forgets the slot.
ClearState ==
    /\ phase = "route_off" /\ entries = <<>>
    /\ phase' = "restored"
    /\ dispNr' = FALSE
    /\ UNCHANGED <<started, table, entries, route, tracing, kind, calls>>

\* tamisu_exit waits for RCU readers and returns; the text is freed.
Free ==
    /\ phase = "restored"
    /\ phase' = "gone"
    /\ UNCHANGED <<started, table, entries, route, dispNr, tracing, kind, calls>>

-----------------------------------------------------------------------------
(* Tasks.                                                                   *)

\* init forks: the child inherits the flag.
Fork(t) ==
    /\ kind[t] = "free"
    /\ kind' = [kind EXCEPT ![t] = "child"]
    /\ mark' = IF InitTask \in mark THEN mark \cup {t} ELSE mark
    /\ UNCHANGED <<module, others, toggles, sweeps, regCount, swept, early, calls>>

Step(t, fields) == calls' = [calls EXCEPT ![t] = fields]

\* The probe sends every call it sees to the dispatcher.
EnterMut(t, nr, path) ==
    /\ kind[t] # "free" /\ calls[t].at = "user" /\ calls[t].made < MaxCalls
    /\ nr = "execve" => kind[t] = "child"
    /\ Step(t, [calls[t] EXCEPT !.nr = nr, !.path = path, !.made = @ + 1, !.at = "table",
                  !.no = IF t \in mark /\ ProbeOn THEN "spare" ELSE nr])
    /\ UNCHANGED <<module, tracing, kind>>

\* A task enters call `nr`; tamisu_sys_enter_handler if it is marked.  A child
\* of init executes the zygote or a service.
Enter(t, nr, path) ==
    /\ kind[t] # "free" /\ calls[t].at = "user" /\ calls[t].made < MaxCalls
    /\ nr = "execve" => kind[t] = "child"
    /\ LET redirect == t \in mark /\ ProbeOn /\ dispNr /\ nr = "execve" /\ route
       IN  Step(t, [calls[t] EXCEPT !.nr = nr, !.path = path, !.made = @ + 1,
                      !.at = "table", !.no = IF redirect THEN "spare" ELSE nr])
    /\ UNCHANGED <<module, tracing, kind>>

\* What a program becomes by execve.
Becomes(path) == IF path = "zygote" THEN "zygote" ELSE "service"

\* The number under which the real call ran, and the answer the task gets.
Done(t, answer) == [calls[t] EXCEPT !.at = "user", !.answer = answer]

\* The kernel function of call `calls[t].nr` runs.
RealCall(t) ==
    /\ Step(t, Done(t, "real"))
    /\ kind' = IF calls[t].nr = "execve"
               THEN [kind EXCEPT ![t] = Becomes(calls[t].path)] ELSE kind

\* The system call table is read at the number in the registers.
ViaTable(t) ==
    /\ calls[t].at = "table"
    /\ LET fn == table[calls[t].no]
       IN  \/ /\ fn \in {"sys_execve", "sys_read"}
              /\ RealCall(t)
           \/ /\ fn = "ni"
              /\ Step(t, Done(t, "ENOSYS")) /\ UNCHANGED kind
           \/ /\ fn \in {"dispatcher", "tamisu_sys_read"}
              /\ Step(t, [calls[t] EXCEPT !.at = fn]) /\ UNCHANGED kind
    /\ UNCHANGED <<module, tracing>>

\* tamisu_sys_read, then orig_sys_read, which was saved before the slot changed.
ReadHook(t) ==
    /\ calls[t].at = "tamisu_sys_read"
    /\ RealCall(t)
    /\ UNCHANGED <<module, tracing>>

\* syscall_hooks has a hook for the call the task asked for.
Routed(t) == route /\ calls[t].nr = "execve"

\* tamisu_syscall_dispatcher: a direct call of the spare slot is refused, the
\* number is put back, and the route is read once.
Dispatch(t) ==
    /\ calls[t].at = "dispatcher"
    /\ IF dispNr /\ calls[t].nr # calls[t].no
       THEN LET c == [calls[t] EXCEPT !.no = calls[t].nr]
            IN  Step(t, IF Routed(t) THEN [c EXCEPT !.at = "hook"]
                        ELSE [c EXCEPT !.at = "user", !.answer = "ENOSYS"])
       ELSE Step(t, Done(t, "ENOSYS"))
    /\ UNCHANGED <<module, tracing, kind>>

\* The mark is taken away whoever else traces.
ExecveHookMut(t) ==
    /\ calls[t].at = "hook"
    /\ mark' = IF kind[t] = "child" /\ calls[t].path = "service" THEN mark \ {t} ELSE mark
    /\ Step(t, [calls[t] EXCEPT !.at = "tail", !.seen = TRUE])
    /\ UNCHANGED <<module, others, toggles, sweeps, regCount, swept, early, kind>>

\* tamisu_hook_execve: a child of init that becomes a service loses its mark if
\* nobody else traces; the real call follows.
ExecveHook(t) ==
    /\ calls[t].at = "hook"
    /\ LET unmark == kind[t] = "child" /\ calls[t].path = "service" /\ regCount <= 1
       IN  mark' = IF unmark THEN mark \ {t} ELSE mark
    /\ Step(t, [calls[t] EXCEPT !.at = "tail", !.seen = TRUE])
    /\ UNCHANGED <<module, others, toggles, sweeps, regCount, swept, early, kind>>

\* `return tamisu_syscall_table[orig_nr](regs)`
ExecveTail(t) ==
    /\ calls[t].at = "tail"
    /\ RealCall(t)
    /\ UNCHANGED <<module, tracing>>

-----------------------------------------------------------------------------
NoCall == [nr |-> "execve", no |-> "execve", path |-> "service", at |-> "user",
           answer |-> "none", seen |-> FALSE, made |-> 0]

Init ==
    /\ phase = "off" /\ started = FALSE /\ table = Kernel /\ entries = <<>>
    /\ route = FALSE /\ dispNr = FALSE
    /\ others = {} /\ toggles = 0 /\ sweeps = 0 /\ regCount = 0
    /\ mark = {} /\ swept = {} /\ early = FALSE
    /\ kind = [t \in Tasks |-> IF t = InitTask THEN "init" ELSE "free"]
    /\ calls = [t \in Tasks |-> NoCall]

Load == \/ InstallDispatcher \/ InstallFails \/ InstallMarker \/ AddRoute
        \/ RegisterProbe \/ HookRead \/ SkipRead
Unload == RemoveProbe \/ SkipHookExit \/ RemoveMarker \/ RemoveRoute \/ RestoreSlot \/ ClearState \/ Free
Tracer == \/ \E tp \in Tracepoints : TracerOn(tp) \/ TracerOff(tp)
          \/ Refresh
InKernel(t) == ViaTable(t) \/ ReadHook(t) \/ Dispatch(t) \/ ExecveHook(t) \/ ExecveTail(t)
Task(t) == \/ Fork(t) \/ InKernel(t)
           \/ \E nr \in Slots, path \in {"zygote", "service"} :
                 /\ path = "service" \/ nr = "execve"
                 /\ Enter(t, nr, path)

Next == Load \/ UnhookRead \/ Unload \/ Tracer \/ \E t \in Tasks : Task(t)

Spec == Init /\ [][Next]_vars

\* A call under way is run to its end; nobody promises to load or unload.
FairSpec == Spec /\ \A t \in Tasks : WF_vars(InKernel(t))

-----------------------------------------------------------------------------
Call == [nr : Slots, no : Slots, path : {"zygote", "service"},
         at : {"user", "table", "dispatcher", "hook", "tail", "tamisu_sys_read"},
         answer : {"none", "real", "ENOSYS"}, seen : BOOLEAN, made : Nat]

\* Type invariant.
TypeOK ==
    /\ \E i \in DOMAIN Phases : phase = Phases[i]
    /\ table \in [Slots -> {"ni", "sys_execve", "sys_read", "dispatcher", "tamisu_sys_read"}]
    /\ entries \in Seq([nr : Slots, orig : {"ni", "sys_execve", "sys_read"}])
    /\ {started, route, dispNr, early} \subseteq BOOLEAN
    /\ others \subseteq Tracepoints /\ regCount \in -2..2
    /\ mark \subseteq Live /\ swept \subseteq Live
    /\ kind \in [Tasks -> {"init", "child", "zygote", "service", "free"}]
    /\ calls \in [Tasks -> Call]

\* tamisu_syscall_table_hook and the two ways back: every slot that is not the
\* kernel's is in hooked_entries, once, with the kernel's function; so the table
\* is whole again when the module is gone, if its hooks were started.
TableAccounted ==
    /\ \A s \in Slots : table[s] # Kernel[s] =>
          \E i \in DOMAIN entries : entries[i] = [nr |-> s, orig |-> Kernel[s]]
    /\ \A i, j \in DOMAIN entries : entries[i].nr = entries[j].nr => i = j
    /\ started /\ phase \in {"restored", "gone"} => table = Kernel

\* Dispatcher: a call gets the kernel's answer for the number it asked for, a
\* direct call of the spare slot that of an empty slot, and while the module is
\* loaded no execve is lost to the redirection.
AnswersHonest ==
    \A t \in Tasks :
        LET c == calls[t]
        IN  c.answer # "none" /\ c.at = "user" =>
              \/ c.answer = IF c.nr = "spare" THEN "ENOSYS" ELSE "real"
              \/ c.answer = "ENOSYS" /\ c.nr = "execve" /\ Reached("route_off")

\* tamisu_syscall_dispatcher: the hook, the real call and whoever looks at the
\* registers afterwards see the number the task asked for.
NumberRestored ==
    \A t \in Tasks :
        calls[t].at \in {"hook", "tail"} \/ (calls[t].at = "user" /\ calls[t].answer = "real")
            => calls[t].no = calls[t].nr

\* What whoever calls notices of the redirection, from load to unload: nothing.
\* Its answers are the kernel's, its number is its own, the table becomes what it
\* was, and every call that goes in comes out, whatever is unloaded under it.
CallsUnharmed ==
    /\ [](AnswersHonest /\ NumberRestored /\ TableAccounted)
    /\ \A t \in Tasks : calls[t].at # "user" ~> calls[t].at = "user"

\* tamisu_tp_marker: when no other tracer came first, tracepoint_reg_count is
\* the number of tracepoints in use, init is marked as long as the probe is in,
\* and so is every zygote that no refresh met between its fork and its execve.
OursStayMarked ==
    ProbeOn /\ ~early =>
        /\ regCount = Cardinality(Enabled)
        /\ InitTask \in mark
        /\ \A t \in Live : kind[t] = "zygote" /\ calls[t].seen /\ t \notin swept => t \in mark

\* syscall_regfunc_handler: a tracer of sys_exit that came after the module's hooks
\* started sees every task; no refresh, service or fork takes one from it.
ExitTracerSeesAll ==
    phase = "on" /\ started /\ ~early /\ "sys_exit" \in others => Live \subseteq mark

-----------------------------------------------------------------------------
=============================================================================

----------------------------- MODULE NativeLoad -----------------------------
(***************************************************************************)
(* The loading of native modules: the core that the kernel injects into a  *)
(* native process (daemon/zygisk/core/src/zygisk_zncore.cpp), the requests *)
(* it makes of zygiskd (daemon/zygisk/daemon/zygiskd.cpp), and the API it  *)
(* gives the modules, inline hooks above all (core/src/inline_hook.h).     *)
(*                                                                         *)
(* The daemon lists the lines of the modules' zn_modules.txt and tells the *)
(* kernel which processes they are for.  A process that the kernel injects *)
(* asks for the number of lines and then, per index and each on a          *)
(* connection of its own, for the line and its file, and reports what it   *)
(* has loaded.  The daemon may reload, die and start again in between.     *)
(* Patching text goes through the daemon too: the process asks, the daemon *)
(* has the kernel write, and answers.                                      *)
(***************************************************************************)
EXTENDS Integers, Sequences, SequencesExt, FiniteSets

CONSTANTS
    Modules,     \* module directories
    Lists,       \* what the scan of the directories may give
    Pids,
    Funs,        \* functions that modules hook
    PageOf,      \* the page of text each begins in
    None,
    MaxRecords,  \* kNativeInjectionMax
    MaxTargets,  \* YZ_NATIVE_TARGET_MAX
    MaxExecs,    \* bound: processes injected
    MaxActs,     \* bound: API calls that hook, unhook or connect
    MaxTroubles  \* bound: changes of the directories, deaths of the daemon,
                 \* and steps of which something fails, together

\* A line: its module, whether it is for the processes of this instance, and
\* whether it asks for a companion.
Line == [id : Modules, here : BOOLEAN, comp : BOOLEAN]

ASSUME ListsAssumption == Lists \subseteq Seq(Line)
ASSUME FunsAssumption == PageOf \in [Funs -> Nat] /\ None \notin Funs \cup Modules \cup Pids
ASSUME BoundsAssumption ==
    /\ {MaxExecs, MaxActs, MaxTroubles} \subseteq Nat
    /\ {MaxRecords, MaxTargets} \subseteq Nat \ {0}

VARIABLES
    disk,      \* what a scan would give
    daemon,    \* down, starting (it listens and will answer), up
    list,      \* g_native_modules
    targets,   \* the lines whose target the kernel has been told
    comps,     \* g_native_companions
    records,   \* g_native_injections, the newest first
    proc,      \* the injected process
    injected,  \* the modules whose onModuleLoaded ran, by process
    drained,   \* the daemon has reloaded since it started
    misled,    \* a report was made over a list the process had not seen
    spent      \* of the bounds

vars == <<disk, daemon, list, targets, comps, records, proc, injected, drained, misled, spent>>
served == <<disk, daemon, list, targets, comps, drained>>

NoProc == [at |-> "none", pid |-> None,
           n |-> 0, i |-> 0,       \* load_matching_modules: count and index
           lib |-> None,           \* the module whose library is open
           loaded |-> <<>>,        \* g_loaded_modules
           failed |-> {},          \* indices that matched and were passed over
           calm |-> TRUE,          \* the daemon has served one list since the count
           hooks |-> {},           \* g_inline_hooks
           tramp |-> {},           \* functions whose trampoline is mapped
           branch |-> {},          \* functions whose text branches to it
           lost |-> {},            \* functions an unhook nearby has restored
           unacked |-> {},         \* functions patched without an answer
           fun |-> None,           \* the function being hooked
           back |-> "none",        \* where the caller of the API goes on
           got |-> <<>>]           \* the last companion: asked for, got

Bound == [exec |-> MaxExecs, act |-> MaxActs, trouble |-> MaxTroubles]
Spent(what, n) == spent[what] + n <= Bound[what] /\ spent' = [spent EXCEPT ![what] = @ + n]
Trouble == Spent("trouble", 1)
Free == UNCHANGED spent
Failing(bad) == IF bad THEN Trouble ELSE Free

Answered == daemon = "up"
Refused == daemon = "down"

-----------------------------------------------------------------------------
(* The daemon.                                                              *)

\* Modules are installed, removed, enabled and disabled.
Edit ==
    /\ disk' \in Lists \ {disk} /\ Trouble
    /\ UNCHANGED <<daemon, list, targets, comps, records, proc, injected, drained, misled>>

\* publish_native_targets: as many as the kernel holds.
Published(lines) == {lines[i] : i \in {j \in DOMAIN lines : j <= MaxTargets}}

\* rescan_modules, at the start of the daemon and at a RELOAD event; the
\* companions stay where they are.
Rescan ==
    /\ list' = disk
    /\ targets' = Published(disk)
    /\ proc' = [proc EXCEPT !.calm = FALSE]
    /\ UNCHANGED <<disk, comps, records, injected, misled>>

Bind == daemon = "down" /\ daemon' = "starting"
        /\ UNCHANGED <<disk, list, targets, comps, records, proc, injected, drained, misled, spent>>
Start == daemon = "starting" /\ daemon' = "up" /\ Rescan /\ drained' = FALSE /\ Free
Reload == daemon = "up" /\ list # disk /\ Rescan /\ drained' = TRUE /\ Free /\ UNCHANGED daemon

\* What dies with the daemon; the kernel keeps the targets.
Dead == /\ daemon' = "down" /\ list' = <<>> /\ comps' = <<>> /\ records' = <<>>
        /\ drained' = FALSE /\ misled' = FALSE
        /\ UNCHANGED <<disk, targets, injected>>

DaemonDies == /\ daemon # "down" /\ Trouble /\ Dead
              /\ proc' = [proc EXCEPT !.calm = FALSE]

\* A companion crashes; its slot keeps the pid and the socket.
CompanionDies ==
    /\ \E i \in DOMAIN comps : comps[i].alive /\ comps' = [comps EXCEPT ![i].alive = FALSE]
    /\ Failing(TRUE)
    /\ UNCHANGED <<disk, daemon, list, targets, records, proc, injected, drained, misled>>

-----------------------------------------------------------------------------
(* load_matching_modules.                                                   *)

\* A process of this instance is executed, and the kernel finds its name.
Exec(pid) ==
    /\ proc.at = "none" /\ \E line \in targets : line.here
    /\ Spent("exec", 1)
    /\ proc' = [NoProc EXCEPT !.at = "count", !.pid = pid]
    /\ UNCHANGED <<served, records, injected, misled>>

Exit ==
    /\ proc.at = "running"
    /\ proc' = NoProc /\ Free
    /\ UNCHANGED <<served, records, injected, misled>>

\* The loop goes on to the next index, or core_start goes on.
Advanced(st) == [st EXCEPT !.i = @ + 1, !.lib = None,
                           !.at = IF st.i + 1 < st.n THEN "info" ELSE "restore"]
Passed(st) == Advanced([st EXCEPT !.failed = @ \cup {st.i + 1}])

\* The step of the process alone.
Step(at, st) == /\ proc.at = at /\ proc' = st /\ UNCHANGED <<served, records, injected, misled>>

\* GetNativeModuleCount.
GetCount ==
    /\ Answered \/ Refused
    /\ Step("count", [proc EXCEPT !.n = Len(list), !.calm = Answered,
                                  !.at = IF list = <<>> THEN "restore" ELSE "info"])
    /\ Free

\* target_matches, of the line that GetNativeModuleInfo gives: blank beyond the
\* list.
TargetMatches(i) == i <= Len(list) /\ list[i].here

\* GetNativeModuleInfo, and the loop that does not look at the target.
GetInfoMut ==
    /\ Answered \/ Refused
    /\ Step("info", IF Answered THEN [proc EXCEPT !.at = "fd"] ELSE Advanced(proc))
    /\ Free

\* GetNativeModuleInfo.
GetInfo ==
    /\ Answered \/ Refused
    /\ Step("info", IF Answered /\ TargetMatches(proc.i + 1)
                    THEN [proc EXCEPT !.at = "fd"] ELSE Advanced(proc))
    /\ Free

\* GetNativeModuleFd: of the line that has this index now.  A copy in memory, or
\* the file itself, or neither.
GetFd ==
    /\ Answered \/ Refused
    /\ LET there == Answered /\ proc.i + 1 <= Len(list)
       IN  \/ /\ there
              /\ Step("fd", [proc EXCEPT !.at = "open", !.lib = list[proc.i + 1].id])
              /\ Failing(FALSE)
           \/ Step("fd", Passed(proc)) /\ Failing(there)

\* The own loader, or the system's, by name and then by path; neither, or no
\* zn_module of version 3 in it, and the library is closed again.  The handle
\* is entered before onModuleLoaded is called.
OpenLibrary ==
    \/ \E own \in BOOLEAN :
          /\ Failing(~own)
          /\ Step("open", [proc EXCEPT !.at = "callback",
                             !.loaded = Append(@, [idx |-> proc.i + 1, lib |-> proc.lib])])
    \/ Step("open", Passed(proc)) /\ Failing(TRUE)

\* onModuleLoaded returns.
CallbackEnds ==
    /\ proc.at = "callback"
    /\ proc' = [proc EXCEPT !.at = "report"] /\ injected' = injected \cup {<<proc.pid, proc.lib>>}
    /\ Free /\ UNCHANGED <<served, records, misled>>

\* record_native_injection without a look at what is there already.
RecordMut(pid, id) ==
    LET all == <<[pid |-> pid, id |-> id]>> \o records
    IN  SubSeq(all, 1, IF Len(all) > MaxRecords THEN MaxRecords ELSE Len(all))

\* record_native_injection
Record(pid, id) ==
    LET new == [pid |-> pid, id |-> id]
        all == <<new>> \o RemoveFirst(records, new)
    IN  SubSeq(all, 1, IF Len(all) > MaxRecords THEN MaxRecords ELSE Len(all))

\* ReportNativeInjection, of the line that has this index now.
Report ==
    /\ proc.at = "report" /\ (Answered \/ Refused)
    /\ IF Answered /\ proc.i + 1 <= Len(list)
       THEN /\ records' = Record(proc.pid, list[proc.i + 1].id)
            /\ misled' = (misled \/ ~proc.calm)
       ELSE UNCHANGED <<records, misled>>
    /\ proc' = Advanced(proc)
    /\ Free /\ UNCHANGED <<served, injected>>

\* restore_native_load_policy: answered or not.
RestorePolicy ==
    /\ Answered \/ Refused
    /\ Step("restore", [proc EXCEPT !.at = "running"]) /\ Free

-----------------------------------------------------------------------------
(* The API, called from onModuleLoaded and later from the module's code.    *)

CanCall == proc.at \in {"callback", "running"} /\ proc.loaded # <<>>

\* api_inline_hook and install: a function that is hooked is refused; the
\* trampoline is mapped before the daemon is asked to patch.
InlineHook(f) ==
    /\ CanCall /\ f \notin proc.hooks
    /\ proc' = [proc EXCEPT !.at = "patch", !.back = proc.at, !.fun = f, !.tramp = @ \cup {f}]
    /\ Spent("act", 1) /\ UNCHANGED <<served, records, injected, misled>>

Patched(ok) ==
    [proc EXCEPT !.at = proc.back, !.fun = None,
                 !.hooks = IF ok THEN @ \cup {proc.fun} ELSE @,
                 !.tramp = IF ok THEN @ ELSE @ \ {proc.fun},
                 !.branch = IF ok THEN @ \cup {proc.fun} ELSE @,
                 !.lost = IF ok THEN @ \ {proc.fun} ELSE @]

\* PatchText, answered; or refused by the daemon or by do_yz_patch_text, or
\* there is no daemon: the trampoline goes.
PatchText ==
    \/ Answered /\ Step("patch", Patched(TRUE)) /\ Failing(FALSE)
    \/ Answered /\ Step("patch", Patched(FALSE)) /\ Failing(TRUE)
    \/ Refused /\ Step("patch", Patched(FALSE)) /\ Free

\* do_yz_patch_text has written when the daemon dies: no answer, so the
\* trampoline goes, and the text branches to it.
PatchUnacked ==
    /\ proc.at = "patch" /\ Answered
    /\ proc' = [Patched(FALSE) EXCEPT !.branch = @ \cup {proc.fun}, !.calm = FALSE,
                                      !.unacked = @ \cup {proc.fun}]
    /\ Trouble /\ Dead

\* What madvise of two pages from a function's own takes back.
Near(f) == {g \in Funs : PageOf[g] \in PageOf[f]..(PageOf[f] + 1)}

\* uninstall that forgets to drop the patched page.
InlineUnhookMut(f) ==
    /\ CanCall /\ f \in proc.hooks
    /\ proc' = [proc EXCEPT !.hooks = @ \ {f}, !.tramp = @ \ {f}]
    /\ Spent("act", 1) /\ UNCHANGED <<served, records, injected, misled>>

\* api_inline_unhook and uninstall: MADV_DONTNEED from the function's page on,
\* which restores the functions nearby as well; the trampoline goes.
InlineUnhook(f) ==
    /\ CanCall /\ f \in proc.hooks
    /\ proc' = [proc EXCEPT !.hooks = @ \ {f}, !.tramp = @ \ {f},
                            !.branch = @ \ Near(f), !.unacked = @ \ Near(f),
                            !.lost = (@ \cup (proc.hooks \cap Near(f))) \ {f}]
    /\ Spent("act", 1) /\ UNCHANGED <<served, records, injected, misled>>

EmptySlot == [lib |-> None, alive |-> FALSE, entry |-> FALSE]
Resized(slots, n) == [i \in 1..n |-> IF i <= Len(slots) THEN slots[i] ELSE EmptySlot]

\* ensure_native_companion that forgets to look whether one runs already in the
\* slot, and starts the neighbour's.
CompanionMut(i) ==
    LET slots == Resized(comps, Len(list))
        k     == IF i < Len(list) THEN i + 1 ELSE i
    IN  {[slots EXCEPT ![i] = [lib |-> list[k].id, alive |-> TRUE, entry |-> TRUE]]}

\* ensure_native_companion of index i: the companion that runs in the slot, or
\* one that is started for it: with an entry, without, or not ready in time.
Companion(i) ==
    LET slots == Resized(comps, Len(list))
    IN  IF slots[i] # EmptySlot THEN {slots}
        ELSE {slots} \cup {[slots EXCEPT ![i] = [lib |-> list[i].id, alive |-> TRUE, entry |-> entry]] :
                              entry \in BOOLEAN}

\* api_connect_companion: by the index in the handle, of the line that has this
\* index now.  A companion that has died is not started again.
ConnectCompanion(k) ==
    LET i == proc.loaded[k].idx
    IN  /\ CanCall /\ Answered /\ Spent("act", 1)
        /\ i <= Len(list) /\ list[i].comp
        /\ \E slots \in Companion(i) :
              /\ comps' = slots
              /\ proc' = IF slots[i].alive /\ slots[i].entry
                         THEN [proc EXCEPT !.got = <<proc.loaded[k].lib, slots[i].lib, proc.calm /\ ~drained>>]
                         ELSE proc
        /\ UNCHANGED <<disk, daemon, list, targets, drained, records, injected, misled>>

-----------------------------------------------------------------------------
Init ==
    /\ disk \in Lists /\ daemon = "down" /\ list = <<>> /\ targets = {}
    /\ comps = <<>> /\ records = <<>> /\ proc = NoProc /\ injected = {}
    /\ drained = FALSE /\ misled = FALSE
    /\ spent = [what \in {"exec", "act", "trouble"} |-> 0]

Load == GetCount \/ GetInfo \/ GetFd \/ OpenLibrary \/ CallbackEnds \/ Report \/ RestorePolicy
Api == \/ \E f \in Funs : InlineHook(f) \/ InlineUnhook(f)
       \/ \E k \in DOMAIN proc.loaded : ConnectCompanion(k)

Next ==
    \/ Edit \/ Bind \/ Start \/ Reload \/ DaemonDies \/ CompanionDies
    \/ (\E pid \in Pids : Exec(pid)) \/ Exit
    \/ Load \/ Api \/ PatchText \/ PatchUnacked

Spec == Init /\ [][Next]_vars

-----------------------------------------------------------------------------
Named == Modules \cup {None}
Handle == [idx : Nat \ {0}, lib : Named]
Companions == [lib : Named, alive : BOOLEAN, entry : BOOLEAN]
Places == {"none", "count", "info", "fd", "open", "callback", "report", "restore", "running", "patch"}
Process ==
    [at : Places, pid : Pids \cup {None}, n : Nat, i : Nat, lib : Named, loaded : Seq(Handle),
     failed : SUBSET Nat, calm : BOOLEAN, hooks : SUBSET Funs, tramp : SUBSET Funs,
     branch : SUBSET Funs, lost : SUBSET Funs, unacked : SUBSET Funs, fun : Funs \cup {None},
     back : {"none", "callback", "running"}, got : {<<>>} \cup (Named \X Named \X BOOLEAN)]

\* Type invariant.
TypeOK ==
    /\ {disk, list} \subseteq Seq(Line) /\ targets \subseteq Line
    /\ daemon \in {"down", "starting", "up"} /\ {drained, misled} \subseteq BOOLEAN
    /\ comps \in Seq(Companions)
    /\ records \in Seq([pid : Pids \cup {None}, id : Modules])
    /\ proc \in Process

\* load_matching_modules: while the daemon serves one list, a process loads the
\* lines that are for it, all that can be loaded, in their order and none
\* twice, and every handle has the index of its own line.
CalmNativeLoadExact ==
    LET Due == {i \in DOMAIN list : list[i].here /\ i \notin proc.failed}
        Handles == DOMAIN proc.loaded
    IN  proc.calm /\ proc.at = "restore" =>
          /\ {proc.loaded[k].idx : k \in Handles} = Due
          /\ \A j, k \in Handles : j < k => proc.loaded[j].idx < proc.loaded[k].idx
          /\ \A k \in Handles : proc.loaded[k].lib = list[proc.loaded[k].idx].id

\* Inline hooks: text branches to mapped trampolines only, and only in functions
\* that are recorded, so that they can be restored; a recorded hook is in
\* effect.  Not for a function whose patch the daemon died over, and not in
\* effect once a hook nearby has been taken back.
HooksSound ==
    /\ proc.branch \ proc.unacked \subseteq proc.hooks \cap proc.tramp
    /\ proc.hooks \ proc.lost \subseteq proc.branch
    /\ proc.hooks \subseteq proc.tramp

\* ensure_native_companion: a module reaches its own companion, if the daemon
\* has served one list since it started and since the process asked for it.
CompanionOwn ==
    proc.got # <<>> /\ proc.got[3] => proc.got[1] = proc.got[2]

\* g_native_injections, what the manager shows: every record names a module that
\* ran in that process, none twice; what a process has loaded under one list
\* is there as long as there is room.
RecordsTrue ==
    ~misled =>
      /\ IsInjective(records)
      /\ \A i \in DOMAIN records : <<records[i].pid, records[i].id>> \in injected
      /\ proc.at = "restore" /\ proc.calm /\ Len(records) < MaxRecords =>
            \A k \in DOMAIN proc.loaded :
               [pid |-> proc.pid, id |-> proc.loaded[k].lib] \in ToSet(records)

=============================================================================

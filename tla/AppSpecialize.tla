---------------------------- MODULE AppSpecialize ----------------------------
(***************************************************************************)
(* What the injected core does in a zygote and in the processes it forks   *)
(* (daemon/zygisk/core/src/hook.cpp and core.cpp).                         *)
(*                                                                         *)
(* The core replaces the three native methods by which the zygote forks an *)
(* app, forks system_server and specialises a pooled process (USAP).  A    *)
(* wrapper forks first, so that the modules are loaded and called in the   *)
(* child alone; the fork inside the original method is then a no-op.  In   *)
(* the child the wrapper asks zygiskd whether to inject, runs the          *)
(* callbacks before and after the original method, closes the file         *)
(* descriptors the modules left, and in a process on the denylist takes    *)
(* its hooks back and unmaps itself.  A child zygote goes on to fork       *)
(* processes of its own, which inherit the modules it has loaded.          *)
(*                                                                         *)
(* A process is one record; fork copies it.                                *)
(***************************************************************************)
EXTENDS Integers, Sequences, SequencesExt, TLC

CONSTANTS
    MaxKids,    \* bound: processes the zygote and its children have at a time
    Order,      \* the modules zygiskd lists, in order
    Version,    \* the API version each registers with
    Calls,      \* the API calls a callback may make
    Requests,   \* arguments the wrappers of an app are called with
    Layouts,    \* how each native method can be hooked
    MaxCalls,   \* bound: API calls with an effect
    MaxFaults   \* bound: steps of which something fails

Mods == ToSet(Order)
Root == 0
Kids == 1..MaxKids
Procs == Root..MaxKids
Methods == {"fork", "usap", "server"}

ASSUME OrderAssumption == Order \in Seq(Mods) /\ IsInjective(Order)
\* A module's hooks are told from those of the core by name.
ASSUME ModsAssumption == Mods \cap (Methods \cup {"strdup"}) = {}
ASSUME VersionAssumption == Version \in [Mods -> 1..5]
ASSUME CallsAssumption ==
    Calls \subseteq {"none", "dir", "socket", "exempt", "dlclose", "jni", "jni_table", "plt"}
\* The uid of a request is plain, on the denylist or isolated; is_child_zygote.
ASSUME RequestsAssumption ==
    Requests \subseteq [kind : {"app", "usap"}, uid : {"plain", "denied", "isolated"}, cz : BOOLEAN]
ASSUME LayoutsAssumption == Layouts \subseteq [Methods -> {"inline", "table", "absent"}]
ASSUME BoundsAssumption == {MaxKids, MaxCalls, MaxFaults} \subseteq Nat

VARIABLES
    procs,     \* the processes
    denyMode,  \* denylist_mode, as zygiskd serves it
    acts,      \* API calls made with an effect
    faults     \* steps of which something failed

vars == <<procs, denyMode, acts, faults>>

\* Descriptors: the zygote's own, the ones the caller of the native method
\* lists in fds_to_ignore, and per module its directory and some other file.
IgnoreArg == {<<Root, "session">>}
NativeFds == {<<Root, "native">>} \cup IgnoreArg
DirFds == Mods \X {"dir"}

NoRequest == [kind |-> "none", uid |-> "plain", cz |-> FALSE]
ServerRequest == [kind |-> "server", uid |-> "plain", cz |-> FALSE]

Blank ==
    [at |-> "absent",      \* the place in the wrapper
     req |-> NoRequest,    \* the arguments of the native method
     side |-> "parent",    \* which side of the fork its return value says it is
     descends |-> "no",    \* a child zygote: forked as one, or from the pool at first
     ctx |-> "none",       \* g_ctx and its pid: none, child (0), parent (> 0), failed (< 0)
     dec |-> 0,            \* zygisk_inject_decision
     run |-> FALSE,        \* run_modules
     mode |-> 0,           \* g_yz_config.denylist_mode
     heard |-> TRUE,       \* zygiskd answered the questions of the decision
     again |-> FALSE,      \* forked by the original method's own fork
     fds |-> NativeFds,    \* open descriptors
     atFork |-> {},        \* those open when the child was forked
     exempted |-> {},      \* exempted_fds
     ignore |-> IgnoreArg, \* fds_to_ignore, as the original method sees it
     mods |-> <<>>,        \* g_modules
     libs |-> {},          \* module libraries mapped
     k |-> 1,              \* the index of the running loop
     calls |-> <<>>,       \* callbacks made since the fork
     inline |-> {},        \* g_ihooks: natives of the zygote, JNI hooks of modules
     table |-> {},         \* g_rn_fallback
     plt |-> {},           \* PLT hooks: "strdup", "fork", and those of modules
     commitOk |-> TRUE,    \* no commit of the PLT hooks failed when they were taken back
     can |-> FALSE,        \* can_unmap
     core |-> TRUE,        \* the core is mapped
     mounts |-> TRUE]      \* the modules' mounts are visible

Set(p, st) == procs' = [procs EXCEPT ![p] = st]
Failing(bad) == /\ bad => faults < MaxFaults
                /\ faults' = faults + (IF bad THEN 1 ELSE 0)
Resting == {"absent", "boot", "armed", "plain", "idle", "pool", "app"}

\* Bound: one request at a time, and no process looking on.  Processes share
\* nothing but zygiskd.
Calm == \A p \in Procs : procs[p].at \in Resting
Alone(p) == Calm /\ \A q \in Kids \ {p} : procs[q].at = "absent"

-----------------------------------------------------------------------------
(* The hooks of the zygote.                                                 *)

\* zygisk_hook_bootstrap: the PLT hook on strdup, or nothing at all.
Bootstrap ==
    LET st == procs[Root]
    IN  /\ st.at = "boot"
        /\ \/ Set(Root, [st EXCEPT !.at = "armed", !.plt = {"strdup"}])
           \/ Set(Root, [st EXCEPT !.at = "plain"])
    /\ UNCHANGED <<denyMode, acts, faults>>

\* hook_jni_methods: a prologue that cannot be moved falls back to
\* RegisterNatives; a method this Android does not have is left out.
Hooked(st, layout) ==
    [st EXCEPT !.inline = @ \cup {m \in Methods : layout[m] = "inline"},
               !.table = @ \cup {m \in Methods : layout[m] = "table"}]

\* new_strdup sees ZygoteInit; hook_zygote_jni.  The hook on fork may fail.
ReachZygoteInit ==
    LET st == procs[Root]
    IN  /\ st.at = "armed"
        /\ \/ \E layout \in Layouts, armed \in BOOLEAN :
                 /\ Failing(~armed)
                 /\ Set(Root, [Hooked(st, layout) EXCEPT
                                  !.at = "idle", !.plt = IF armed THEN @ \cup {"fork"} ELSE @])
           \/ /\ Failing(TRUE)                 \* no VM, or an unknown ArtMethod
              /\ Set(Root, [st EXCEPT !.at = "plain"])
    /\ UNCHANGED <<denyMode, acts>>

Wraps(st, method) == method \in st.inline \cup st.table

-----------------------------------------------------------------------------
(* Forking.                                                                 *)

\* The next process to be forked.
Free(c) == procs[c].at = "absent" /\ \A d \in Kids : d < c => procs[d].at # "absent"

\* What the two sides of a fork start from.
Forked(st, req) == [st EXCEPT !.at = "decide", !.req = req, !.side = "child", !.ctx = "child",
                              !.atFork = st.fds, !.calls = <<>>, !.descends = "no",
                              !.again = FALSE]
Forking(st, req, pid) == [st EXCEPT !.at = "orig", !.req = req, !.ctx = pid, !.side = "parent"]

\* ctx_fork_pre: the real fork, made before the original method is entered.
CtxForkPre(p, req) ==
    LET st == procs[p]
    IN  \/ \E c \in Kids :
              /\ Free(c)
              /\ procs' = [procs EXCEPT ![p] = Forking(st, req, "parent"), ![c] = Forked(st, req)]
              /\ Failing(FALSE)
        \/ Set(p, Forking(st, req, "failed")) /\ Failing(TRUE)

\* The wrappers of nativeForkAndSpecialize, up to the fork.
ForkApp(p, req) ==
    /\ procs[p].at = "idle" /\ Alone(p) /\ req.kind = "app"
    /\ Wraps(procs[p], "fork")
    /\ CtxForkPre(p, req)
    /\ UNCHANGED <<denyMode, acts>>

\* The wrapper of nativeForkSystemServer, up to the fork.
ForkServer ==
    /\ procs[Root].at = "idle" /\ Alone(Root)
    /\ Wraps(procs[Root], "server")
    /\ CtxForkPre(Root, ServerRequest)
    /\ UNCHANGED <<denyMode, acts>>

\* new_fork that takes the child's 0 for "not forked yet".
NoSecondForkMut(st) == st.ctx = "parent" /\ "fork" \in st.plt

\* new_fork: the original method's fork returns what ctx_fork_pre got, if it
\* passes through the hook and the first fork did not fail.
NoSecondFork(st) == st.ctx \in {"child", "parent"} /\ "fork" \in st.plt

\* The zygote fills its pool: a fork outside the wrappers.
ForkUsap ==
    /\ procs[Root].at = "idle" /\ Alone(Root)
    /\ Wraps(procs[Root], "usap")
    /\ \E c \in Kids :
          /\ Free(c)
          /\ Set(c, [procs[Root] EXCEPT !.at = "pool", !.side = "child", !.calls = <<>>,
                                        !.atFork = procs[Root].fds])
    /\ UNCHANGED <<denyMode, acts, faults>>

\* The wrappers of nativeSpecializeAppProcess: no context, no descriptors to close.
SpecializeUsap(p, req) ==
    /\ procs[p].at = "pool" /\ Alone(p) /\ req.kind = "usap"
    /\ Set(p, [procs[p] EXCEPT !.at = "decide", !.req = req])
    /\ UNCHANGED <<denyMode, acts, faults>>

-----------------------------------------------------------------------------
(* The decision, and the loading of the modules, in the child.              *)

\* zygisk_inject_decision without the question to zygiskd answered: inject.
Decision(onList, mode) ==
    IF ~onList THEN 0 ELSE IF mode = 1 THEN 2 ELSE IF mode = 2 THEN 1 ELSE 0

\* An injected process loads its modules; an app that is not closes what it
\* inherited of them.
Onwards(st, run) ==
    IF run THEN "load" ELSE IF st.req.kind = "app" THEN "drop" ELSE "orig"

\* zygisk_inject_decision of a process that is not isolated.  GetConfig
\* unanswered keeps the inherited mode, GetProcessFlags unanswered is no flag.
InjectDecision(p) ==
    \E config, flags \in BOOLEAN :
       LET st   == procs[p]
           mode == IF config THEN denyMode ELSE st.mode
           dec  == Decision(flags /\ st.req.uid = "denied", mode)
       IN  /\ Failing(~config \/ ~flags)
           /\ Set(p, [st EXCEPT !.dec = dec, !.run = dec # 2, !.mode = mode,
                                 !.heard = config /\ flags, !.at = Onwards(st, dec # 2)])

\* forked_decision asks for an isolated process too.
ForkedDecisionMut(p) ==
    LET st == procs[p]
    IN  /\ st.at = "decide"
        /\ IF st.req.kind = "server"
           THEN Set(p, [st EXCEPT !.run = TRUE, !.at = "load"]) /\ UNCHANGED faults
           ELSE InjectDecision(p)
    /\ UNCHANGED <<denyMode, acts>>

\* The first lines of the wrappers after the fork: forked_decision.
ForkedDecision(p) ==
    LET st == procs[p]
    IN  /\ st.at = "decide"
        /\ IF st.req.kind = "server"
           THEN Set(p, [st EXCEPT !.run = TRUE, !.at = "load"]) /\ UNCHANGED faults
           ELSE IF st.req.uid = "isolated"
           THEN Set(p, [st EXCEPT !.dec = 2, !.at = Onwards(st, FALSE)]) /\ UNCHANGED faults
           ELSE InjectDecision(p)
    /\ UNCHANGED <<denyMode, acts>>

\* close_inherited_module_fds closes what lies under /data/adb/modules.
DropInherited(p) ==
    /\ procs[p].at = "drop"
    /\ Set(p, [procs[p] EXCEPT !.fds = @ \ DirFds, !.at = "orig"])
    /\ UNCHANGED <<denyMode, acts, faults>>

\* zygisk_exempt_fd: only in a wrapper with an exempt channel, from API 4 on.
CanExempt(st, m) == st.ctx = "child" /\ st.req.kind = "app" /\ Version[m] >= 4

\* One API call of module m from a callback.
AfterCall(st, m, call) ==
    CASE call = "dir" -> [st EXCEPT !.fds = IF Version[m] >= 2 THEN @ \cup {<<m, "dir">>} ELSE @]
      [] call = "socket" -> [st EXCEPT !.fds = @ \cup {<<m, "socket">>}]
      [] call = "exempt" ->
            [st EXCEPT !.fds = @ \cup {<<m, "socket">>},
                       !.exempted = IF CanExempt(st, m) THEN @ \cup {<<m, "socket">>} ELSE @]
      [] call = "dlclose" -> [st EXCEPT !.mods =
                                 [i \in DOMAIN @ |-> IF @[i].id = m THEN [@[i] EXCEPT !.dlclose = TRUE] ELSE @[i]]]
      [] call = "jni" -> [st EXCEPT !.inline = @ \cup {m}]
      [] call = "jni_table" -> [st EXCEPT !.table = @ \cup {m}]
      [] call = "plt" -> [st EXCEPT !.plt = @ \cup {m}]
      [] OTHER -> st

\* A callback of m returns, having made at most one call with an effect.
Callback(p, st, m) ==
    \E call \in Calls :
       /\ call # "none" => acts < MaxCalls
       /\ acts' = acts + (IF call = "none" THEN 0 ELSE 1)
       /\ Set(p, AfterCall(st, m, call))

EndLoad(st) == [st EXCEPT !.at = "pre", !.k = 1]
Registered(st, m) ==
    [st EXCEPT !.mods = Append(@, [id |-> m, dlclose |-> FALSE, abi |-> TRUE]),
               !.libs = @ \cup {m}, !.calls = Append(@, <<"load", m>>), !.k = @ + 1]

\* load_modules_impl has nothing to do, is not answered, or is at the end.
LoadEnds(p) ==
    LET st == procs[p]
    IN  /\ st.at = "load"
        /\ \/ st.k > Len(Order)
           \/ st.k = 1         \* inherited (g_modules is not empty), or no count
        /\ Failing(st.k = 1 /\ st.mods = <<>>)
        /\ Set(p, EndLoad(st))
    /\ UNCHANGED <<denyMode, acts>>

\* load_modules_impl, one index: passed over; mapped, but it does not
\* register or RegisterModuleImpl refuses it; or its onLoad run.
LoadModule(p) ==
    LET st == procs[p]
        m  == Order[st.k]
    IN  /\ st.at = "load" /\ st.k <= Len(Order)
        /\ st.k = 1 => st.mods = <<>>
        /\ \/ Set(p, [st EXCEPT !.k = @ + 1]) /\ Failing(FALSE) /\ UNCHANGED acts
           \/ Set(p, [st EXCEPT !.libs = @ \cup {m}, !.k = @ + 1]) /\ Failing(TRUE) /\ UNCHANGED acts
           \/ Callback(p, Registered(st, m), m) /\ Failing(FALSE)
    /\ UNCHANGED denyMode

-----------------------------------------------------------------------------
(* The callbacks and the original method.                                   *)

Called(st, callback) == [st EXCEPT !.calls = Append(@, <<callback, st.mods[st.k].id>>), !.k = @ + 1]

\* run_app_pre_impl and run_server_pre_impl: one module of the loop, or its end.
RunPre(p) ==
    LET st == procs[p]
    IN  /\ st.at = "pre"
        /\ IF st.k > Len(st.mods)
           THEN /\ Set(p, [st EXCEPT !.at = IF st.req.kind = "server" THEN "sanitize" ELSE "close"])
                /\ UNCHANGED acts
           ELSE IF st.mods[st.k].abi
           THEN Callback(p, Called(st, "pre"), st.mods[st.k].id)
           ELSE Set(p, [st EXCEPT !.k = @ + 1]) /\ UNCHANGED acts
    /\ UNCHANGED <<denyMode, faults>>

\* run_app_pre_impl leaves m.abi set after it has closed the library.
CloseLibrariesMut(p) ==
    LET st     == procs[p]
        closed == {m \in Mods : \E i \in DOMAIN st.mods : st.mods[i].id = m /\ st.mods[i].dlclose}
    IN  /\ st.at = "close"
        /\ Set(p, [st EXCEPT !.libs = @ \ closed,
                             !.at = IF st.req.kind = "app" THEN "sanitize" ELSE "orig"])
    /\ UNCHANGED <<denyMode, acts, faults>>

\* run_app_pre_impl honours DLCLOSE_MODULE_LIBRARY.
CloseLibraries(p) ==
    LET st     == procs[p]
        closed == {m \in Mods : \E i \in DOMAIN st.mods : st.mods[i].id = m /\ st.mods[i].dlclose}
    IN  /\ st.at = "close"
        /\ Set(p, [st EXCEPT !.libs = @ \ closed,
                             !.mods = [i \in DOMAIN st.mods |-> [st.mods[i] EXCEPT !.abi = @ /\ st.mods[i].id \notin closed]],
                             !.at = IF st.req.kind = "app" THEN "sanitize" ELSE "orig"])
    /\ UNCHANGED <<denyMode, acts, faults>>

\* The exempted descriptors stay open, but the original method is not told.
SanitizeMut(p) ==
    LET st == procs[p]
    IN  /\ st.at = "sanitize"
        /\ \E enough \in BOOLEAN :
              /\ Failing(~enough)
              /\ LET kept == IF st.req.kind = "app" /\ enough THEN st.exempted ELSE {}
                 IN  Set(p, [st EXCEPT !.fds = @ \cap (st.atFork \cup IgnoreArg \cup kept), !.at = "orig"])
    /\ UNCHANGED <<denyMode, acts>>

\* ctx_sanitize_fds; without memory for the longer array the exemptions are lost.
Sanitize(p) ==
    LET st == procs[p]
    IN  /\ st.at = "sanitize"
        /\ \E enough \in BOOLEAN :
              /\ Failing(~enough)
              /\ LET kept == IF st.req.kind = "app" /\ enough THEN st.exempted ELSE {}
                 IN  Set(p, [st EXCEPT !.fds = @ \cap (st.atFork \cup IgnoreArg \cup kept),
                                       !.ignore = @ \cup kept, !.at = "orig"])
    /\ UNCHANGED <<denyMode, acts>>

AfterOrig(st) == [st EXCEPT !.at = IF st.run THEN "post" ELSE "tail", !.k = 1]

\* The original method, when its fork has been made already or it makes none.
Orig(p) ==
    LET st == procs[p]
    IN  /\ st.at = "orig"
        /\ st.req.kind = "usap" \/ NoSecondFork(st)
        /\ Set(p, AfterOrig(st))
    /\ UNCHANGED <<denyMode, acts, faults>>

\* The original method, when it forks itself: the first fork failed, or the
\* hook on fork was never armed.  Its child goes on as a specialised process.
OrigForks(p) ==
    LET st  == procs[p]
        own == AfterOrig([st EXCEPT !.side = "parent"])
    IN  /\ st.at = "orig" /\ st.req.kind # "usap" /\ ~NoSecondFork(st)
        /\ \/ \E c \in Kids :
                 /\ Free(c)
                 /\ procs' = [procs EXCEPT ![p] = own,
                                         ![c] = AfterOrig([st EXCEPT !.side = "child", !.again = TRUE])]
                 /\ Failing(FALSE)
           \/ Set(p, own) /\ Failing(\E c \in Kids : Free(c))   \* or no process left
    /\ UNCHANGED <<denyMode, acts>>

\* run_app_post_impl and run_server_post_impl.
RunPost(p) ==
    LET st == procs[p]
    IN  /\ st.at = "post"
        /\ Set(p, IF st.k > Len(st.mods) THEN [st EXCEPT !.at = "tail"]
                  ELSE IF st.mods[st.k].abi THEN Called(st, "post")
                  ELSE [st EXCEPT !.k = @ + 1])
    /\ UNCHANGED <<denyMode, acts, faults>>

-----------------------------------------------------------------------------
(* The end of the wrapper.                                                  *)

\* zygisk_self_unhook: JNI hooks of modules are in the same two lists; of the
\* PLT only strdup and fork are put back.  FindClass may fail, and the result
\* of the commit is not looked at.
SelfUnhook(st, found, commit) ==
    [st EXCEPT !.inline = {},
               !.table = IF found THEN {} ELSE @,
               !.plt = IF commit THEN @ \ {"strdup", "fork"} ELSE @,
               !.commitOk = commit,
               !.fds = @ \ DirFds]

\* yz_revert_self_mounts, and the SelfDestruct request: zygiskd may fail.
Reverted(st, ok) == [st EXCEPT !.mounts = @ /\ ~ok]

\* The wrapper returns: to the zygote's loop, or to the specialised process.
\* What belonged to the call alone is forgotten.
Returned(st) ==
    [st EXCEPT !.at = IF st.side = "parent" \/ st.req.cz THEN "idle" ELSE "app",
               !.ctx = "none", !.exempted = {}, !.ignore = IgnoreArg, !.k = 1,
               !.dec = 0, !.run = FALSE, !.heard = TRUE, !.atFork = {},
               !.calls = IF st.side = "child" THEN <<>> ELSE @,
               !.req = NoRequest,
              !.descends = IF ~(st.side = "child" /\ st.req.cz) THEN @
                           ELSE IF st.req.kind = "usap" \/ @ = "pool" THEN "pool" ELSE "fork",
               !.fds = IF st.req.cz /\ st.ctx = "child" THEN @ \ DirFds ELSE @]

\* Neither the denylist nor a child zygote.
ReturnPlain(p) ==
    LET st == procs[p]
    IN  /\ st.at = "tail"
        /\ st.dec = 0 \/ (st.dec = 2 /\ st.req.cz)
        /\ Set(p, Returned(st))
    /\ UNCHANGED <<denyMode, acts, faults>>

\* finish_restore_only_child (denylist_mode 2).
RestoreOnly(p) ==
    LET st == procs[p]
    IN  /\ st.at = "tail" /\ st.dec = 1
        /\ \E ok, found, commit \in BOOLEAN :
              /\ Failing(~ok \/ ~found \/ ~commit)
              /\ LET clean == Reverted(st, ok)
                 IN  Set(p, Returned(IF st.req.cz THEN clean ELSE SelfUnhook(clean, found, commit)))
    /\ UNCHANGED <<denyMode, acts>>

\* zygisk_specialize_fully_inline_hooked without a look at g_rn_fallback.
FullyInlineMut(st) == st.inline # {}

\* zygisk_specialize_fully_inline_hooked
FullyInline(st) == st.inline # {} /\ st.table = {}

\* zygisk_self_destruct, up to the unmapping.
SelfDestruct(p) ==
    LET st == procs[p]
    IN  /\ st.at = "tail" /\ st.dec = 2 /\ ~st.req.cz
        /\ \E ok, found, commit \in BOOLEAN :
              /\ Failing(~ok \/ ~found \/ ~commit)
              /\ LET bare == [SelfUnhook(st, found, commit) EXCEPT !.can = FullyInline(st)]
                 IN  Set(p, [(IF st.req.uid = "isolated" THEN bare ELSE Reverted(bare, ok))
                                EXCEPT !.at = "unmap"])
    /\ UNCHANGED <<denyMode, acts>>

\* yz_self_unmap_tail, or a core that stays under another name: the memfd
\* loader tells the core its range, the system linker does not.
UnmapSelf(p) ==
    LET st == procs[p]
    IN  /\ st.at = "unmap"
        /\ \E range \in BOOLEAN : Set(p, [Returned(st) EXCEPT !.core = ~(st.can /\ range)])
    /\ UNCHANGED <<denyMode, acts, faults>>

\* A specialised process, or a child zygote, ends.
Exit(p) ==
    /\ p # Root /\ procs[p].at \in {"app", "idle", "pool"} /\ Calm
    /\ Set(p, Blank)
    /\ UNCHANGED <<denyMode, acts, faults>>

-----------------------------------------------------------------------------
Init ==
    /\ procs = [p \in Procs |-> [Blank EXCEPT !.at = IF p = Root THEN "boot" ELSE "absent"]]
    /\ denyMode \in 0..2 /\ acts = 0 /\ faults = 0

\* Bound: processes share nothing, so the parent's half of a wrapper runs
\* before the child's, and of two children the first forked before the second.
Half(p) == IF procs[p].side = "parent" /\ procs[p].ctx \in {"parent", "failed"} THEN 0 ELSE p
Turn(p) == \A q \in Procs : procs[q].at \notin Resting => Half(p) <= Half(q)

\* What runs in p without anybody else's doing.
Advance(p) ==
    /\ Turn(p)
    /\ \/ ForkedDecision(p) \/ DropInherited(p)
       \/ LoadModule(p) \/ LoadEnds(p)
       \/ RunPre(p) \/ CloseLibraries(p) \/ Sanitize(p)
       \/ Orig(p) \/ OrigForks(p) \/ RunPost(p)
       \/ ReturnPlain(p) \/ RestoreOnly(p) \/ SelfDestruct(p) \/ UnmapSelf(p)

Request(p) == \E req \in Requests : ForkApp(p, req) \/ SpecializeUsap(p, req)

Next ==
    \/ Bootstrap \/ ReachZygoteInit
    \/ ForkServer \/ ForkUsap
    \/ \E p \in Procs : Request(p) \/ Advance(p) \/ Exit(p)

Spec == Init /\ [][Next]_vars

-----------------------------------------------------------------------------
\* new_fork and ctx_fork_pre, "specialize then runs in our child": whoever
\* returns to the zygote's loop as the parent has no module loaded, has run no
\* callback and has the descriptors it had; a child zygote there has dropped
\* the modules' directories, unless it comes from the pool, whose wrapper drops
\* nothing.  Holds while the hook on fork is armed.
ZygoteClean ==
    \A p \in Procs :
        LET st == procs[p]
        IN  st.at = "idle" /\ "fork" \in st.plt =>
              /\ st.descends = "fork" => st.fds \cap DirFds = {}
              /\ st.descends = "no" =>
                    st.mods = <<>> /\ st.libs = {} /\ st.calls = <<>> /\ st.fds = NativeFds

Position(calls, call) == {i \in DOMAIN calls : calls[i] = call}

\* The callbacks of a process: none twice, none after the original method
\* without the one before it, and none into a library that is not mapped.
CallsSound ==
    [][\A p \in Procs :
          LET old == procs[p].calls
              new == procs'[p].calls
          IN  Len(new) = Len(old) + 1 /\ procs[p].at # "absent" =>
                LET call == Last(new)
                IN  /\ call \notin ToSet(old)
                    /\ call[2] \in procs'[p].libs
                    /\ call[1] = "post" => <<"pre", call[2]>> \in ToSet(old)]_vars

\* Denylist: a process that is isolated, or on the denylist in mode 1, runs no
\* callback and takes its hooks back; in mode 2 it gives up the mounts.  Not when zygiskd
\* leaves the question unanswered (it is then injected), or in the child of a
\* fork that new_fork makes a second time.
DenylistHonoured ==
    \A p \in Kids :
        LET st == procs[p]
            app == st.req.kind \in {"app", "usap"} /\ st.side = "child"
        IN  st.at = "tail" /\ app /\ ~st.again =>
              /\ st.req.uid = "isolated" => st.calls = <<>> /\ st.dec = 2
              /\ st.req.uid = "denied" /\ st.heard =>
                    /\ st.mode = 1 => st.calls = <<>> /\ st.dec = 2
                    /\ st.mode = 2 => st.dec = 1

\* ctx_sanitize_fds, "close non-native fds in the child": the original method
\* finds no descriptor open but those of the fork and those it is told to
\* ignore, or the zygote aborts the child; and an exempted one it finds open.
FdsClean ==
    \A p \in Kids :
        LET st == procs[p]
        IN  st.at = "orig" /\ st.ctx = "child" =>
              /\ st.fds \subseteq st.atFork \cup st.ignore
              /\ st.ignore \subseteq st.fds

\* "Restore hooks before self-unmap": once the core is gone no native method
\* and no PLT slot the core has patched leads to it.  Not when the commit that
\* puts the PLT slots back fails; PLT hooks of inherited modules stay.
NothingReachesCore ==
    \A p \in Procs :
        LET st == procs[p]
        IN  ~st.core /\ st.commitOk =>
              /\ st.inline = {} /\ st.table = {}
              /\ st.plt \cap {"strdup", "fork"} = {}
=============================================================================

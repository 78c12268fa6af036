-------------------------- MODULE AppSpecializeProofs --------------------------
(***************************************************************************)
(* Proofs about AppSpecialize for any modules, API calls, requests and     *)
(* layouts of the native methods, and any number of processes and faults.  *)
(***************************************************************************)
EXTENDS AppSpecialize, SequenceTheorems, TLAPS

-----------------------------------------------------------------------------
(***************************************************************************)
(* The invariant.  Processes share nothing, so it speaks of one process at  *)
(* a time.                                                                  *)
(***************************************************************************)
Places == {"absent", "boot", "armed", "plain", "idle", "pool", "app",
           "decide", "load", "drop", "pre", "close", "sanitize", "orig", "post",
           "tail", "unmap"}
ModRecs == [id : Mods, dlclose : BOOLEAN, abi : BOOLEAN]
Descriptors == (Mods \X {"dir", "socket"}) \cup NativeFds
Callbacks == {"load", "pre", "post"} \X Mods
AnyRequest == [kind : {"none", "app", "usap", "server"},
               uid : {"plain", "denied", "isolated"}, cz : BOOLEAN]

Process ==
    [at : Places, req : AnyRequest, side : {"parent", "child"},
     descends : {"no", "fork", "pool"}, ctx : {"none", "child", "parent", "failed"},
     dec : 0..2, run : BOOLEAN, mode : 0..2, heard : BOOLEAN, again : BOOLEAN,
     fds : SUBSET Descriptors, atFork : SUBSET Descriptors,
     exempted : SUBSET Descriptors, ignore : SUBSET Descriptors,
     mods : Seq(ModRecs), libs : SUBSET Mods, k : Nat \ {0}, calls : Seq(Callbacks),
     inline : SUBSET (Methods \cup Mods), table : SUBSET (Methods \cup Mods),
     plt : SUBSET ({"strdup", "fork"} \cup Mods),
     commitOk : BOOLEAN, can : BOOLEAN, core : BOOLEAN, mounts : BOOLEAN]

TypeOK == procs \in [Procs -> Process] /\ denyMode \in 0..2

\* Outside a wrapper nothing is left of a call.
Quiet(st) ==
    /\ st.run = FALSE /\ st.dec = 0 /\ st.ctx = "none" /\ st.k = 1
    /\ st.exempted = {} /\ st.ignore = IgnoreArg

\* What a zygote looks like that has loaded nothing.
Untouched(st) == st.mods = <<>> /\ st.libs = {} /\ st.calls = <<>> /\ st.fds = NativeFds
Pristine(st) ==
    /\ st.descends = "fork" => st.fds \cap DirFds = {}
    /\ st.descends = "no" => Untouched(st)

\* Where in a wrapper a process can be on which side of which fork.
PlaceInv(st) ==
    /\ st.at \in {"boot", "armed", "idle", "pool"} => Quiet(st)
    /\ st.at \in {"boot", "armed"} => Untouched(st) /\ st.descends = "no"
    /\ st.at = "pool" => st.calls = <<>> /\ st.side = "child"
    /\ st.at \in {"decide", "load", "drop", "pre", "close", "sanitize"} =>
          /\ st.side = "child" /\ st.req.kind # "none"
          /\ st.ctx = IF st.req.kind = "usap" THEN "none" ELSE "child"
    /\ st.at = "decide" => st.run = FALSE /\ st.dec = 0 /\ st.k = 1 /\ st.calls = <<>>
    /\ st.at = "drop" => st.req.kind = "app" /\ st.run = FALSE
    /\ st.at \in {"load", "pre", "close", "sanitize", "post"} => st.run = TRUE
    /\ st.at = "close" => st.req.kind # "server"
    /\ st.at = "sanitize" => st.req.kind # "usap"
    /\ st.ctx \in {"parent", "failed"} =>
          st.at \in {"orig", "tail"} /\ st.run = FALSE /\ st.dec = 0

\* Until it returns, the parent of the only fork is as it was; so is a child
\* that the original method forks after the first fork failed.
CleanInv(st) ==
    /\ st.at = "idle" /\ "fork" \in st.plt => Pristine(st)
    /\ st.ctx \in {"parent", "failed"} /\ "fork" \in st.plt => Pristine(st)
    /\ st.at \in {"orig", "post", "tail", "unmap"} =>
          /\ st.side = "parent" => st.ctx \in {"parent", "failed"} \/ (st.ctx = "child" /\ "fork" \notin st.plt)
          /\ st.ctx = "none" => st.req.kind = "usap"
          /\ st.req.kind = "usap" => st.ctx = "none"
    /\ st.at = "unmap" => ~st.req.cz

\* What the decision was, from it to the end of the wrapper.
Decided == {"load", "drop", "pre", "close", "sanitize", "orig", "post", "tail"}
DenyInv(st) ==
    st.at \in Decided /\ st.req.kind \in {"app", "usap"} /\ st.side = "child" /\ ~st.again =>
       /\ st.req.uid = "isolated" => st.run = FALSE /\ st.calls = <<>> /\ st.dec = 2
       /\ st.req.uid = "denied" /\ st.heard =>
             /\ st.mode = 1 => st.run = FALSE /\ st.calls = <<>> /\ st.dec = 2
             /\ st.mode = 2 => st.dec = 1

\* Open descriptors against those of the fork and the ignored ones.
FdsInv(st) ==
    /\ IgnoreArg \subseteq st.fds
    /\ st.at \in {"decide", "load", "drop", "pre", "close", "sanitize"} =>
          st.ignore = IgnoreArg /\ st.exempted \subseteq st.fds
    /\ st.at \in {"decide", "drop"} /\ st.ctx = "child" => st.fds \subseteq st.atFork \cup st.ignore
    /\ st.at = "orig" /\ st.ctx = "child" =>
          st.fds \subseteq st.atFork \cup st.ignore /\ st.ignore \subseteq st.fds

\* Nothing leads to the core.
Bare(st) ==
    /\ st.inline = {} /\ st.table = {}
    /\ st.commitOk => st.plt \cap {"strdup", "fork"} = {}
CoreInv(st) ==
    /\ st.at = "unmap" /\ st.can => Bare(st)
    /\ ~st.core => st.at \in {"app", "idle"} /\ Bare(st)

\* The modules of a process and the callbacks it has had.
Has(st, callback, i) == <<callback, st.mods[i].id>> \in ToSet(st.calls)
NoneYet(st, callback) == \A i \in DOMAIN st.calls : st.calls[i][1] # callback
CallsInv(st) ==
    /\ \A i \in DOMAIN st.mods : st.mods[i].abi => st.mods[i].id \in st.libs
    /\ \A i, j \in DOMAIN st.mods : st.mods[i].id = st.mods[j].id => i = j
    /\ st.at = "load" =>
          /\ st.k > 1 => \A i \in DOMAIN st.mods : \E j \in 1..(st.k - 1) : j <= Len(Order) /\ st.mods[i].id = Order[j]
          /\ \A i \in DOMAIN st.calls : \E j \in 1..(st.k - 1) : j <= Len(Order) /\ st.calls[i] = <<"load", Order[j]>>
    /\ st.at = "pre" =>
          /\ NoneYet(st, "post")
          /\ \A i \in DOMAIN st.mods :
                IF i < st.k THEN st.mods[i].abi => Has(st, "pre", i) ELSE ~Has(st, "pre", i)
    /\ st.at \in {"close", "sanitize", "orig"} /\ st.run = TRUE =>
          /\ NoneYet(st, "post")
          /\ \A i \in DOMAIN st.mods : st.mods[i].abi => Has(st, "pre", i)
    /\ st.at = "post" =>
          \A i \in DOMAIN st.mods :
             /\ st.mods[i].abi => Has(st, "pre", i)
             /\ i >= st.k => ~Has(st, "post", i)

PInv(st) == PlaceInv(st) /\ CleanInv(st) /\ DenyInv(st) /\ FdsInv(st) /\ CoreInv(st) /\ CallsInv(st)

IInv == TypeOK /\ \A p \in Procs : PInv(procs[p])

-----------------------------------------------------------------------------
(* Descriptors and types.                                                   *)

\* The zygote's own descriptors are none of the modules'.
LEMMA FdFacts ==
  /\ IgnoreArg \subseteq NativeFds /\ NativeFds \subseteq Descriptors
  /\ DirFds \subseteq Descriptors /\ NativeFds \cap DirFds = {}
BY DEF IgnoreArg, NativeFds, DirFds, Descriptors

\* The hook on fork is not a module's.
LEMMA NoModuleIsFork == \A m \in Mods : m # "fork" /\ m # "strdup"
BY ModsAssumption DEF Methods

\* Order lists each module once.
LEMMA OrderFacts ==
  /\ Order \in Seq(Mods) /\ Len(Order) \in Nat /\ DOMAIN Order = 1..Len(Order)
  /\ \A i \in 1..Len(Order) : Order[i] \in Mods
  /\ \A i, j \in 1..Len(Order) : Order[i] = Order[j] => i = j
<1>1. Order \in Seq(Mods) /\ IsInjective(Order) BY OrderAssumption
<1>2. Len(Order) \in Nat /\ DOMAIN Order = 1..Len(Order) BY <1>1, LenProperties
<1>3. \A i \in 1..Len(Order) : Order[i] \in Mods BY <1>1, ElementOfSeq
<1>4. \A i, j \in 1..Len(Order) : Order[i] = Order[j] => i = j
  BY <1>1, <1>2 DEF IsInjective
<1> QED BY <1>1, <1>2, <1>3, <1>4

\* A process that has not been forked yet.
LEMMA BlankProcess ==
  ASSUME NEW at \in {"absent", "boot"}
  PROVE  [Blank EXCEPT !.at = at] \in Process /\ PInv([Blank EXCEPT !.at = at])
<1>1. <<>> \in Seq(ModRecs) /\ <<>> \in Seq(Callbacks) /\ DOMAIN <<>> = {} BY EmptySeq
<1>2. NoRequest \in AnyRequest BY DEF NoRequest, AnyRequest
<1>3. [Blank EXCEPT !.at = at] \in Process
  <2>1. NativeFds \in SUBSET Descriptors /\ IgnoreArg \in SUBSET Descriptors BY FdFacts
  <2>2. Blank \in Process BY <1>1, <1>2, <2>1 DEF Blank, Process, Places
  <2> QED BY <2>2 DEF Process, Places
<1>4. PInv([Blank EXCEPT !.at = at])
  BY <1>1, FdFacts DEF Blank, PInv, PlaceInv, CleanInv, DenyInv, FdsInv, CoreInv, CallsInv,
     Quiet, Untouched, Decided, NoRequest
<1> QED BY <1>3, <1>4

LEMMA BlankItself == Blank \in Process /\ PInv(Blank)
<1>1. <<>> \in Seq(ModRecs) /\ <<>> \in Seq(Callbacks) /\ DOMAIN <<>> = {} BY EmptySeq
<1>2. NoRequest \in AnyRequest BY DEF NoRequest, AnyRequest
<1>3. NativeFds \in SUBSET Descriptors /\ IgnoreArg \in SUBSET Descriptors BY FdFacts
<1>4. Blank \in Process BY <1>1, <1>2, <1>3 DEF Blank, Process, Places
<1>5. PInv(Blank)
  BY <1>1, FdFacts DEF Blank, PInv, PlaceInv, CleanInv, DenyInv, FdsInv, CoreInv, CallsInv,
     Quiet, Untouched, Decided, NoRequest
<1> QED BY <1>4, <1>5

\* What the initial states satisfy.
LEMMA Initially == Init => IInv
<1> SUFFICES ASSUME Init PROVE IInv OBVIOUS
<1>1. \A p \in Procs : procs[p] \in Process /\ PInv(procs[p])
  <2> SUFFICES ASSUME NEW p \in Procs PROVE procs[p] \in Process /\ PInv(procs[p]) OBVIOUS
  <2>1. procs[p] = [Blank EXCEPT !.at = IF p = Root THEN "boot" ELSE "absent"] BY DEF Init
  <2>2. CASE p = Root BY <2>1, <2>2, BlankProcess
  <2>3. CASE p # Root BY <2>1, <2>3, BlankProcess
  <2> QED BY <2>2, <2>3
<1>2. procs \in [Procs -> Process] BY <1>1 DEF Init
<1> QED BY <1>1, <1>2 DEF IInv, TypeOK, Init

-----------------------------------------------------------------------------
(* The zygote and its forks: each step of a process, as a step of its record. *)

\* Bootstrap.
LEMMA BootstrapKeeps ==
  ASSUME NEW st \in Process, PInv(st), st.at = "boot",
         NEW t, t = [st EXCEPT !.at = "armed", !.plt = {"strdup"}] \/ t = [st EXCEPT !.at = "plain"]
  PROVE  t \in Process /\ PInv(t)
<1>1. CASE t = [st EXCEPT !.at = "armed", !.plt = {"strdup"}]
  <2>1. t \in Process BY ZenonT(60), <1>1 DEF Process, Places
  <2>2. PInv(t)
    BY <1>1 DEF Process, PInv, PlaceInv, CleanInv, DenyInv, FdsInv, CoreInv, CallsInv, Quiet,
       Untouched, Decided
  <2> QED BY <2>1, <2>2
<1>2. CASE t = [st EXCEPT !.at = "plain"]
  <2>1. t \in Process BY ZenonT(60), <1>2 DEF Process, Places
  <2>2. PInv(t)
    BY <1>2 DEF Process, PInv, PlaceInv, CleanInv, DenyInv, FdsInv, CoreInv, CallsInv, Quiet,
       Untouched, Decided
  <2> QED BY <2>1, <2>2
<1> QED BY <1>1, <1>2

\* ReachZygoteInit: the zygote that is hooked has loaded nothing.
LEMMA ReachKeeps ==
  ASSUME NEW st \in Process, PInv(st), st.at = "armed", NEW layout \in Layouts, NEW armed \in BOOLEAN,
         NEW t, t = [Hooked(st, layout) EXCEPT
                       !.at = "idle", !.plt = IF armed THEN @ \cup {"fork"} ELSE @]
  PROVE  t \in Process /\ PInv(t)
<1>1. t \in Process BY ZenonT(60) DEF Process, Places, Hooked
<1>2. PInv(t)
  BY FdFacts DEF Process, PInv, PlaceInv, CleanInv, DenyInv, FdsInv, CoreInv, CallsInv, Quiet, Untouched, Pristine,
     Decided, Hooked
<1> QED BY <1>1, <1>2

\* The zygote is left alone.
LEMMA PlainKeeps ==
  ASSUME NEW st \in Process, PInv(st), st.at = "armed"
  PROVE  [st EXCEPT !.at = "plain"] \in Process /\ PInv([st EXCEPT !.at = "plain"])
<1>1. [st EXCEPT !.at = "plain"] \in Process BY DEF Process, Places
<1>2. PInv([st EXCEPT !.at = "plain"])
  BY DEF Process, PInv, PlaceInv, CleanInv, DenyInv, FdsInv, CoreInv, CallsInv, Quiet, Untouched, Decided
<1> QED BY <1>1, <1>2

\* A process that can be asked to fork has hooks, so the core is there.
LEMMA HookedHasCore ==
  ASSUME NEW st \in Process, PInv(st), NEW m, Wraps(st, m)
  PROVE  st.core
BY DEF PInv, CoreInv, Bare, Wraps, Process

\* The parent's side of a fork.
LEMMA ForkingKeeps ==
  ASSUME NEW st \in Process, PInv(st), st.at = "idle", st.core, NEW req \in AnyRequest,
         req.kind \in {"app", "server"}, NEW pid \in {"parent", "failed"}
  PROVE  Forking(st, req, pid) \in Process /\ PInv(Forking(st, req, pid))
<1>1. Forking(st, req, pid) \in Process BY DEF Process, Places, Forking
<1>2. PInv(Forking(st, req, pid))
  BY DEF Process, PInv, PlaceInv, CleanInv, DenyInv, FdsInv, CoreInv, CallsInv, Quiet,
     Pristine, Untouched, Decided, Forking
<1> QED BY <1>1, <1>2

\* The child's side.
LEMMA ForkedKeeps ==
  ASSUME NEW st \in Process, PInv(st), st.at = "idle", st.core, NEW req \in AnyRequest,
         req.kind \in {"app", "server"}
  PROVE  Forked(st, req) \in Process /\ PInv(Forked(st, req))
<1>1. <<>> \in Seq(Callbacks) BY EmptySeq
<1>2. Forked(st, req) \in Process BY <1>1 DEF Process, Places, Forked
<1>3. PInv(Forked(st, req))
  BY DEF Process, PInv, PlaceInv, CleanInv, DenyInv, FdsInv, CoreInv, CallsInv, Quiet, Decided, Forked
<1> QED BY <1>2, <1>3

\* A process of the pool, and its specialisation.
LEMMA PoolKeeps ==
  ASSUME NEW st \in Process, PInv(st), st.at = "idle", st.core,
         NEW t, t = [st EXCEPT !.at = "pool", !.side = "child", !.calls = <<>>, !.atFork = st.fds]
  PROVE  t \in Process /\ PInv(t)
<1>1. <<>> \in Seq(Callbacks) BY EmptySeq
<1>2. t \in Process BY ZenonT(60), <1>1 DEF Process, Places
<1>3. PInv(t)
  BY DEF Process, PInv, PlaceInv, CleanInv, DenyInv, FdsInv, CoreInv, CallsInv, Quiet, Decided
<1> QED BY <1>2, <1>3

LEMMA SpecializeKeeps ==
  ASSUME NEW st \in Process, PInv(st), st.at = "pool", NEW req \in AnyRequest, req.kind = "usap",
         NEW t, t = [st EXCEPT !.at = "decide", !.req = req]
  PROVE  t \in Process /\ PInv(t)
<1>1. t \in Process BY ZenonT(60) DEF Process, Places
<1>2. PInv(t)
  BY DEF Process, PInv, PlaceInv, CleanInv, DenyInv, FdsInv, CoreInv, CallsInv, Quiet, Decided
<1> QED BY <1>1, <1>2

-----------------------------------------------------------------------------
(* The decision.                                                            *)

\* The server is injected without a question.
LEMMA ServerDecisionKeeps ==
  ASSUME NEW st \in Process, PInv(st), st.at = "decide", st.req.kind = "server",
         NEW t, t = [st EXCEPT !.run = TRUE, !.at = "load"]
  PROVE  t \in Process /\ PInv(t)
<1>1. t \in Process BY ZenonT(60) DEF Process, Places
<1>2. PInv(t)
  BY DEF Process, PInv, PlaceInv, CleanInv, DenyInv, FdsInv, CoreInv, CallsInv, Decided
<1> QED BY <1>1, <1>2

\* A process that is isolated, or answered for as on the denylist in mode 1, is
\* spared.
LEMMA SparedKeeps ==
  ASSUME NEW st \in Process, PInv(st), st.at = "decide", st.req.kind # "server",
         NEW mode \in 0..2, NEW heard \in BOOLEAN,
         heard /\ st.req.uid = "denied" => mode # 2,
         NEW at, at = IF st.req.kind = "app" THEN "drop" ELSE "orig",
         NEW t, t = [st EXCEPT !.dec = 2, !.run = FALSE, !.mode = mode, !.heard = heard, !.at = at]
  PROVE  t \in Process /\ PInv(t)
<1>1. at \in {"drop", "orig"} /\ at \in Places /\ 2 \in 0..2 BY DEF Places
<1>2. t \in Process
  <2>1. ASSUME NEW a \in Places
        PROVE  [st EXCEPT !.dec = 2, !.run = FALSE, !.mode = mode, !.heard = heard, !.at = a] \in Process
    BY <1>1 DEF Process
  <2> QED BY <1>1, <2>1
<1>3. st.calls = <<>> /\ st.req.kind \in {"app", "usap"}
  BY DEF Process, AnyRequest, PInv, PlaceInv
<1>4. DenyInv(t) BY <1>3 DEF Process, DenyInv
<1>5. PInv(t)
  BY <1>1, <1>3, <1>4 DEF Process, PInv, PlaceInv, CleanInv, FdsInv, CoreInv, CallsInv
<1> QED BY <1>2, <1>5

\* One that is not on the denylist in mode 1, as far as zygiskd says, loads.
LEMMA InjectedKeeps ==
  ASSUME NEW st \in Process, PInv(st), st.at = "decide", st.req.kind # "server",
         st.req.uid # "isolated", NEW mode \in 0..2, NEW heard \in BOOLEAN, NEW dec \in 0..1,
         heard /\ st.req.uid = "denied" => mode # 1 /\ (mode = 2 => dec = 1),
         NEW t, t = [st EXCEPT !.dec = dec, !.run = TRUE, !.mode = mode, !.heard = heard, !.at = "load"]
  PROVE  t \in Process /\ PInv(t)
<1>0. "load" \in Places /\ dec \in 0..2 BY DEF Places
<1>1. t \in Process BY ZenonT(60), <1>0 DEF Process
<1>2. DenyInv(t) BY DEF Process, DenyInv
<1>3. PInv(t)
  BY <1>2 DEF Process, PInv, PlaceInv, CleanInv, FdsInv, CoreInv, CallsInv
<1> QED BY <1>1, <1>3

\* DropInherited: the directories of inherited modules are closed.
LEMMA DropKeeps ==
  ASSUME NEW st \in Process, PInv(st), st.at = "drop",
         NEW t, t = [st EXCEPT !.fds = @ \ DirFds, !.at = "orig"]
  PROVE  t \in Process /\ PInv(t)
<1>1. t \in Process BY ZenonT(60) DEF Process, Places
<1>2. PInv(t)
  BY FdFacts DEF Process, PInv, PlaceInv, CleanInv, DenyInv, FdsInv, CoreInv, CallsInv, Decided
<1> QED BY <1>1, <1>2

-----------------------------------------------------------------------------
(* Loading, and the API calls of a callback.                                *)

\* What a callback leaves behind: descriptors, hooks, a wish to be closed; the
\* rest of the process is as it was.
LEMMA AfterCallKeeps ==
  ASSUME NEW st \in Process, PInv(st), st.at \in {"load", "pre"}, NEW m \in Mods, NEW call \in Calls,
         NEW t, t = AfterCall(st, m, call)
  PROVE  t \in Process /\ PInv(t) /\ t.calls = st.calls /\ t.libs = st.libs
<1>1. {<<m, "dir">>, <<m, "socket">>} \subseteq Descriptors BY DEF Descriptors
<1>0. /\ st.fds \cup {<<m, "dir">>} \in SUBSET Descriptors
      /\ st.fds \cup {<<m, "socket">>} \in SUBSET Descriptors
      /\ st.exempted \cup {<<m, "socket">>} \in SUBSET Descriptors
      /\ st.inline \cup {m} \in SUBSET (Methods \cup Mods)
      /\ st.table \cup {m} \in SUBSET (Methods \cup Mods)
      /\ st.plt \cup {m} \in SUBSET ({"strdup", "fork"} \cup Mods)
  BY ZenonT(60), <1>1 DEF Process
<1>3. CASE call = "dir"
  <2>1. t = [st EXCEPT !.fds = IF Version[m] >= 2 THEN @ \cup {<<m, "dir">>} ELSE @]
    BY <1>3 DEF AfterCall
  <2>2. t \in Process BY ZenonT(60), <2>1, <1>0 DEF Process
  <2>3. PInv(t)
    BY <2>1 DEF Process, PInv, PlaceInv, CleanInv, DenyInv, FdsInv, CoreInv, CallsInv, Has, NoneYet
  <2> QED BY <2>1, <2>2, <2>3 DEF Process
<1>4. CASE call = "socket"
  <2>1. t = [st EXCEPT !.fds = @ \cup {<<m, "socket">>}] BY <1>4 DEF AfterCall
  <2>2. t \in Process BY ZenonT(60), <2>1, <1>0 DEF Process
  <2>3. PInv(t)
    BY <2>1 DEF Process, PInv, PlaceInv, CleanInv, DenyInv, FdsInv, CoreInv, CallsInv, Has, NoneYet
  <2> QED BY <2>1, <2>2, <2>3 DEF Process
<1>5. CASE call = "exempt"
  <2>1. t = [st EXCEPT !.fds = @ \cup {<<m, "socket">>},
                       !.exempted = IF CanExempt(st, m) THEN @ \cup {<<m, "socket">>} ELSE @]
    BY <1>5 DEF AfterCall
  <2>2. t \in Process BY ZenonT(60), <2>1, <1>0 DEF Process
  <2>3. PInv(t)
    BY <2>1 DEF Process, PInv, PlaceInv, CleanInv, DenyInv, FdsInv, CoreInv, CallsInv, Has, NoneYet
  <2> QED BY <2>1, <2>2, <2>3 DEF Process
<1>6. CASE call = "dlclose"
  <2> DEFINE closed == [i \in DOMAIN st.mods |->
                          IF st.mods[i].id = m THEN [st.mods[i] EXCEPT !.dlclose = TRUE] ELSE st.mods[i]]
  <2>1. t = [st EXCEPT !.mods = closed] BY <1>6 DEF AfterCall, Process
  <2>2. /\ closed \in Seq(ModRecs) /\ DOMAIN closed = DOMAIN st.mods
        /\ \A i \in DOMAIN st.mods : closed[i].id = st.mods[i].id /\ closed[i].abi = st.mods[i].abi
    <3>1. st.mods \in Seq(ModRecs) BY DEF Process
    <3>2. Len(st.mods) \in Nat /\ DOMAIN st.mods = 1..Len(st.mods)
          /\ \A i \in 1..Len(st.mods) : st.mods[i] \in ModRecs
      BY <3>1, LenProperties, ElementOfSeq
    <3>3. \A i \in 1..Len(st.mods) : /\ closed[i] \in ModRecs
                                     /\ closed[i].id = st.mods[i].id /\ closed[i].abi = st.mods[i].abi
      BY <3>2 DEF ModRecs
    <3>4. closed \in [1..Len(st.mods) -> ModRecs] BY <3>2, <3>3
    <3> QED BY <3>2, <3>3, <3>4, SeqDef
  <2>3. t \in Process BY ZenonT(60), <2>1, <2>2 DEF Process
  <2>4. t.mods = closed /\ t.calls = st.calls /\ t.libs = st.libs BY <2>1 DEF Process
  <2>5. \A i \in DOMAIN st.mods, c \in {"pre", "post"} : Has(t, c, i) <=> Has(st, c, i)
    BY <2>2, <2>4 DEF Has
  <2>6. NoneYet(t, "post") <=> NoneYet(st, "post") BY <2>4 DEF NoneYet
  <2>7. CallsInv(t)
    <3>1. t.at = st.at /\ t.k = st.k /\ t.run = st.run BY <2>1 DEF Process
    <3> HIDE DEF closed
    <3> QED BY <3>1, <2>2, <2>4, <2>5, <2>6 DEF PInv, CallsInv
  <2>8. PInv(t)
    <3> HIDE DEF closed
    <3> QED BY <2>1, <2>7 DEF Process, PInv, PlaceInv, CleanInv, DenyInv, FdsInv, CoreInv
  <2> QED BY <2>3, <2>4, <2>8
<1>7. CASE call = "jni"
  <2>1. t = [st EXCEPT !.inline = @ \cup {m}] BY <1>7 DEF AfterCall
  <2>2. t \in Process BY ZenonT(60), <2>1, <1>0 DEF Process
  <2>3. PInv(t)
    BY <2>1 DEF Process, PInv, PlaceInv, CleanInv, DenyInv, FdsInv, CoreInv, CallsInv, Has, NoneYet
  <2> QED BY <2>1, <2>2, <2>3 DEF Process
<1>8. CASE call = "jni_table"
  <2>1. t = [st EXCEPT !.table = @ \cup {m}] BY <1>8 DEF AfterCall
  <2>2. t \in Process BY ZenonT(60), <2>1, <1>0 DEF Process
  <2>3. PInv(t)
    BY <2>1 DEF Process, PInv, PlaceInv, CleanInv, DenyInv, FdsInv, CoreInv, CallsInv, Has, NoneYet
  <2> QED BY <2>1, <2>2, <2>3 DEF Process
<1>9. CASE call = "plt"
  <2>1. t = [st EXCEPT !.plt = @ \cup {m}] BY <1>9 DEF AfterCall
  <2>2. t \in Process BY ZenonT(60), <2>1, <1>0 DEF Process
  <2>3. PInv(t)
    BY <2>1 DEF Process, PInv, PlaceInv, CleanInv, DenyInv, FdsInv, CoreInv, CallsInv, Has, NoneYet
  <2> QED BY <2>1, <2>2, <2>3 DEF Process
<1>10. CASE call = "none" BY <1>10 DEF AfterCall
<1> QED BY <1>3, <1>4, <1>5, <1>6, <1>7, <1>8, <1>9, <1>10, CallsAssumption

\* A module that is mapped, or passed over, without having registered.
LEMMA PassKeeps ==
  ASSUME NEW st \in Process, PInv(st), st.at = "load", st.k <= Len(Order),
         st.k = 1 => st.mods = <<>>, NEW more \in SUBSET Mods,
         NEW t, t = [st EXCEPT !.libs = @ \cup more, !.k = @ + 1]
  PROVE  t \in Process /\ PInv(t)
<1>1. st.k + 1 \in Nat \ {0} BY DEF Process
<1>2. t \in Process BY <1>1 DEF Process
<1>3. t.libs = st.libs \cup more /\ t.k = st.k + 1 /\ t.mods = st.mods /\ t.calls = st.calls /\ t.at = st.at
  BY DEF Process
<1>4. CallsInv(t)
  <2>1. st.k \in Nat \ {0} BY DEF Process
  <2>2. \A j \in 1..(st.k - 1) : j \in 1..(t.k - 1) BY <2>1, <1>3
  <2>3. st.k = 1 => DOMAIN st.mods = {} BY EmptySeq
  <2>4. \A i \in DOMAIN st.mods : \E j \in 1..(t.k - 1) : j <= Len(Order) /\ st.mods[i].id = Order[j]
    BY <2>1, <2>2, <2>3 DEF PInv, CallsInv
  <2>5. \A i \in DOMAIN st.calls : \E j \in 1..(t.k - 1) : j <= Len(Order) /\ st.calls[i] = <<"load", Order[j]>>
    BY <2>2 DEF PInv, CallsInv
  <2> QED BY <1>3, <2>4, <2>5 DEF PInv, CallsInv
<1>5. PInv(t)
  BY <1>3, <1>4 DEF Process, PInv, PlaceInv, CleanInv, DenyInv, FdsInv, CoreInv
<1> QED BY <1>2, <1>5

\* The positions of a list and the one that is added at its end.
LEMMA Appended ==
  ASSUME NEW S, NEW s \in Seq(S), NEW e \in S
  PROVE  /\ Append(s, e) \in Seq(S) /\ Len(Append(s, e)) = Len(s) + 1
         /\ Len(s) \in Nat /\ DOMAIN s = 1..Len(s) /\ DOMAIN Append(s, e) = 1..(Len(s) + 1)
         /\ \A i \in 1..Len(s) : Append(s, e)[i] = s[i]
         /\ Append(s, e)[Len(s) + 1] = e
         /\ ToSet(Append(s, e)) = ToSet(s) \cup {e}
<1>1. Len(s) \in Nat /\ DOMAIN s = 1..Len(s) BY LenProperties
<1>2. /\ Append(s, e) \in Seq(S) /\ Len(Append(s, e)) = Len(s) + 1
      /\ \A i \in 1..Len(s) : Append(s, e)[i] = s[i]
      /\ Append(s, e)[Len(s) + 1] = e
  BY AppendProperties
<1>3. DOMAIN Append(s, e) = 1..(Len(s) + 1) BY <1>2, LenProperties
<1>4. ToSet(Append(s, e)) = {Append(s, e)[i] : i \in 1..(Len(s) + 1)} BY <1>3 DEF ToSet
<1>5. ToSet(s) = {s[i] : i \in 1..Len(s)} BY <1>1 DEF ToSet
<1>6. \A i \in 1..(Len(s) + 1) : i \in 1..Len(s) \/ i = Len(s) + 1 BY <1>1
<1>7. \A i \in 1..Len(s) : i \in 1..(Len(s) + 1) BY <1>1
<1>8. Len(s) + 1 \in 1..(Len(s) + 1) BY <1>1
<1> QED BY <1>1, <1>2, <1>3, <1>4, <1>5, <1>6, <1>7, <1>8

\* Values of the right kind make a process.
LEMMA LoadedTyped ==
  ASSUME NEW st \in Process, NEW mods \in Seq(ModRecs), NEW libs \in SUBSET Mods,
         NEW calls \in Seq(Callbacks), NEW k \in Nat \ {0}
  PROVE  [st EXCEPT !.mods = mods, !.libs = libs, !.calls = calls, !.k = k] \in Process
BY DEF Process

LEMMA CalledTyped ==
  ASSUME NEW st \in Process, NEW calls \in Seq(Callbacks), NEW k \in Nat \ {0}
  PROVE  [st EXCEPT !.calls = calls, !.k = k] \in Process
BY DEF Process

\* A module that registers: it comes last, and its onLoad is called for the
\* first time.
LEMMA RegisteredKeeps ==
  ASSUME NEW st \in Process, PInv(st), st.at = "load", st.k <= Len(Order),
         st.k = 1 => st.mods = <<>>, NEW t, t = Registered(st, Order[st.k])
  PROVE  /\ t \in Process /\ PInv(t) /\ t.at = "load"
         /\ t.calls = Append(st.calls, <<"load", Order[st.k]>>)
         /\ <<"load", Order[st.k]>> \notin ToSet(st.calls) /\ Order[st.k] \in t.libs
<1> DEFINE m == Order[st.k]
           r == [id |-> m, dlclose |-> FALSE, abi |-> TRUE]
           mods == Append(st.mods, r)
           calls == Append(st.calls, <<"load", m>>)
<1>1. st.k \in Nat \ {0} /\ st.k \in 1..Len(Order) /\ m \in Mods BY OrderFacts DEF Process
<1>2. st.mods \in Seq(ModRecs) /\ r \in ModRecs /\ st.calls \in Seq(Callbacks) /\ <<"load", m>> \in Callbacks
  BY <1>1 DEF Process, ModRecs, Callbacks
<1>3. /\ mods \in Seq(ModRecs) /\ Len(st.mods) \in Nat /\ DOMAIN st.mods = 1..Len(st.mods)
      /\ DOMAIN mods = 1..(Len(st.mods) + 1) /\ \A i \in 1..Len(st.mods) : mods[i] = st.mods[i]
      /\ mods[Len(st.mods) + 1] = r
  BY <1>2, Appended
<1>4. /\ calls \in Seq(Callbacks) /\ Len(st.calls) \in Nat /\ DOMAIN st.calls = 1..Len(st.calls)
      /\ DOMAIN calls = 1..(Len(st.calls) + 1) /\ \A i \in 1..Len(st.calls) : calls[i] = st.calls[i]
      /\ calls[Len(st.calls) + 1] = <<"load", m>>
  BY <1>2, Appended
<1>5. t = [st EXCEPT !.mods = mods, !.libs = st.libs \cup {m}, !.calls = calls, !.k = st.k + 1]
  BY DEF Registered, Process
<1>6. st.k + 1 \in Nat \ {0} BY <1>1
<1>11. m = Order[st.k] /\ r.id = m /\ r.abi = TRUE OBVIOUS
<1> HIDE DEF mods, calls, m, r
<1>7. t \in Process
  <2>1. st.libs \cup {m} \in SUBSET Mods BY <1>1 DEF Process
  <2> DEFINE libs == st.libs \cup {m}
             k == st.k + 1
  <2>2. /\ libs \in SUBSET Mods /\ k \in Nat \ {0}
        /\ t = [st EXCEPT !.mods = mods, !.libs = libs, !.calls = calls, !.k = k]
    BY <2>1, <1>5, <1>6
  <2> HIDE DEF libs, k
  <2>3. [st EXCEPT !.mods = mods, !.libs = libs, !.calls = calls, !.k = k] \in Process
    BY <2>2, <1>3, <1>4, LoadedTyped
  <2> QED BY <2>2, <2>3
<1>8. /\ t.mods = mods /\ t.libs = st.libs \cup {m} /\ t.calls = calls /\ t.k = st.k + 1
      /\ t.at = "load" /\ t.run = st.run
  BY <1>5 DEF Process
<1>9. \A i \in 1..Len(st.mods) : \E j \in 1..(st.k - 1) : j <= Len(Order) /\ st.mods[i].id = Order[j]
  <2>1. CASE st.k = 1 BY <2>1, EmptySeq
  <2>2. CASE st.k # 1
    <3>1. st.k > 1 BY <2>2, <1>1
    <3>2. \A i \in DOMAIN st.mods : \E j \in 1..(st.k - 1) : j <= Len(Order) /\ st.mods[i].id = Order[j]
      BY <3>1 DEF PInv, CallsInv
    <3> QED BY <3>2, <1>3
  <2> QED BY <2>1, <2>2
<1>10. \A i \in 1..Len(st.calls) : \E j \in 1..(st.k - 1) : j <= Len(Order) /\ st.calls[i] = <<"load", Order[j]>>
  BY <1>4 DEF PInv, CallsInv
<1>19. \A i \in 1..(Len(st.mods) + 1) : i \in 1..Len(st.mods) \/ i = Len(st.mods) + 1 BY <1>3
<1>20. \A i \in 1..(Len(st.calls) + 1) : i \in 1..Len(st.calls) \/ i = Len(st.calls) + 1 BY <1>4
<1>12. \A j \in 1..(st.k - 1) : /\ j \in 1..(t.k - 1)
                                /\ j <= Len(Order) => Order[j] # m
  BY <1>1, <1>8, <1>11, OrderFacts
<1>13. st.k \in 1..(t.k - 1) BY <1>1, <1>8
<1>14. CallsInv(t)
  <2>1. \A i \in DOMAIN t.mods : t.mods[i].abi => t.mods[i].id \in t.libs
    BY <1>3, <1>8, <1>11 DEF PInv, CallsInv
  <2>2. \A i, j \in DOMAIN t.mods : t.mods[i].id = t.mods[j].id => i = j
    <3>1. \A i, j \in 1..Len(st.mods) : st.mods[i].id = st.mods[j].id => i = j
      BY <1>3 DEF PInv, CallsInv
    <3>2. \A i \in 1..Len(st.mods) : st.mods[i].id # m BY <1>9, <1>12
    <3> QED BY <3>1, <3>2, <1>3, <1>8, <1>11, <1>19
  <2>3. \A i \in DOMAIN t.mods : \E j \in 1..(t.k - 1) : j <= Len(Order) /\ t.mods[i].id = Order[j]
    <3> SUFFICES ASSUME NEW i \in 1..(Len(st.mods) + 1)
                 PROVE  \E j \in 1..(t.k - 1) : j <= Len(Order) /\ mods[i].id = Order[j]
      BY ZenonT(60), <1>3, <1>8
    <3>1. CASE i \in 1..Len(st.mods) BY <3>1, <1>3, <1>9, <1>12
    <3>2. CASE i = Len(st.mods) + 1 BY <3>2, <1>3, <1>11, <1>13
    <3> QED BY <3>1, <3>2, <1>19
  <2>4. \A i \in DOMAIN t.calls : \E j \in 1..(t.k - 1) : j <= Len(Order) /\ t.calls[i] = <<"load", Order[j]>>
    <3> SUFFICES ASSUME NEW i \in 1..(Len(st.calls) + 1)
                 PROVE  \E j \in 1..(t.k - 1) : j <= Len(Order) /\ calls[i] = <<"load", Order[j]>>
      BY <1>4, <1>8
    <3>1. CASE i \in 1..Len(st.calls) BY <3>1, <1>4, <1>10, <1>12
    <3>2. CASE i = Len(st.calls) + 1 BY <3>2, <1>4, <1>11, <1>13
    <3> QED BY <3>1, <3>2, <1>20
  <2> QED BY <1>8, <2>1, <2>2, <2>3, <2>4 DEF CallsInv
<1>15. st.run = TRUE BY DEF PInv, PlaceInv
<1>16. DenyInv(t) BY <1>5, <1>15 DEF Process, PInv, DenyInv, Decided
<1>17. PInv(t)
  BY <1>5, <1>8, <1>14, <1>16 DEF Process, PInv, PlaceInv, CleanInv, FdsInv, CoreInv
<1>18. <<"load", m>> \notin ToSet(st.calls) BY <1>4, <1>10, <1>11, <1>12 DEF ToSet
<1> QED BY <1>7, <1>8, <1>11, <1>17, <1>18 DEF calls

\* The end of the loading: nothing but onLoad has been called.
LEMMA EndLoadKeeps ==
  ASSUME NEW st \in Process, PInv(st), st.at = "load", NEW t, t = EndLoad(st)
  PROVE  t \in Process /\ PInv(t) /\ t.calls = st.calls
<1>1. t = [st EXCEPT !.at = "pre", !.k = 1] BY DEF EndLoad
<1>2. t \in Process
  <2>1. "pre" \in Places /\ 1 \in Nat \ {0} BY DEF Places
  <2> QED BY ZenonT(60), <1>1, <2>1 DEF Process
<1>3. /\ t.mods = st.mods /\ t.libs = st.libs /\ t.calls = st.calls /\ t.k = 1 /\ t.at = "pre"
  BY <1>1 DEF Process
<1>4. \A i \in DOMAIN st.calls : st.calls[i][1] = "load" BY DEF PInv, CallsInv
<1>5. NoneYet(t, "post") BY <1>3, <1>4 DEF NoneYet
<1>6. \A i \in DOMAIN t.mods : ~Has(t, "pre", i) BY <1>3, <1>4 DEF Has, ToSet
<1>7. \A i \in DOMAIN t.mods : ~(i < 1)
  <2>1. DOMAIN t.mods = 1..Len(st.mods) /\ Len(st.mods) \in Nat BY <1>3, LenProperties DEF Process
  <2> QED BY <2>1
<1>8. CallsInv(t) BY <1>3, <1>5, <1>6, <1>7 DEF PInv, CallsInv
<1>9. PInv(t)
  BY <1>1, <1>8 DEF Process, PInv, PlaceInv, CleanInv, DenyInv, FdsInv, CoreInv, Decided
<1> QED BY <1>2, <1>3, <1>9

-----------------------------------------------------------------------------
(* The callbacks.                                                           *)

\* The positions of the modules of a process, and its callbacks.
LEMMA ListFacts ==
  ASSUME NEW st \in Process
  PROVE  /\ st.mods \in Seq(ModRecs) /\ Len(st.mods) \in Nat /\ DOMAIN st.mods = 1..Len(st.mods)
         /\ \A i \in 1..Len(st.mods) : st.mods[i].id \in Mods /\ st.mods[i].abi \in BOOLEAN
         /\ st.calls \in Seq(Callbacks) /\ Len(st.calls) \in Nat /\ DOMAIN st.calls = 1..Len(st.calls)
         /\ st.k \in Nat \ {0}
<1>1. st.mods \in Seq(ModRecs) /\ st.calls \in Seq(Callbacks) /\ st.k \in Nat \ {0} BY DEF Process
<1>2. /\ Len(st.mods) \in Nat /\ DOMAIN st.mods = 1..Len(st.mods)
      /\ Len(st.calls) \in Nat /\ DOMAIN st.calls = 1..Len(st.calls)
  BY <1>1, LenProperties
<1>3. \A i \in 1..Len(st.mods) : st.mods[i] \in ModRecs BY <1>1, ElementOfSeq
<1> QED BY <1>1, <1>2, <1>3 DEF ModRecs

\* The callback before: for the first time, and into a mapped library.
LEMMA PreKeeps ==
  ASSUME NEW st \in Process, PInv(st), st.at = "pre", st.k <= Len(st.mods), st.mods[st.k].abi,
         NEW t, t = Called(st, "pre"), NEW call, call = <<"pre", st.mods[st.k].id>>
  PROVE  /\ t \in Process /\ PInv(t) /\ t.at = "pre" /\ t.calls = Append(st.calls, call)
         /\ call \notin ToSet(st.calls) /\ call[2] \in t.libs /\ call[2] \in Mods
<1>1. st.k \in DOMAIN st.mods /\ st.k \in Nat \ {0} BY ListFacts
<1> DEFINE calls == Append(st.calls, call)
           k == st.k + 1
<1>14. call \in Callbacks BY <1>1, ListFacts DEF Callbacks
<1>2. t = [st EXCEPT !.calls = calls, !.k = k] BY DEF Called, Process
<1>15. k = st.k + 1 /\ k \in Nat \ {0} BY <1>1
<1>16. /\ calls \in Seq(Callbacks) /\ DOMAIN st.calls = 1..Len(st.calls)
       /\ DOMAIN calls = 1..(Len(st.calls) + 1) /\ Len(st.calls) \in Nat
       /\ \A i \in 1..Len(st.calls) : calls[i] = st.calls[i]
       /\ calls[Len(st.calls) + 1] = call
       /\ ToSet(calls) = ToSet(st.calls) \cup {call}
  <2>1. st.calls \in Seq(Callbacks) BY ListFacts
  <2> QED BY <2>1, <1>14, Appended
<1>17. calls = Append(st.calls, call) OBVIOUS
<1> HIDE DEF calls, k
<1>18. t \in Process
  <2>1. st \in Process OBVIOUS
  <2>2. [st EXCEPT !.calls = calls, !.k = k] \in Process BY ONLY <2>1, <1>15, <1>16, CalledTyped
  <2> QED BY <1>2, <2>2
<1>13. NoneYet(st, "post") => NoneYet(t, "post")
  <2>1. t.calls = calls BY <1>2 DEF Process
  <2>2. ASSUME NoneYet(st, "post"), NEW i \in 1..(Len(st.calls) + 1) PROVE calls[i][1] # "post"
    <3>1. CASE i \in 1..Len(st.calls) BY <3>1, <2>2, <1>16 DEF NoneYet
    <3>2. CASE i = Len(st.calls) + 1 BY <3>2, <1>16
    <3> QED BY <3>1, <3>2, <1>16
  <2> QED BY <2>1, <2>2, <1>16 DEF NoneYet
<1>3. /\ t.at = "pre" /\ t.mods = st.mods /\ t.libs = st.libs /\ t.run = st.run
      /\ t.calls = calls /\ t.k = st.k + 1
  BY <1>2, <1>15 DEF Process
<1>4. \A i \in DOMAIN st.mods : Has(t, "pre", i) <=> Has(st, "pre", i) \/ i = st.k
  <2> SUFFICES ASSUME NEW i \in DOMAIN st.mods PROVE Has(t, "pre", i) <=> Has(st, "pre", i) \/ i = st.k
    OBVIOUS
  <2>1. Has(t, "pre", i) <=> Has(st, "pre", i) \/ <<"pre", st.mods[i].id>> = call BY ZenonT(60), <1>3, <1>16 DEF Has
  <2>2. st.mods[i].id = st.mods[st.k].id => i = st.k BY <1>1 DEF PInv, CallsInv
  <2> QED BY <2>1, <2>2
<1>5. \A i \in DOMAIN st.mods : i \in Nat BY ListFacts
<1>6. \A i \in DOMAIN st.mods :
         IF i < t.k THEN t.mods[i].abi => Has(t, "pre", i) ELSE ~Has(t, "pre", i)
  BY <1>1, <1>3, <1>4, <1>5 DEF PInv, CallsInv
<1>7. CallsInv(t) BY <1>3, <1>6, <1>13 DEF PInv, CallsInv
<1>8. st.run = TRUE BY DEF PInv, PlaceInv
<1>9. DenyInv(t) BY ZenonT(60), <1>2, <1>8 DEF Process, PInv, DenyInv, Decided
<1>10. PInv(t) BY ZenonT(60), <1>2, <1>3, <1>7, <1>9 DEF Process, PInv, PlaceInv, CleanInv, FdsInv, CoreInv
<1>11. call \notin ToSet(st.calls)
  <2>1. ~Has(st, "pre", st.k) BY <1>1 DEF PInv, CallsInv
  <2> QED BY <2>1 DEF Has
<1>12. call[2] \in t.libs /\ call[2] \in Mods BY <1>1, <1>3, ListFacts DEF PInv, CallsInv
<1> QED BY <1>3, <1>17, <1>18, <1>10, <1>11, <1>12

\* A module whose library was closed is passed over.
LEMMA SkipKeeps ==
  ASSUME NEW st \in Process, PInv(st), st.at \in {"pre", "post"}, st.k <= Len(st.mods),
         ~st.mods[st.k].abi, NEW t, t = [st EXCEPT !.k = @ + 1]
  PROVE  t \in Process /\ PInv(t) /\ t.calls = st.calls
<1>1. st.k \in DOMAIN st.mods /\ st.k \in Nat \ {0} /\ st.k + 1 \in Nat \ {0} BY ListFacts
<1>2. t \in Process BY <1>1 DEF Process
<1>3. /\ t.k = st.k + 1 /\ t.mods = st.mods /\ t.libs = st.libs /\ t.run = st.run
      /\ t.at = st.at /\ t.calls = st.calls
  BY DEF Process
<1>4. \A i \in DOMAIN st.mods, c \in {"pre", "post"} : Has(t, c, i) <=> Has(st, c, i)
  BY <1>3 DEF Has
<1>5. NoneYet(t, "post") <=> NoneYet(st, "post") BY <1>3 DEF NoneYet
<1>6. \A i \in DOMAIN st.mods : /\ i \in Nat /\ i < t.k => i < st.k \/ i = st.k
                                /\ i >= t.k => i >= st.k /\ ~(i < st.k)
  BY <1>1, <1>3, ListFacts
<1>7. CallsInv(t)
  <2>1. CASE st.at = "pre" BY <2>1, <1>1, <1>3, <1>4, <1>5, <1>6 DEF PInv, CallsInv
  <2>2. CASE st.at = "post" BY <2>2, <1>1, <1>3, <1>4, <1>5, <1>6 DEF PInv, CallsInv
  <2> QED BY <2>1, <2>2
<1>8. PInv(t) BY <1>3, <1>7 DEF Process, PInv, PlaceInv, CleanInv, DenyInv, FdsInv, CoreInv, Decided
<1> QED BY <1>2, <1>3, <1>8

\* The end of the loop before the original method.
LEMMA PreEndsKeeps ==
  ASSUME NEW st \in Process, PInv(st), st.at = "pre", st.k > Len(st.mods),
         NEW t, t = [st EXCEPT !.at = IF st.req.kind = "server" THEN "sanitize" ELSE "close"]
  PROVE  t \in Process /\ PInv(t) /\ t.calls = st.calls
<1>1. PICK at \in {"sanitize", "close"} :
         /\ at = IF st.req.kind = "server" THEN "sanitize" ELSE "close"
         /\ t = [st EXCEPT !.at = at]
  OBVIOUS
<1>2. at \in Places BY DEF Places
<1>3. t \in Process BY ZenonT(60), <1>1, <1>2 DEF Process
<1>4. /\ t.k = st.k /\ t.mods = st.mods /\ t.libs = st.libs /\ t.run = st.run
      /\ t.at = at /\ t.calls = st.calls
  BY <1>1 DEF Process
<1>5. \A i \in DOMAIN st.mods : i < st.k /\ (Has(t, "pre", i) <=> Has(st, "pre", i))
  BY <1>4, ListFacts DEF Has
<1>6. NoneYet(t, "post") <=> NoneYet(st, "post") BY <1>4 DEF NoneYet
<1>7. CallsInv(t) BY <1>4, <1>5, <1>6 DEF PInv, CallsInv
<1>8. PInv(t)
  BY <1>1, <1>4, <1>7 DEF Process, PInv, PlaceInv, CleanInv, DenyInv, FdsInv, CoreInv, Decided
<1> QED BY <1>3, <1>4, <1>8

\* The callback after: the one before it has been made, and no other after.
LEMMA PostKeeps ==
  ASSUME NEW st \in Process, PInv(st), st.at = "post", st.k <= Len(st.mods), st.mods[st.k].abi,
         NEW t, t = Called(st, "post"), NEW call, call = <<"post", st.mods[st.k].id>>
  PROVE  /\ t \in Process /\ PInv(t) /\ t.at = "post" /\ t.calls = Append(st.calls, call)
         /\ call \notin ToSet(st.calls) /\ call[2] \in t.libs
         /\ <<"pre", call[2]>> \in ToSet(st.calls)
<1>1. st.k \in DOMAIN st.mods /\ st.k \in Nat \ {0} BY ListFacts
<1> DEFINE calls == Append(st.calls, call)
           k == st.k + 1
<1>14. call \in Callbacks BY <1>1, ListFacts DEF Callbacks
<1>2. t = [st EXCEPT !.calls = calls, !.k = k] BY DEF Called, Process
<1>15. k = st.k + 1 /\ k \in Nat \ {0} BY <1>1
<1>16. /\ calls \in Seq(Callbacks) /\ ToSet(calls) = ToSet(st.calls) \cup {call}
  <2>1. st.calls \in Seq(Callbacks) BY ListFacts
  <2> QED BY <2>1, <1>14, Appended
<1>17. calls = Append(st.calls, call) OBVIOUS
<1> HIDE DEF calls, k
<1>18. t \in Process
  <2>1. st \in Process OBVIOUS
  <2>2. [st EXCEPT !.calls = calls, !.k = k] \in Process BY ONLY <2>1, <1>15, <1>16, CalledTyped
  <2> QED BY <1>2, <2>2
<1>3. /\ t.at = "post" /\ t.mods = st.mods /\ t.libs = st.libs /\ t.run = st.run
      /\ t.calls = calls /\ t.k = st.k + 1
  BY <1>2, <1>15 DEF Process
<1>4. \A i \in DOMAIN st.mods : /\ Has(st, "pre", i) => Has(t, "pre", i)
                                /\ Has(t, "post", i) => Has(st, "post", i) \/ i = st.k
  <2> SUFFICES ASSUME NEW i \in DOMAIN st.mods
               PROVE  /\ Has(st, "pre", i) => Has(t, "pre", i)
                      /\ Has(t, "post", i) => Has(st, "post", i) \/ i = st.k
    OBVIOUS
  <2>1. Has(t, "post", i) <=> Has(st, "post", i) \/ <<"post", st.mods[i].id>> = call BY <1>3, <1>16 DEF Has
  <2>2. st.mods[i].id = st.mods[st.k].id => i = st.k BY <1>1 DEF PInv, CallsInv
  <2>3. Has(st, "pre", i) => Has(t, "pre", i) BY <1>3, <1>16 DEF Has
  <2> QED BY <2>1, <2>2, <2>3
<1>5. \A i \in DOMAIN st.mods : i \in Nat BY ListFacts
<1>6. \A i \in DOMAIN st.mods : i >= t.k => i >= st.k /\ i # st.k BY <1>1, <1>3, <1>5
<1>7. CallsInv(t) BY <1>1, <1>3, <1>4, <1>6 DEF PInv, CallsInv
<1>8. st.run = TRUE BY DEF PInv, PlaceInv
<1>9. DenyInv(t) BY ZenonT(60), <1>2, <1>8 DEF Process, PInv, DenyInv, Decided
<1>10. PInv(t) BY ZenonT(60), <1>2, <1>3, <1>7, <1>9 DEF Process, PInv, PlaceInv, CleanInv, FdsInv, CoreInv
<1>11. call \notin ToSet(st.calls) /\ <<"pre", call[2]>> \in ToSet(st.calls)
  <2>1. ~Has(st, "post", st.k) /\ Has(st, "pre", st.k) BY <1>1 DEF PInv, CallsInv
  <2> QED BY <2>1 DEF Has
<1>12. call[2] \in t.libs BY <1>1, <1>3, ListFacts DEF PInv, CallsInv
<1> QED BY <1>3, <1>17, <1>18, <1>10, <1>11, <1>12

\* The end of the loop after the original method.
LEMMA PostEndsKeeps ==
  ASSUME NEW st \in Process, PInv(st), st.at = "post",
         NEW t, t = [st EXCEPT !.at = "tail"]
  PROVE  t \in Process /\ PInv(t) /\ t.calls = st.calls
<1>1. t \in Process BY ZenonT(60) DEF Process, Places
<1>2. t.mods = st.mods /\ t.libs = st.libs /\ t.calls = st.calls /\ t.at = "tail" BY DEF Process
<1>3. CallsInv(t) BY <1>2 DEF PInv, CallsInv
<1>4. PInv(t)
  BY <1>2, <1>3 DEF Process, PInv, PlaceInv, CleanInv, DenyInv, FdsInv, CoreInv, Decided
<1> QED BY <1>1, <1>2, <1>4

-----------------------------------------------------------------------------
(* Between the callbacks: the libraries, the descriptors and the original   *)
(* method.                                                                  *)

\* CloseLibraries: a closed module has abi cleared, the others stay mapped.
ClosedBy(old, new, closed) ==
    /\ DOMAIN new = DOMAIN old
    /\ \A i \in DOMAIN old : /\ new[i].id = old[i].id
                             /\ new[i].abi => old[i].abi /\ old[i].id \notin closed

LEMMA CloseKeeps ==
  ASSUME NEW st \in Process, PInv(st), st.at = "close", NEW closed \in SUBSET Mods,
         NEW mods \in Seq(ModRecs), ClosedBy(st.mods, mods, closed),
         NEW at \in {"sanitize", "orig"},
         st.req.kind = "app" => at = "sanitize", at = "sanitize" => st.req.kind = "app",
         NEW t, t = [st EXCEPT !.libs = @ \ closed, !.mods = mods, !.at = at]
  PROVE  t \in Process /\ PInv(t)
<1>1. at \in Places /\ st.libs \ closed \in SUBSET Mods BY DEF Places, Process
<1>3. t \in Process
  <2>1. ASSUME NEW a \in SUBSET Mods, NEW b \in Seq(ModRecs), NEW c \in Places
        PROVE  [st EXCEPT !.libs = a, !.mods = b, !.at = c] \in Process
    BY DEF Process
  <2> QED BY <2>1, <1>1
<1>4. /\ t.mods = mods /\ t.libs = st.libs \ closed /\ t.calls = st.calls /\ t.at = at
      /\ t.run = st.run /\ at \in {"sanitize", "orig"}
  BY DEF Process
<1>5. \A i \in DOMAIN st.mods : Has(t, "pre", i) <=> Has(st, "pre", i) BY <1>4 DEF Has, ClosedBy
<1>6. NoneYet(t, "post") <=> NoneYet(st, "post") BY <1>4 DEF NoneYet
<1>9. st.run = TRUE BY DEF PInv, PlaceInv
<1>7. CallsInv(t)
  <2>5. /\ DOMAIN mods = DOMAIN st.mods
        /\ \A i \in DOMAIN st.mods : /\ mods[i].id = st.mods[i].id
                                     /\ mods[i].abi => st.mods[i].abi /\ st.mods[i].id \notin closed
    BY DEF ClosedBy
  <2>1. \A i \in DOMAIN st.mods : t.mods[i].abi => t.mods[i].id \in t.libs
    BY <1>4, <2>5, ListFacts DEF PInv, CallsInv
  <2>2. \A i, j \in DOMAIN st.mods : t.mods[i].id = t.mods[j].id => i = j
    BY <1>4, <2>5 DEF PInv, CallsInv
  <2>3. NoneYet(t, "post") BY <1>6, <1>9 DEF PInv, CallsInv
  <2>4. \A i \in DOMAIN st.mods : t.mods[i].abi => Has(t, "pre", i)
    BY <1>4, <1>5, <1>9, <2>5 DEF PInv, CallsInv
  <2> QED BY <2>1, <2>2, <2>3, <2>4, <2>5, <1>4 DEF CallsInv
<1>8. PInv(t)
  <2>1. t.fds = st.fds /\ t.ctx = st.ctx /\ t.req = st.req /\ t.side = st.side /\ t.plt = st.plt
        /\ t.ignore = st.ignore /\ t.core = st.core /\ t.dec = st.dec /\ t.heard = st.heard
        /\ t.mode = st.mode /\ t.again = st.again /\ t.exempted = st.exempted /\ t.atFork = st.atFork
    BY DEF Process
  <2>2. PlaceInv(t) /\ CleanInv(t) BY <2>1, <1>4, <1>9 DEF PInv, PlaceInv, CleanInv
  <2>3. DenyInv(t) BY <2>1, <1>4 DEF PInv, DenyInv, Decided
  <2>5. at = "orig" => st.req.kind = "usap" BY DEF Process, AnyRequest, PInv, PlaceInv
  <2>4. FdsInv(t) /\ CoreInv(t) BY <2>1, <2>5, <1>4 DEF PInv, PlaceInv, FdsInv, CoreInv
  <2> QED BY <2>2, <2>3, <2>4, <1>7 DEF PInv
<1> QED BY <1>3, <1>8

\* Sanitize: what is left open is of the fork, or ignored.
LEMMA SanitizeKeeps ==
  ASSUME NEW st \in Process, PInv(st), st.at = "sanitize", NEW enough \in BOOLEAN,
         NEW kept, kept = IF st.req.kind = "app" /\ enough THEN st.exempted ELSE {},
         NEW t, t = [st EXCEPT !.fds = @ \cap (st.atFork \cup IgnoreArg \cup kept),
                               !.ignore = @ \cup kept, !.at = "orig"]
  PROVE  t \in Process /\ PInv(t) /\ t.calls = st.calls
<1>1. kept \in SUBSET Descriptors /\ kept \subseteq st.exempted BY DEF Process
<1>2. "orig" \in Places /\ st.ignore \cup kept \in SUBSET Descriptors
      /\ st.fds \cap (st.atFork \cup IgnoreArg \cup kept) \in SUBSET Descriptors
  BY <1>1 DEF Places, Process
<1>3. t \in Process BY ZenonT(60), <1>2 DEF Process
<1>4. /\ t.mods = st.mods /\ t.libs = st.libs /\ t.calls = st.calls /\ t.at = "orig"
      /\ t.run = st.run
  BY DEF Process
<1>5. \A i \in DOMAIN st.mods : Has(t, "pre", i) <=> Has(st, "pre", i) BY <1>4 DEF Has
<1>6. NoneYet(t, "post") <=> NoneYet(st, "post") BY <1>4 DEF NoneYet
<1>7. CallsInv(t) BY <1>4, <1>5, <1>6 DEF PInv, CallsInv
<1>9. FdsInv(t) BY <1>1, FdFacts DEF Process, PInv, FdsInv
<1>8. PInv(t)
  BY <1>4, <1>7, <1>9 DEF Process, PInv, PlaceInv, CleanInv, DenyInv, CoreInv, Decided
<1> QED BY <1>3, <1>4, <1>8

\* Behind the original method the loop after it starts, where modules run.
LEMMA AfterOrigCalls ==
  ASSUME NEW st \in Process, CallsInv(st), st.at = "orig", NEW t \in Process,
         t.mods = st.mods, t.libs = st.libs, t.calls = st.calls, t.run = st.run,
         t.at = IF st.run THEN "post" ELSE "tail"
  PROVE  CallsInv(t)
<1>1. \A i \in DOMAIN st.mods, c \in {"pre", "post"} : Has(t, c, i) <=> Has(st, c, i) BY DEF Has
<1>2. CASE st.run = TRUE
  <2>1. t.at = "post" BY <1>2
  <2>2. \A i \in DOMAIN st.mods : ~Has(st, "post", i) BY <1>2 DEF CallsInv, Has, NoneYet, ToSet
  <2> QED BY <1>1, <1>2, <2>1, <2>2 DEF CallsInv
<1>3. CASE st.run = FALSE
  <2>1. t.at = "tail" BY <1>3
  <2> QED BY <1>1, <2>1 DEF CallsInv
<1> QED BY <1>2, <1>3 DEF Process

\* Orig, where it makes no fork.
LEMMA OrigKeeps ==
  ASSUME NEW st \in Process, PInv(st), st.at = "orig", NEW t, t = AfterOrig(st)
  PROVE  t \in Process /\ PInv(t) /\ t.calls = st.calls
<1>0. PICK at \in {"post", "tail"} : at = IF st.run THEN "post" ELSE "tail" OBVIOUS
<1>1. (st.run = TRUE /\ at = "post") \/ (st.run = FALSE /\ at = "tail") BY <1>0 DEF Process
<1>2. t = [st EXCEPT !.at = at, !.k = 1] BY <1>0 DEF AfterOrig
<1>3. at \in Places /\ 1 \in Nat \ {0} BY DEF Places
<1>4. t \in Process BY ZenonT(60), <1>2, <1>3 DEF Process
<1>5. /\ t.mods = st.mods /\ t.libs = st.libs /\ t.calls = st.calls /\ t.run = st.run
      /\ t.at = at
  BY <1>2 DEF Process
<1>6. CallsInv(st) BY DEF PInv
<1>7. CallsInv(t) BY <1>0, <1>4, <1>5, <1>6, AfterOrigCalls
<1>8. DenyInv(t) BY <1>2, <1>5 DEF Process, PInv, DenyInv, Decided
<1>9. CleanInv(t) BY <1>1, <1>2, <1>5 DEF Process, PInv, CleanInv, PlaceInv, Pristine, Untouched
<1>10. PInv(t)
  BY <1>1, <1>2, <1>5, <1>7, <1>8, <1>9 DEF Process, PInv, PlaceInv, FdsInv, CoreInv
<1> QED BY <1>4, <1>5, <1>10

\* OrigForks: the parent of the fork the original method makes, and its child.
LEMMA OrigForksKeeps ==
  ASSUME NEW st \in Process, PInv(st), st.at = "orig", st.req.kind # "usap", ~NoSecondFork(st),
         NEW side \in {"parent", "child"}, NEW again \in BOOLEAN, side = "child" => again = TRUE,
         NEW at \in {"post", "tail"},
         (st.run = TRUE /\ at = "post") \/ (st.run = FALSE /\ at = "tail"),
         NEW t, t = [st EXCEPT !.side = side, !.again = again, !.at = at, !.k = 1]
  PROVE  t \in Process /\ PInv(t) /\ t.calls = st.calls
<1>1. at \in Places /\ 1 \in Nat \ {0} BY DEF Places
<1>2. t \in Process BY ZenonT(60), <1>1 DEF Process
<1>3. /\ t.mods = st.mods /\ t.libs = st.libs /\ t.calls = st.calls /\ t.run = st.run
      /\ t.at = at /\ t.side = side /\ t.ctx = st.ctx /\ t.plt = st.plt /\ t.fds = st.fds
      /\ t.descends = st.descends /\ t.req = st.req /\ t.dec = st.dec /\ t.again = again
  BY DEF Process
<1>4. CallsInv(t)
  <2>1. CallsInv(st) /\ t.at = IF st.run THEN "post" ELSE "tail" BY <1>3 DEF PInv
  <2> QED BY <2>1, <1>2, <1>3, AfterOrigCalls
<1>5. st.ctx \in {"child", "parent"} => "fork" \notin st.plt BY DEF NoSecondFork
<1>6. st.ctx \in {"child", "parent", "failed"} BY DEF Process, PInv, CleanInv
<1>7. CleanInv(t)
  <2>1. t.ctx \in {"parent", "failed"} /\ "fork" \in t.plt => Pristine(t)
    BY <1>3 DEF PInv, CleanInv, Pristine, Untouched
  <2> QED BY <2>1, <1>3, <1>5, <1>6 DEF PInv, CleanInv
<1>8. DenyInv(t) BY <1>3 DEF DenyInv
<1>9. FdsInv(t) /\ CoreInv(t) /\ PlaceInv(t)
  BY <1>3 DEF Process, PInv, FdsInv, CoreInv, PlaceInv
<1> QED BY <1>2, <1>3, <1>4, <1>7, <1>8, <1>9 DEF PInv

-----------------------------------------------------------------------------
(* The end of the wrapper.                                                  *)

\* What the steps at the end of the wrapper leave alone of the callbacks.
LEMMA EndCalls ==
  ASSUME NEW st \in Process, PInv(st), NEW t \in Process, t.mods = st.mods, t.libs = st.libs,
         t.at \in {"tail", "unmap", "idle", "app"}
  PROVE  CallsInv(t)
BY DEF PInv, CallsInv

LEMMA UnhookTyped ==
  ASSUME NEW st \in Process, NEW inline \in SUBSET (Methods \cup Mods),
         NEW table \in SUBSET (Methods \cup Mods), NEW plt \in SUBSET ({"strdup", "fork"} \cup Mods),
         NEW commit \in BOOLEAN, NEW fds \in SUBSET Descriptors
  PROVE  [st EXCEPT !.inline = inline, !.table = table, !.plt = plt, !.commitOk = commit, !.fds = fds]
            \in Process
BY DEF Process

LEMMA EndTyped ==
  ASSUME NEW st \in Process, NEW can \in BOOLEAN, NEW mounts \in BOOLEAN, NEW at \in Places
  PROVE  [st EXCEPT !.can = can, !.mounts = mounts, !.at = at] \in Process
BY DEF Process

LEMMA ReturnTyped ==
  ASSUME NEW st \in Process, NEW at \in Places, NEW calls \in Seq(Callbacks),
         NEW descends \in {"no", "fork", "pool"}, NEW fds \in SUBSET Descriptors,
         NEW ignore \in SUBSET Descriptors, NEW req \in AnyRequest
  PROVE  [st EXCEPT !.at = at, !.ctx = "none", !.exempted = {}, !.ignore = ignore, !.k = 1,
                    !.dec = 0, !.run = FALSE, !.heard = TRUE, !.atFork = {}, !.calls = calls,
                    !.req = req, !.descends = descends, !.fds = fds] \in Process
<1>1. 1 \in Nat \ {0} /\ 0 \in 0..2 OBVIOUS
<1> QED BY ZenonT(60), <1>1 DEF Process

Unhooked(st, t) ==
    /\ t.at = "tail" /\ t.calls = st.calls /\ t.req = st.req /\ t.dec = st.dec
    /\ t.inline = {}
    /\ st.table = {} => t.table = {}
    /\ t.commitOk => t.plt \cap {"strdup", "fork"} = {}

\* SelfUnhook takes the hooks and closes the directories.
LEMMA SelfUnhookKeeps ==
  ASSUME NEW st \in Process, PInv(st), st.at = "tail", NEW found \in BOOLEAN, NEW commit \in BOOLEAN,
         NEW t, t = SelfUnhook(st, found, commit)
  PROVE  t \in Process /\ PInv(t) /\ Unhooked(st, t)
<1>1. PICK table \in SUBSET (Methods \cup Mods), plt \in SUBSET ({"strdup", "fork"} \cup Mods),
           fds \in SUBSET Descriptors :
         /\ t = [st EXCEPT !.inline = {}, !.table = table, !.plt = plt, !.commitOk = commit, !.fds = fds]
         /\ table \in {st.table, {}}
         /\ (commit = TRUE /\ plt = st.plt \ {"strdup", "fork"}) \/ (commit = FALSE /\ plt = st.plt)
         /\ fds = st.fds \ DirFds
  BY DEF SelfUnhook, Process
<1>2. t \in Process
  <2>1. {} \in SUBSET (Methods \cup Mods) OBVIOUS
  <2>2. [st EXCEPT !.inline = {}, !.table = table, !.plt = plt, !.commitOk = commit, !.fds = fds] \in Process
    BY <1>1, <2>1, UnhookTyped
  <2> QED BY <1>1, <2>2
<1>3. /\ t.mods = st.mods /\ t.libs = st.libs /\ t.calls = st.calls /\ t.at = "tail" /\ t.core = st.core
      /\ t.inline = {} /\ t.table = table /\ t.plt = plt /\ t.commitOk = commit /\ t.fds = fds
      /\ t.side = st.side /\ t.ctx = st.ctx /\ t.descends = st.descends /\ t.req = st.req
      /\ t.dec = st.dec /\ t.run = st.run /\ t.again = st.again /\ t.heard = st.heard /\ t.mode = st.mode
      /\ t.ignore = st.ignore /\ t.atFork = st.atFork /\ t.exempted = st.exempted
  BY <1>1 DEF Process
<1>4. CallsInv(t) BY <1>2, <1>3, EndCalls
<1>5. CleanInv(t)
  BY <1>1, <1>3, FdFacts DEF PInv, CleanInv, Pristine, Untouched
<1>6. DenyInv(t) BY <1>3 DEF PInv, DenyInv, Decided
<1>7. FdsInv(t) /\ CoreInv(t) /\ PlaceInv(t)
  BY <1>1, <1>3, FdFacts DEF PInv, FdsInv, CoreInv, PlaceInv
<1>8. Unhooked(st, t) BY <1>1, <1>3 DEF Unhooked
<1> QED BY <1>2, <1>4, <1>5, <1>6, <1>7, <1>8 DEF PInv

\* Reverted hides the mounts.
LEMMA RevertedKeeps ==
  ASSUME NEW st \in Process, PInv(st), NEW mounts \in BOOLEAN,
         NEW t, t = [st EXCEPT !.mounts = mounts]
  PROVE  t \in Process /\ PInv(t) /\ t.at = st.at /\ t.calls = st.calls /\ t.core = st.core
<1>1. t \in Process BY DEF Process
<1>2. PInv(t)
  BY DEF Process, PInv, PlaceInv, CleanInv, DenyInv, FdsInv, CoreInv, CallsInv, Quiet, Untouched,
     Pristine, Bare, Has, NoneYet
<1> QED BY <1>1, <1>2 DEF Process

\* The wrapper returns.
LEMMA ReturnedKeeps ==
  ASSUME NEW st \in Process, PInv(st), st.at \in {"tail", "unmap"}, NEW t, t = Returned(st)
  PROVE  /\ t \in Process /\ PInv(t) /\ t.at \in {"idle", "app"} /\ t.calls \in {st.calls, <<>>}
         /\ t.inline = st.inline /\ t.table = st.table /\ t.plt = st.plt
         /\ t.commitOk = st.commitOk /\ t.core = st.core /\ t.can = st.can
<1> DEFINE at == IF st.side = "parent" \/ st.req.cz THEN "idle" ELSE "app"
           calls == IF st.side = "child" THEN <<>> ELSE st.calls
           descends == IF ~(st.side = "child" /\ st.req.cz) THEN st.descends
                       ELSE IF st.req.kind = "usap" \/ st.descends = "pool" THEN "pool" ELSE "fork"
           fds == IF st.req.cz /\ st.ctx = "child" THEN st.fds \ DirFds ELSE st.fds
<1>0. t = [st EXCEPT !.at = at, !.ctx = "none", !.exempted = {}, !.ignore = IgnoreArg, !.k = 1,
                     !.dec = 0, !.run = FALSE, !.heard = TRUE, !.atFork = {}, !.calls = calls,
                     !.req = NoRequest, !.descends = descends, !.fds = fds]
  BY DEF Returned, Process
<1>9. at \in {"idle", "app"} OBVIOUS
<1>10. /\ calls \in Seq(Callbacks) /\ descends \in {"no", "fork", "pool"}
       /\ fds \in SUBSET Descriptors
  BY EmptySeq DEF Process
<1>1. /\ at = "idle" => st.side = "parent" \/ st.req.cz
      /\ calls = IF st.side = "child" THEN <<>> ELSE st.calls
      /\ IF ~(st.side = "child" /\ st.req.cz) THEN descends = st.descends
         ELSE IF st.req.kind = "usap" \/ st.descends = "pool" THEN descends = "pool"
         ELSE descends = "fork"
      /\ IF st.req.cz /\ st.ctx = "child" THEN fds = st.fds \ DirFds ELSE fds = st.fds
  OBVIOUS
<1> HIDE DEF at, calls, descends, fds
<1>2. t \in Process
  <2>1. NoRequest \in AnyRequest /\ IgnoreArg \in SUBSET Descriptors /\ at \in Places
    BY <1>9, FdFacts DEF NoRequest, AnyRequest, Places
  <2>2. [st EXCEPT !.at = at, !.ctx = "none", !.exempted = {}, !.ignore = IgnoreArg, !.k = 1,
                   !.dec = 0, !.run = FALSE, !.heard = TRUE, !.atFork = {}, !.calls = calls,
                   !.req = NoRequest, !.descends = descends, !.fds = fds] \in Process
    BY ZenonT(60), <2>1, <1>10, ReturnTyped
  <2> QED BY <1>0, <2>2
<1>3. /\ t.mods = st.mods /\ t.libs = st.libs /\ t.calls = calls /\ t.at = at /\ t.core = st.core
      /\ t.inline = st.inline /\ t.table = st.table /\ t.plt = st.plt /\ t.commitOk = st.commitOk
      /\ t.fds = fds /\ t.side = st.side /\ t.ctx = "none" /\ t.descends = descends
      /\ t.req = NoRequest /\ t.dec = 0 /\ t.run = FALSE /\ t.ignore = IgnoreArg
      /\ t.exempted = {} /\ t.k = 1 /\ t.can = st.can
  BY <1>0 DEF Process
<1>4. CallsInv(t) BY <1>2, <1>3, <1>9, EndCalls
<1>5. CleanInv(t)
  <2>1. ASSUME at = "idle", "fork" \in st.plt PROVE Pristine(t)
    <3>1. CASE st.side = "parent"
      <4>1. st.ctx \in {"parent", "failed"} BY <3>1, <2>1 DEF PInv, CleanInv
      <4>2. Pristine(st) BY <4>1, <2>1 DEF PInv, CleanInv
      <4>3. descends = st.descends /\ fds = st.fds /\ calls = st.calls BY <3>1, <4>1, <1>1
      <4> QED BY <4>2, <4>3, <1>3 DEF Pristine, Untouched
    <3>2. CASE st.side = "child"
      <4>1. st.req.cz BY <3>2, <2>1, <1>1
      <4>2. CASE descends = "pool" BY <4>2, <1>3 DEF Pristine
      <4>3. CASE descends # "pool"
        <5>1. descends = "fork" /\ st.req.kind # "usap" /\ st.descends # "pool" BY <3>2, <4>1, <4>3, <1>1
        <5>2. CASE st.ctx = "child" BY <5>1, <5>2, <4>1, <1>1, <1>3 DEF Pristine
        <5>3. CASE st.ctx # "child"
          <6>1. st.ctx \in {"parent", "failed"} BY <5>1, <5>3 DEF Process, PInv, CleanInv
          <6>2. Pristine(st) BY <6>1, <2>1 DEF PInv, CleanInv
          <6>3. st.fds \cap DirFds = {} BY <6>2, <5>1, FdFacts DEF Pristine, Untouched, Process
          <6> QED BY <5>1, <5>3, <6>3, <1>1, <1>3 DEF Pristine
        <5> QED BY <5>2, <5>3
      <4> QED BY <4>2, <4>3
    <3> QED BY <3>1, <3>2 DEF Process
  <2> QED BY <2>1, <1>3, <1>9 DEF CleanInv
<1>6. DenyInv(t) BY <1>3, <1>9 DEF DenyInv, Decided
<1>7. FdsInv(t) /\ CoreInv(t)
  BY <1>1, <1>3, <1>9, FdFacts DEF PInv, FdsInv, CoreInv
<1>8. PlaceInv(t) BY <1>3, <1>9 DEF PlaceInv, Quiet
<1> QED BY <1>1, <1>9, <1>2, <1>3, <1>4, <1>5, <1>6, <1>7, <1>8 DEF PInv

\* SelfDestruct: to unmap only what nothing leads to.
LEMMA SelfDestructKeeps ==
  ASSUME NEW u \in Process, PInv(u), u.at = "tail", ~u.req.cz, u.dec = 2,
         NEW can \in BOOLEAN, NEW mounts \in BOOLEAN, can = TRUE => Bare(u),
         NEW t, t = [u EXCEPT !.can = can, !.mounts = mounts, !.at = "unmap"]
  PROVE  t \in Process /\ PInv(t) /\ t.calls = u.calls
<1>3. "unmap" \in Places BY DEF Places
<1>4. t \in Process BY <1>3, EndTyped
<1>5. /\ t.mods = u.mods /\ t.libs = u.libs /\ t.calls = u.calls /\ t.at = "unmap" /\ t.core = u.core
      /\ t.inline = u.inline /\ t.table = u.table /\ t.plt = u.plt /\ t.commitOk = u.commitOk
      /\ t.fds = u.fds /\ t.side = u.side /\ t.ctx = u.ctx /\ t.descends = u.descends
      /\ t.req = u.req /\ t.dec = u.dec /\ t.run = u.run /\ t.ignore = u.ignore /\ t.can = can
  BY DEF Process
<1>6. CallsInv(t) BY <1>4, <1>5, EndCalls
<1>8. DenyInv(t) /\ FdsInv(t) BY <1>5 DEF PInv, DenyInv, FdsInv, Decided
<1>9. CoreInv(t) BY <1>5 DEF PInv, CoreInv, Bare
<1> QED BY <1>4, <1>5, <1>6, <1>8, <1>9 DEF PInv, PlaceInv, CleanInv

\* UnmapSelf: the core goes when nothing leads to it.
LEMMA UnmappedKeeps ==
  ASSUME NEW u \in Process, PInv(u), u.at \in {"idle", "app"}, NEW core \in BOOLEAN,
         core = FALSE => Bare(u), NEW t, t = [u EXCEPT !.core = core]
  PROVE  t \in Process /\ PInv(t) /\ t.calls = u.calls
<1>1. t \in Process BY DEF Process
<1>2. PInv(t)
  BY DEF Process, PInv, PlaceInv, CleanInv, DenyInv, FdsInv, CoreInv, CallsInv, Quiet, Untouched,
     Pristine, Bare, Decided
<1> QED BY <1>1, <1>2 DEF Process

-----------------------------------------------------------------------------
(* The steps of the processes.                                              *)

\* A callback that a step of a process makes.
CallStep(st, t) ==
    Len(t.calls) = Len(st.calls) + 1 /\ st.at # "absent" =>
       /\ Last(t.calls) \notin ToSet(st.calls)
       /\ Last(t.calls)[2] \in t.libs
       /\ Last(t.calls)[1] = "post" => <<"pre", Last(t.calls)[2]>> \in ToSet(st.calls)

\* What every step does.
Kept == IInv' /\ \A p \in Procs : CallStep(procs[p], procs'[p])

LEMMA ProcsFacts ==
  /\ Root \in Procs /\ Kids \subseteq Procs /\ Root \notin Kids
  /\ MaxKids \in Nat
BY BoundsAssumption DEF Root, Procs, Kids

LEMMA NoCall ==
  ASSUME NEW st \in Process, NEW t \in Process, t.calls \in {st.calls, <<>>} \/ st.at = "absent"
  PROVE  CallStep(st, t)
<1>1. Len(st.calls) \in Nat /\ Len(<<>>) = 0 BY ListFacts, EmptySeq
<1>2. CASE st.at = "absent" BY <1>2 DEF CallStep
<1>3. CASE t.calls = st.calls
  <2>1. Len(t.calls) # Len(st.calls) + 1 BY <1>1, <1>3
  <2> QED BY <2>1 DEF CallStep
<1>4. CASE t.calls = <<>>
  <2>1. Len(t.calls) # Len(st.calls) + 1 BY <1>1, <1>4
  <2> QED BY <2>1 DEF CallStep
<1> QED BY <1>2, <1>3, <1>4

LEMMA OneStep ==
  ASSUME IInv, NEW p \in Procs, NEW t \in Process, PInv(t), CallStep(procs[p], t),
         procs' = [procs EXCEPT ![p] = t], denyMode' = denyMode
  PROVE  Kept
<1>1. procs \in [Procs -> Process] /\ denyMode \in 0..2 /\ \A q \in Procs : PInv(procs[q])
  BY DEF IInv, TypeOK
<1>2. procs' \in [Procs -> Process] /\ denyMode' \in 0..2 BY <1>1
<1>3. \A q \in Procs : procs'[q] = IF q = p THEN t ELSE procs[q] BY <1>1
<1>4. \A q \in Procs : PInv(procs'[q])
  <2> TAKE q \in Procs
  <2>1. CASE q = p BY <2>1, <1>3
  <2>2. CASE q # p
    <3>1. procs'[q] = procs[q] BY <2>2, <1>3
    <3> QED BY <3>1, <1>1
  <2> QED BY <2>1, <2>2
<1>5. \A q \in Procs : CallStep(procs[q], procs'[q])
  <2> TAKE q \in Procs
  <2>1. CASE q = p BY <2>1, <1>3
  <2>2. CASE q # p
    <3>1. procs'[q] = procs[q] /\ procs[q] \in Process BY <2>2, <1>1, <1>3
    <3> QED BY <3>1, NoCall
  <2> QED BY <2>1, <2>2
<1> QED BY <1>2, <1>4, <1>5 DEF Kept, IInv, TypeOK

\* A fork: the child comes where no process was.
LEMMA TwoSteps ==
  ASSUME IInv, NEW p \in Procs, NEW c \in Procs, p # c, procs[c].at = "absent",
         NEW t \in Process, PInv(t), t.calls = procs[p].calls, NEW u \in Process, PInv(u),
         procs' = [procs EXCEPT ![p] = t, ![c] = u], denyMode' = denyMode
  PROVE  Kept
<1>1. procs \in [Procs -> Process] /\ denyMode \in 0..2 /\ \A q \in Procs : PInv(procs[q])
  BY DEF IInv, TypeOK
<1>2. procs' \in [Procs -> Process] /\ denyMode' \in 0..2 BY <1>1
<1>3. procs'[p] = t /\ procs'[c] = u /\ \A q \in Procs : q # p /\ q # c => procs'[q] = procs[q] BY <1>1
<1>4. \A q \in Procs : PInv(procs'[q])
  <2> TAKE q \in Procs
  <2>1. CASE q = p BY <2>1, <1>3
  <2>2. CASE q = c BY <2>2, <1>3
  <2>3. CASE q # p /\ q # c
    <3>1. procs'[q] = procs[q] BY <2>3, <1>3
    <3> QED BY <3>1, <1>1
  <2> QED BY <2>1, <2>2, <2>3
<1>5. \A q \in Procs : CallStep(procs[q], procs'[q])
  <2> TAKE q \in Procs
  <2>0. procs[q] \in Process /\ procs'[q] \in Process BY <1>1, <1>2
  <2>1. CASE q = p BY <2>0, <2>1, <1>3, NoCall
  <2>2. CASE q = c BY <2>0, <2>2, NoCall
  <2>3. CASE q # p /\ q # c
    <3>1. procs'[q] = procs[q] BY <2>3, <1>3
    <3> QED BY <2>0, <3>1, NoCall
  <2> QED BY <2>1, <2>2, <2>3
<1> QED BY <1>2, <1>4, <1>5 DEF Kept, IInv, TypeOK

\* What the invariant says of one process.
LEMMA OfOne ==
  ASSUME IInv, NEW p \in Procs
  PROVE  procs[p] \in Process /\ PInv(procs[p])
BY DEF IInv, TypeOK

LEMMA BootstrapStep == IInv /\ Bootstrap => Kept
<1> SUFFICES ASSUME IInv, Bootstrap PROVE Kept OBVIOUS
<1> DEFINE st == procs[Root]
<1>1. st \in Process /\ PInv(st) /\ st.at = "boot" /\ Root \in Procs /\ denyMode' = denyMode
  BY OfOne, ProcsFacts DEF Bootstrap
<1>2. PICK t : /\ t = [st EXCEPT !.at = "armed", !.plt = {"strdup"}] \/ t = [st EXCEPT !.at = "plain"]
               /\ procs' = [procs EXCEPT ![Root] = t]
  BY DEF Bootstrap, Set
<1>3. t \in Process /\ PInv(t) BY <1>1, <1>2, BootstrapKeeps
<1>4. t.calls = st.calls BY <1>1, <1>2 DEF Process
<1>5. CallStep(st, t) BY <1>1, <1>3, <1>4, NoCall
<1> QED BY <1>1, <1>2, <1>3, <1>5, OneStep

LEMMA ReachStep == IInv /\ ReachZygoteInit => Kept
<1> SUFFICES ASSUME IInv, ReachZygoteInit PROVE Kept OBVIOUS
<1> DEFINE st == procs[Root]
<1>1. st \in Process /\ PInv(st) /\ st.at = "armed" /\ Root \in Procs /\ denyMode' = denyMode
  BY OfOne, ProcsFacts DEF ReachZygoteInit
<1>2. PICK t : /\ \/ \E layout \in Layouts, armed \in BOOLEAN :
                        t = [Hooked(st, layout) EXCEPT
                               !.at = "idle", !.plt = IF armed THEN @ \cup {"fork"} ELSE @]
                  \/ t = [st EXCEPT !.at = "plain"]
               /\ procs' = [procs EXCEPT ![Root] = t]
  BY DEF ReachZygoteInit, Set
<1>3. t \in Process /\ PInv(t) BY <1>1, <1>2, ReachKeeps, PlainKeeps
<1>4. t.calls = st.calls BY <1>1, <1>2 DEF Process, Hooked
<1>5. CallStep(st, t) BY <1>1, <1>3, <1>4, NoCall
<1> QED BY <1>1, <1>2, <1>3, <1>5, OneStep

\* The two wrappers that fork.
LEMMA ForkStep ==
  ASSUME IInv, NEW p \in Procs, procs[p].at = "idle", procs[p].core, NEW req \in AnyRequest,
         req.kind \in {"app", "server"}, CtxForkPre(p, req), denyMode' = denyMode
  PROVE  Kept
<1> DEFINE st == procs[p]
<1>1. st \in Process /\ PInv(st) /\ st.at = "idle" /\ st.core BY OfOne
<1>2. ASSUME NEW c \in Kids, Free(c),
             procs' = [procs EXCEPT ![p] = Forking(st, req, "parent"), ![c] = Forked(st, req)]
      PROVE  Kept
  <2>1. Forking(st, req, "parent") \in Process /\ PInv(Forking(st, req, "parent")) BY <1>1, ForkingKeeps
  <2>2. Forked(st, req) \in Process /\ PInv(Forked(st, req)) BY <1>1, ForkedKeeps
  <2>3. Forking(st, req, "parent").calls = st.calls BY <1>1 DEF Forking, Process
  <2>4. c \in Procs /\ procs[c].at = "absent" /\ c # p BY <1>1, <1>2, ProcsFacts DEF Free
  <2> QED BY <1>2, <2>1, <2>2, <2>3, <2>4, TwoSteps
<1>3. ASSUME procs' = [procs EXCEPT ![p] = Forking(st, req, "failed")] PROVE Kept
  <2>1. Forking(st, req, "failed") \in Process /\ PInv(Forking(st, req, "failed")) BY <1>1, ForkingKeeps
  <2>2. Forking(st, req, "failed").calls = st.calls BY <1>1 DEF Forking, Process
  <2>3. CallStep(st, Forking(st, req, "failed")) BY <1>1, <2>1, <2>2, NoCall
  <2> QED BY <1>3, <2>1, <2>3, OneStep
<1> QED BY <1>2, <1>3 DEF CtxForkPre, Set

LEMMA ForkAppStep ==
  ASSUME IInv, NEW p \in Procs, NEW req \in Requests, ForkApp(p, req)
  PROVE  Kept
<1>1. req \in AnyRequest BY RequestsAssumption DEF AnyRequest
<1>2. procs[p].core BY OfOne, HookedHasCore DEF ForkApp
<1> QED BY <1>1, <1>2, ForkStep DEF ForkApp

LEMMA ForkServerStep == IInv /\ ForkServer => Kept
<1> SUFFICES ASSUME IInv, ForkServer PROVE Kept OBVIOUS
<1>1. ServerRequest \in AnyRequest /\ ServerRequest.kind = "server" BY DEF ServerRequest, AnyRequest
<1>2. Root \in Procs /\ procs[Root].core BY OfOne, ProcsFacts, HookedHasCore DEF ForkServer
<1> QED BY <1>1, <1>2, ForkStep DEF ForkServer

LEMMA ForkUsapStep == IInv /\ ForkUsap => Kept
<1> SUFFICES ASSUME IInv, ForkUsap PROVE Kept OBVIOUS
<1> DEFINE st == procs[Root]
<1>1. st \in Process /\ PInv(st) /\ st.at = "idle" /\ Root \in Procs /\ denyMode' = denyMode
  BY OfOne, ProcsFacts DEF ForkUsap
<1>2. st.core BY <1>1, HookedHasCore DEF ForkUsap
<1>3. PICK c \in Kids : Free(c) /\ procs' = [procs EXCEPT ![c] =
                           [st EXCEPT !.at = "pool", !.side = "child", !.calls = <<>>, !.atFork = st.fds]]
  BY DEF ForkUsap, Set
<1> DEFINE t == [st EXCEPT !.at = "pool", !.side = "child", !.calls = <<>>, !.atFork = st.fds]
<1>4. t \in Process /\ PInv(t) BY <1>1, <1>2, PoolKeeps
<1>5. c \in Procs /\ procs[c].at = "absent" /\ procs[c] \in Process BY <1>3, ProcsFacts, OfOne DEF Free
<1>6. CallStep(procs[c], t) BY <1>4, <1>5, NoCall
<1> QED BY <1>1, <1>3, <1>4, <1>5, <1>6, OneStep

LEMMA SpecializeStep ==
  ASSUME IInv, NEW p \in Procs, NEW req \in Requests, SpecializeUsap(p, req)
  PROVE  Kept
<1> DEFINE st == procs[p]
           t == [st EXCEPT !.at = "decide", !.req = req]
<1>1. st \in Process /\ PInv(st) /\ st.at = "pool" /\ denyMode' = denyMode /\ req.kind = "usap"
      /\ procs' = [procs EXCEPT ![p] = t]
  BY OfOne DEF SpecializeUsap, Set
<1>2. req \in AnyRequest BY RequestsAssumption DEF AnyRequest
<1>3. t \in Process /\ PInv(t) BY <1>1, <1>2, SpecializeKeeps
<1>4. t.calls = st.calls BY <1>1 DEF Process
<1>5. CallStep(st, t) BY <1>1, <1>3, <1>4, NoCall
<1> QED BY <1>1, <1>3, <1>5, OneStep

\* A step of one process that makes no call.
LEMMA QuietStep ==
  ASSUME IInv, NEW p \in Procs, NEW t \in Process, PInv(t), t.calls \in {procs[p].calls, <<>>},
         procs' = [procs EXCEPT ![p] = t], denyMode' = denyMode
  PROVE  Kept
<1>1. CallStep(procs[p], t) BY OfOne, NoCall
<1> QED BY <1>1, OneStep

\* zygisk_inject_decision, whatever zygiskd answers.
LEMMA InjectDecisionStep ==
  ASSUME IInv, NEW p \in Procs, procs[p].at = "decide", procs[p].req.kind # "server",
         procs[p].req.uid # "isolated", InjectDecision(p), denyMode' = denyMode
  PROVE  Kept
<1> DEFINE st == procs[p]
<1>1. st \in Process /\ PInv(st) /\ st.at = "decide" BY OfOne
<1>2. denyMode \in 0..2 BY DEF IInv, TypeOK
<1>3. PICK config \in BOOLEAN, flags \in BOOLEAN :
         LET mode == IF config THEN denyMode ELSE st.mode
             dec  == Decision(flags /\ st.req.uid = "denied", mode)
         IN  Set(p, [st EXCEPT !.dec = dec, !.run = dec # 2, !.mode = mode,
                               !.heard = config /\ flags, !.at = Onwards(st, dec # 2)])
  BY DEF InjectDecision
<1> DEFINE mode == IF config THEN denyMode ELSE st.mode
           dec == IF ~(flags /\ st.req.uid = "denied") THEN 0
                  ELSE IF mode = 1 THEN 2 ELSE IF mode = 2 THEN 1 ELSE 0
<1>7. mode \in 0..2 BY <1>1, <1>2 DEF Process
<1>8. dec \in 0..2 OBVIOUS
<1>9. procs' = [procs EXCEPT ![p] =
             [st EXCEPT !.dec = dec, !.run = dec # 2, !.mode = mode, !.heard = config /\ flags,
                        !.at = IF dec # 2 THEN "load"
                               ELSE IF st.req.kind = "app" THEN "drop" ELSE "orig"]]
  BY <1>3 DEF Set, Onwards, Decision
<1>10. /\ dec = 2 => mode = 1 /\ mode # 2
       /\ dec # 2 /\ flags /\ st.req.uid = "denied" => mode # 1 /\ (mode = 2 => dec = 1)
  OBVIOUS
<1> HIDE DEF mode, dec
<1>4. PICK heard \in BOOLEAN : heard = (config /\ flags) OBVIOUS
<1>5. CASE dec = 2
  <2>1. PICK at : at = IF st.req.kind = "app" THEN "drop" ELSE "orig" OBVIOUS
  <2> DEFINE t == [st EXCEPT !.dec = 2, !.run = FALSE, !.mode = mode, !.heard = heard, !.at = at]
  <2>2. procs' = [procs EXCEPT ![p] = t] BY <1>4, <1>5, <1>9, <2>1
  <2>3. heard /\ st.req.uid = "denied" => mode # 2 BY <1>5, <1>10
  <2>4. t \in Process /\ PInv(t) BY <1>1, <1>7, <2>1, <2>3, SparedKeeps
  <2>5. t.calls = st.calls BY <1>1 DEF Process
  <2> HIDE DEF t
  <2> QED BY <2>2, <2>4, <2>5, QuietStep
<1>6. CASE dec # 2
  <2> DEFINE t == [st EXCEPT !.dec = dec, !.run = TRUE, !.mode = mode, !.heard = heard, !.at = "load"]
  <2>2. procs' = [procs EXCEPT ![p] = t] BY <1>4, <1>6, <1>9
  <2>3. dec \in 0..1 BY <1>6, <1>8
  <2>6. heard /\ st.req.uid = "denied" => mode # 1 /\ (mode = 2 => dec = 1) BY <1>4, <1>6, <1>10
  <2>4. t \in Process /\ PInv(t) BY <1>1, <1>7, <2>3, <2>6, InjectedKeeps
  <2>5. t.calls = st.calls BY <1>1 DEF Process
  <2> HIDE DEF t
  <2> QED BY <2>2, <2>4, <2>5, QuietStep
<1> QED BY <1>5, <1>6

LEMMA ForkedDecisionStep ==
  ASSUME IInv, NEW p \in Procs, ForkedDecision(p)
  PROVE  Kept
<1> DEFINE st == procs[p]
<1>1. st \in Process /\ PInv(st) /\ st.at = "decide" /\ denyMode' = denyMode
  BY OfOne DEF ForkedDecision
<1>2. CASE st.req.kind = "server"
  <2> DEFINE t == [st EXCEPT !.run = TRUE, !.at = "load"]
  <2>1. procs' = [procs EXCEPT ![p] = t] BY <1>2 DEF ForkedDecision, Set
  <2>2. t \in Process /\ PInv(t) BY <1>1, <1>2, ServerDecisionKeeps
  <2>3. t.calls = st.calls BY <1>1 DEF Process
  <2> HIDE DEF t
  <2> QED BY <1>1, <2>1, <2>2, <2>3, QuietStep
<1>3. CASE st.req.kind # "server" /\ st.req.uid = "isolated"
  <2>1. PICK at : at = IF st.req.kind = "app" THEN "drop" ELSE "orig" OBVIOUS
  <2>2. PICK mode \in 0..2, heard \in BOOLEAN : mode = st.mode /\ heard = st.heard BY <1>1 DEF Process
  <2> DEFINE t == [st EXCEPT !.dec = 2, !.run = FALSE, !.mode = mode, !.heard = heard, !.at = at]
  <2>3. st.run = FALSE BY <1>1 DEF PInv, PlaceInv
  <2>4. t = [st EXCEPT !.dec = 2, !.at = at] BY <1>1, <2>2, <2>3 DEF Process
  <2>5. procs' = [procs EXCEPT ![p] = [st EXCEPT !.dec = 2, !.at = at]]
    BY <1>3, <2>1 DEF ForkedDecision, Onwards, Set
  <2>6. t \in Process /\ PInv(t) BY ZenonT(60), <1>1, <1>3, <2>1, SparedKeeps
  <2>7. t.calls = st.calls BY <1>1 DEF Process
  <2>8. procs' = [procs EXCEPT ![p] = t] BY <2>4, <2>5
  <2> HIDE DEF t
  <2> QED BY <1>1, <2>6, <2>7, <2>8, QuietStep
<1>4. CASE st.req.kind # "server" /\ st.req.uid # "isolated"
  <2>1. InjectDecision(p) BY <1>4 DEF ForkedDecision
  <2> QED BY <1>1, <1>4, <2>1, InjectDecisionStep
<1> QED BY <1>2, <1>3, <1>4

LEMMA DropStep ==
  ASSUME IInv, NEW p \in Procs, DropInherited(p)
  PROVE  Kept
<1> DEFINE st == procs[p]
           t == [st EXCEPT !.fds = @ \ DirFds, !.at = "orig"]
<1>1. /\ st \in Process /\ PInv(st) /\ st.at = "drop" /\ denyMode' = denyMode
      /\ procs' = [procs EXCEPT ![p] = t]
  BY OfOne DEF DropInherited, Set
<1>2. t \in Process /\ PInv(t) BY <1>1, DropKeeps
<1>3. t.calls = st.calls BY <1>1 DEF Process
<1> QED BY <1>1, <1>2, <1>3, QuietStep

LEMMA LoadEndsStep ==
  ASSUME IInv, NEW p \in Procs, LoadEnds(p)
  PROVE  Kept
<1> DEFINE st == procs[p]
           t == EndLoad(st)
<1>1. /\ st \in Process /\ PInv(st) /\ st.at = "load" /\ denyMode' = denyMode
      /\ procs' = [procs EXCEPT ![p] = t]
  BY OfOne DEF LoadEnds, Set
<1>2. t \in Process /\ PInv(t) /\ t.calls = st.calls BY <1>1, EndLoadKeeps
<1> QED BY <1>1, <1>2, QuietStep

\* The last of a list that has been added to.
LEMMA LastAppended ==
  ASSUME NEW S, NEW s \in Seq(S), NEW e \in S
  PROVE  Last(Append(s, e)) = e
BY AppendProperties, LenProperties DEF Last

\* A callback that is made: what it leaves, and that the call is sound.
LEMMA CallbackStep ==
  ASSUME IInv, NEW p \in Procs, NEW u \in Process, PInv(u), u.at \in {"load", "pre"}, NEW m \in Mods,
         NEW kind \in {"load", "pre"},
         u.calls = Append(procs[p].calls, <<kind, m>>),
         <<kind, m>> \notin ToSet(procs[p].calls), m \in u.libs,
         Callback(p, u, m), denyMode' = denyMode
  PROVE  Kept
<1> DEFINE st == procs[p]
<1>1. st \in Process BY OfOne
<1>2. PICK call \in Calls : procs' = [procs EXCEPT ![p] = AfterCall(u, m, call)] BY DEF Callback, Set
<1> DEFINE t == AfterCall(u, m, call)
<1>3. t \in Process /\ PInv(t) /\ t.calls = u.calls /\ t.libs = u.libs BY AfterCallKeeps
<1>4. Last(t.calls) = <<kind, m>>
  <2>1. st.calls \in Seq(Callbacks) /\ <<kind, m>> \in Callbacks BY <1>1 DEF Process, Callbacks
  <2>2. Last(Append(st.calls, <<kind, m>>)) = <<kind, m>> BY <2>1, LastAppended
  <2> QED BY <1>3, <2>2
<1>5. CallStep(st, t)
  <2>1. Last(t.calls) \notin ToSet(st.calls) /\ Last(t.calls)[2] \in t.libs /\ Last(t.calls)[1] # "post"
    BY <1>3, <1>4
  <2> QED BY <2>1 DEF CallStep
<1> HIDE DEF t
<1>6. procs' = [procs EXCEPT ![p] = t] BY <1>2 DEF t
<1> QED BY <1>3, <1>5, <1>6, OneStep

LEMMA LoadModuleStep ==
  ASSUME IInv, NEW p \in Procs, LoadModule(p)
  PROVE  Kept
<1> DEFINE st == procs[p]
           m == Order[st.k]
<1>1. /\ st \in Process /\ PInv(st) /\ st.at = "load" /\ denyMode' = denyMode
      /\ st.k <= Len(Order)
  BY OfOne DEF LoadModule
<1>6. st.k = 1 => st.mods = <<>> BY DEF LoadModule
<1>2. st.k \in 1..Len(Order) /\ m \in Mods BY <1>1, OrderFacts DEF Process, LoadModule
<1>3. ASSUME NEW more \in SUBSET Mods,
             procs' = [procs EXCEPT ![p] = [st EXCEPT !.libs = @ \cup more, !.k = @ + 1]]
      PROVE  Kept
  <2> DEFINE t == [st EXCEPT !.libs = @ \cup more, !.k = @ + 1]
  <2>1. t \in Process /\ PInv(t) BY <1>1, <1>2, <1>6, PassKeeps
  <2>2. t.calls = st.calls BY <1>1 DEF Process
  <2> HIDE DEF t
  <2>3. procs' = [procs EXCEPT ![p] = t] BY <1>3 DEF t
  <2> QED BY <1>1, <2>1, <2>2, <2>3, QuietStep
<1>4. ASSUME Callback(p, Registered(st, m), m) PROVE Kept
  <2> DEFINE u == Registered(st, m)
  <2>1. /\ u \in Process /\ PInv(u) /\ u.at = "load"
        /\ u.calls = Append(st.calls, <<"load", m>>)
        /\ <<"load", m>> \notin ToSet(st.calls) /\ m \in u.libs
    BY <1>1, <1>2, <1>6, RegisteredKeeps
  <2>2. Callback(p, u, m) BY <1>4
  <2> HIDE DEF u, m
  <2> QED BY <1>1, <1>2, <2>1, <2>2, CallbackStep
<1>5. [st EXCEPT !.k = @ + 1] = [st EXCEPT !.libs = @ \cup {}, !.k = @ + 1] BY <1>1 DEF Process
<1>7. \/ procs' = [procs EXCEPT ![p] = [st EXCEPT !.k = @ + 1]]
      \/ procs' = [procs EXCEPT ![p] = [st EXCEPT !.libs = @ \cup {m}, !.k = @ + 1]]
      \/ Callback(p, Registered(st, m), m)
  BY DEF LoadModule, Set
<1>8. CASE procs' = [procs EXCEPT ![p] = [st EXCEPT !.k = @ + 1]]
  <2>1. {} \in SUBSET Mods OBVIOUS
  <2>2. procs' = [procs EXCEPT ![p] = [st EXCEPT !.libs = @ \cup {}, !.k = @ + 1]] BY <1>5, <1>8
  <2> QED BY <2>1, <2>2, <1>3
<1>9. CASE procs' = [procs EXCEPT ![p] = [st EXCEPT !.libs = @ \cup {m}, !.k = @ + 1]]
  <2>1. {m} \in SUBSET Mods BY <1>2
  <2> QED BY <2>1, <1>3, <1>9
<1> QED BY <1>4, <1>7, <1>8, <1>9

LEMMA RunPreStep ==
  ASSUME IInv, NEW p \in Procs, RunPre(p)
  PROVE  Kept
<1> DEFINE st == procs[p]
<1>1. st \in Process /\ PInv(st) /\ st.at = "pre" /\ denyMode' = denyMode BY OfOne DEF RunPre
<1>2. Len(st.mods) \in Nat /\ st.k \in Nat BY <1>1, ListFacts
<1>3. CASE st.k > Len(st.mods)
  <2> DEFINE t == [st EXCEPT !.at = IF st.req.kind = "server" THEN "sanitize" ELSE "close"]
  <2>1. t \in Process /\ PInv(t) /\ t.calls = st.calls BY <1>1, <1>3, PreEndsKeeps
  <2>2. procs' = [procs EXCEPT ![p] = t] BY <1>3 DEF RunPre, Set
  <2> HIDE DEF t
  <2> QED BY <1>1, <2>1, <2>2, QuietStep
<1>4. CASE st.k <= Len(st.mods) /\ st.mods[st.k].abi
  <2> DEFINE m == st.mods[st.k].id
             u == Called(st, "pre")
  <2>1. /\ u \in Process /\ PInv(u) /\ u.at = "pre" /\ u.calls = Append(st.calls, <<"pre", m>>)
        /\ <<"pre", m>> \notin ToSet(st.calls) /\ m \in u.libs /\ m \in Mods
    BY <1>1, <1>4, PreKeeps
  <2>2. Callback(p, u, m) BY <1>2, <1>4 DEF RunPre
  <2> HIDE DEF u, m
  <2> QED BY <1>1, <2>1, <2>2, CallbackStep
<1>5. CASE st.k <= Len(st.mods) /\ ~st.mods[st.k].abi
  <2> DEFINE t == [st EXCEPT !.k = @ + 1]
  <2>1. t \in Process /\ PInv(t) /\ t.calls = st.calls BY <1>1, <1>5, SkipKeeps
  <2>2. procs' = [procs EXCEPT ![p] = t] BY <1>2, <1>5 DEF RunPre, Set
  <2> HIDE DEF t
  <2> QED BY <1>1, <2>1, <2>2, QuietStep
<1> QED BY <1>2, <1>3, <1>4, <1>5

LEMMA CloseStep ==
  ASSUME IInv, NEW p \in Procs, CloseLibraries(p)
  PROVE  Kept
<1> DEFINE st == procs[p]
           closed == {m \in Mods : \E i \in DOMAIN st.mods : st.mods[i].id = m /\ st.mods[i].dlclose}
           mods == [i \in DOMAIN st.mods |-> [st.mods[i] EXCEPT !.abi = @ /\ st.mods[i].id \notin closed]]
           at == IF st.req.kind = "app" THEN "sanitize" ELSE "orig"
           t == [st EXCEPT !.libs = @ \ closed, !.mods = mods, !.at = at]
<1>1. st \in Process /\ PInv(st) /\ st.at = "close" /\ denyMode' = denyMode BY OfOne DEF CloseLibraries
<1>4. procs' = [procs EXCEPT ![p] = t] BY DEF CloseLibraries, Set
<1>5. closed \in SUBSET Mods OBVIOUS
<1>6. mods \in Seq(ModRecs) /\ ClosedBy(st.mods, mods, closed)
  <2> HIDE DEF closed
  <2>1. Len(st.mods) \in Nat /\ DOMAIN st.mods = 1..Len(st.mods)
        /\ \A i \in 1..Len(st.mods) : st.mods[i] \in ModRecs
    BY <1>1, ElementOfSeq, ListFacts
  <2>2. \A i \in 1..Len(st.mods) : /\ mods[i] \in ModRecs
                                   /\ mods[i].id = st.mods[i].id
                                   /\ mods[i].abi => st.mods[i].abi /\ st.mods[i].id \notin closed
    BY <2>1 DEF ModRecs
  <2>3. mods \in [1..Len(st.mods) -> ModRecs] BY <2>1, <2>2
  <2> QED BY ZenonT(60), <2>1, <2>2, <2>3, SeqDef DEF ClosedBy
<1>7. t \in Process /\ PInv(t)
  <2>1. /\ at \in {"sanitize", "orig"}
        /\ st.req.kind = "app" => at = "sanitize"
        /\ at = "sanitize" => st.req.kind = "app"
    OBVIOUS
  <2> HIDE DEF closed, mods, at
  <2> QED BY <1>1, <1>5, <1>6, <2>1, CloseKeeps
<1>8. t.calls = st.calls BY <1>1 DEF Process
<1> HIDE DEF t
<1> QED BY <1>1, <1>4, <1>7, <1>8, QuietStep

LEMMA SanitizeStep ==
  ASSUME IInv, NEW p \in Procs, Sanitize(p)
  PROVE  Kept
<1> DEFINE st == procs[p]
<1>1. st \in Process /\ PInv(st) /\ st.at = "sanitize" /\ denyMode' = denyMode BY OfOne DEF Sanitize
<1>2. PICK enough \in BOOLEAN :
         LET kept == IF st.req.kind = "app" /\ enough THEN st.exempted ELSE {}
         IN  procs' = [procs EXCEPT ![p] =
                [st EXCEPT !.fds = @ \cap (st.atFork \cup IgnoreArg \cup kept),
                           !.ignore = @ \cup kept, !.at = "orig"]]
  BY DEF Sanitize, Set
<1> DEFINE kept == IF st.req.kind = "app" /\ enough THEN st.exempted ELSE {}
           t == [st EXCEPT !.fds = @ \cap (st.atFork \cup IgnoreArg \cup kept),
                           !.ignore = @ \cup kept, !.at = "orig"]
<1>3. t \in Process /\ PInv(t) /\ t.calls = st.calls
  <2>1. kept = IF st.req.kind = "app" /\ enough THEN st.exempted ELSE {} OBVIOUS
  <2> HIDE DEF kept
  <2> QED BY ZenonT(60), <1>1, <2>1, SanitizeKeeps
<1>4. procs' = [procs EXCEPT ![p] = t] BY <1>2
<1> HIDE DEF t
<1> QED BY <1>1, <1>3, <1>4, QuietStep

LEMMA OrigStep ==
  ASSUME IInv, NEW p \in Procs, Orig(p)
  PROVE  Kept
<1> DEFINE st == procs[p]
           t == AfterOrig(st)
<1>1. /\ st \in Process /\ PInv(st) /\ st.at = "orig" /\ denyMode' = denyMode
      /\ procs' = [procs EXCEPT ![p] = t]
  BY OfOne DEF Orig, Set
<1>2. t \in Process /\ PInv(t) /\ t.calls = st.calls BY <1>1, OrigKeeps
<1> QED BY <1>1, <1>2, QuietStep

LEMMA OrigForksStep ==
  ASSUME IInv, NEW p \in Procs, OrigForks(p)
  PROVE  Kept
<1> DEFINE st == procs[p]
           own == AfterOrig([st EXCEPT !.side = "parent"])
           other == AfterOrig([st EXCEPT !.side = "child", !.again = TRUE])
<1>1. /\ st \in Process /\ PInv(st) /\ st.at = "orig" /\ st.req.kind # "usap" /\ ~NoSecondFork(st)
      /\ denyMode' = denyMode
  BY OfOne DEF OrigForks
<1>2. PICK at \in {"post", "tail"} :
         (st.run = TRUE /\ at = "post") \/ (st.run = FALSE /\ at = "tail")
  BY <1>1 DEF Process
<1>3. PICK again \in BOOLEAN : again = st.again BY <1>1 DEF Process
<1>4. own = [st EXCEPT !.side = "parent", !.again = again, !.at = at, !.k = 1]
  BY <1>1, <1>2, <1>3 DEF AfterOrig, Process
<1>5. other = [st EXCEPT !.side = "child", !.again = TRUE, !.at = at, !.k = 1]
  BY <1>1, <1>2 DEF AfterOrig, Process
<1>6. own \in Process /\ PInv(own) /\ own.calls = st.calls
  <2>1. "parent" \in {"parent", "child"} OBVIOUS
  <2> HIDE DEF own
  <2> QED BY <1>1, <1>2, <1>4, <2>1, OrigForksKeeps
<1>7. other \in Process /\ PInv(other) /\ other.calls = st.calls
  <2>1. "child" \in {"parent", "child"} /\ TRUE \in BOOLEAN OBVIOUS
  <2> HIDE DEF other
  <2> QED BY <1>1, <1>2, <1>5, <2>1, OrigForksKeeps
<1>8. \/ \E c \in Kids : Free(c) /\ procs' = [procs EXCEPT ![p] = own, ![c] = other]
      \/ procs' = [procs EXCEPT ![p] = own]
  BY DEF OrigForks, Set
<1> HIDE DEF own, other
<1>9. ASSUME NEW c \in Kids, Free(c), procs' = [procs EXCEPT ![p] = own, ![c] = other] PROVE Kept
  <2>1. c \in Procs /\ procs[c].at = "absent" /\ c # p BY <1>1, <1>9, ProcsFacts DEF Free
  <2> QED BY <1>1, <1>6, <1>7, <1>9, <2>1, TwoSteps
<1>10. CASE procs' = [procs EXCEPT ![p] = own] BY <1>1, <1>6, <1>10, QuietStep
<1> QED BY <1>8, <1>9, <1>10

LEMMA RunPostStep ==
  ASSUME IInv, NEW p \in Procs, RunPost(p)
  PROVE  Kept
<1> DEFINE st == procs[p]
<1>1. st \in Process /\ PInv(st) /\ st.at = "post" /\ denyMode' = denyMode BY OfOne DEF RunPost
<1>2. Len(st.mods) \in Nat /\ st.k \in Nat BY <1>1, ListFacts
<1>6. PICK v : /\ procs' = [procs EXCEPT ![p] = v]
               /\ v = IF st.k > Len(st.mods) THEN [st EXCEPT !.at = "tail"]
                      ELSE IF st.mods[st.k].abi THEN Called(st, "post")
                      ELSE [st EXCEPT !.k = @ + 1]
  BY DEF RunPost, Set
<1>3. CASE st.k > Len(st.mods)
  <2> DEFINE t == [st EXCEPT !.at = "tail"]
  <2>1. t \in Process /\ PInv(t) /\ t.calls = st.calls BY <1>1, PostEndsKeeps
  <2>6. v = t BY <1>3, <1>6
  <2>2. procs' = [procs EXCEPT ![p] = t] BY <1>6, <2>6
  <2> HIDE DEF t
  <2> QED BY <1>1, <2>1, <2>2, QuietStep
<1>4. CASE st.k <= Len(st.mods) /\ st.mods[st.k].abi
  <2> DEFINE m == st.mods[st.k].id
             t == Called(st, "post")
  <2>1. /\ t \in Process /\ PInv(t) /\ t.calls = Append(st.calls, <<"post", m>>)
        /\ <<"post", m>> \notin ToSet(st.calls) /\ m \in t.libs /\ <<"pre", m>> \in ToSet(st.calls)
    BY SMTT(30), <1>1, <1>4, PostKeeps
  <2>6. v = t BY <1>2, <1>4, <1>6
  <2>2. procs' = [procs EXCEPT ![p] = t] BY <1>6, <2>6
  <2>3. m \in Mods BY <1>1, <1>2, <1>4, ListFacts
  <2> HIDE DEF t, m
  <2>4. Last(t.calls) = <<"post", m>>
    <3>1. st.calls \in Seq(Callbacks) /\ <<"post", m>> \in Callbacks BY <1>1, <2>3 DEF Process, Callbacks
    <3>2. Last(Append(st.calls, <<"post", m>>)) = <<"post", m>> BY <3>1, LastAppended
    <3> QED BY <2>1, <3>2
  <2>5. CallStep(st, t)
    <3>1. Last(t.calls)[2] = m BY <2>4
    <3> QED BY <2>1, <2>4, <3>1 DEF CallStep
  <2> QED BY <1>1, <2>1, <2>2, <2>5, OneStep
<1>5. CASE st.k <= Len(st.mods) /\ ~st.mods[st.k].abi
  <2> DEFINE t == [st EXCEPT !.k = @ + 1]
  <2>1. t \in Process /\ PInv(t) /\ t.calls = st.calls BY <1>1, <1>5, SkipKeeps
  <2>6. v = t BY <1>2, <1>5, <1>6
  <2>2. procs' = [procs EXCEPT ![p] = t] BY <1>6, <2>6
  <2> HIDE DEF t
  <2> QED BY <1>1, <2>1, <2>2, QuietStep
<1> QED BY <1>2, <1>3, <1>4, <1>5

LEMMA ReturnPlainStep ==
  ASSUME IInv, NEW p \in Procs, ReturnPlain(p)
  PROVE  Kept
<1> DEFINE st == procs[p]
           t == Returned(st)
<1>1. /\ st \in Process /\ PInv(st) /\ st.at = "tail" /\ denyMode' = denyMode
      /\ procs' = [procs EXCEPT ![p] = t]
  BY OfOne DEF ReturnPlain, Set
<1>2. t \in Process /\ PInv(t) /\ t.calls \in {st.calls, <<>>} BY <1>1, ReturnedKeeps
<1> HIDE DEF t
<1> QED BY <1>1, <1>2, QuietStep

LEMMA RestoreOnlyStep ==
  ASSUME IInv, NEW p \in Procs, RestoreOnly(p)
  PROVE  Kept
<1> DEFINE st == procs[p]
<1>1. st \in Process /\ PInv(st) /\ st.at = "tail" /\ denyMode' = denyMode BY OfOne DEF RestoreOnly
<1>2. PICK ok \in BOOLEAN, found \in BOOLEAN, commit \in BOOLEAN :
         procs' = [procs EXCEPT ![p] =
            Returned(IF st.req.cz THEN Reverted(st, ok) ELSE SelfUnhook(Reverted(st, ok), found, commit))]
  BY DEF RestoreOnly, Set
<1>3. PICK mounts \in BOOLEAN : mounts = (st.mounts /\ ~ok) OBVIOUS
<1> DEFINE clean == [st EXCEPT !.mounts = mounts]
<1>4. Reverted(st, ok) = clean BY <1>1, <1>3 DEF Reverted
<1>5. clean \in Process /\ PInv(clean) /\ clean.at = "tail"
  <2>1. clean \in Process /\ PInv(clean) BY <1>1, RevertedKeeps
  <2> QED BY <1>1, <2>1 DEF Process
<1>6. clean.calls = st.calls BY <1>1 DEF Process
<1> HIDE DEF clean
<1>7. ASSUME NEW u \in Process, PInv(u), u.at = "tail", u.calls = st.calls,
             procs' = [procs EXCEPT ![p] = Returned(u)]
      PROVE  Kept
  <2> DEFINE t == Returned(u)
  <2>1. t \in Process /\ PInv(t) /\ t.calls \in {u.calls, <<>>} BY <1>7, ReturnedKeeps
  <2>2. procs' = [procs EXCEPT ![p] = t] BY <1>7
  <2> HIDE DEF t
  <2> QED BY <1>1, <1>7, <2>1, <2>2, QuietStep
<1>8. CASE st.req.cz
  <2>1. procs' = [procs EXCEPT ![p] = Returned(clean)] BY <1>2, <1>4, <1>8
  <2> QED BY <1>5, <1>6, <1>7, <2>1
<1>9. CASE ~st.req.cz
  <2> DEFINE u == SelfUnhook(clean, found, commit)
  <2>1. procs' = [procs EXCEPT ![p] = Returned(u)] BY <1>2, <1>4, <1>9
  <2>2. u \in Process /\ PInv(u) /\ u.at = "tail" /\ u.calls = clean.calls
    BY <1>5, SelfUnhookKeeps DEF Unhooked
  <2> HIDE DEF u
  <2> QED BY <1>6, <1>7, <2>1, <2>2
<1> QED BY <1>8, <1>9

LEMMA SelfDestructStep ==
  ASSUME IInv, NEW p \in Procs, SelfDestruct(p)
  PROVE  Kept
<1> DEFINE st == procs[p]
<1>1. /\ st \in Process /\ PInv(st) /\ st.at = "tail" /\ st.dec = 2 /\ ~st.req.cz
      /\ denyMode' = denyMode
  BY OfOne DEF SelfDestruct
<1>2. PICK ok \in BOOLEAN, found \in BOOLEAN, commit \in BOOLEAN :
         LET bare == [SelfUnhook(st, found, commit) EXCEPT !.can = FullyInline(st)]
         IN  procs' = [procs EXCEPT ![p] =
                [(IF st.req.uid = "isolated" THEN bare ELSE Reverted(bare, ok)) EXCEPT !.at = "unmap"]]
  BY DEF SelfDestruct, Set
<1> DEFINE u == SelfUnhook(st, found, commit)
<1>12. u \in Process /\ PInv(u) /\ Unhooked(st, u) BY <1>1, SelfUnhookKeeps
<1> HIDE DEF u
<1>3. /\ u \in Process /\ PInv(u) /\ u.at = "tail" /\ u.req = st.req /\ u.dec = st.dec
      /\ u.inline = {}
      /\ st.table = {} => u.table = {}
      /\ u.commitOk => u.plt \cap {"strdup", "fork"} = {}
  BY <1>12 DEF Unhooked
<1>4. u.calls = st.calls BY <1>12 DEF Unhooked
<1>5. PICK can \in BOOLEAN : can = FullyInline(st) /\ (can = TRUE => st.table = {})
  BY DEF FullyInline
<1>6. can = TRUE => Bare(u) BY <1>3, <1>5 DEF Bare
<1>7. PICK mounts \in BOOLEAN : mounts = IF st.req.uid = "isolated" THEN u.mounts ELSE u.mounts /\ ~ok
  BY <1>3 DEF Process
<1> DEFINE t == [u EXCEPT !.can = can, !.mounts = mounts, !.at = "unmap"]
<1>8. procs' = [procs EXCEPT ![p] = t]
  <2>1. CASE st.req.uid = "isolated"
    <3>1. procs' = [procs EXCEPT ![p] = [u EXCEPT !.can = can, !.at = "unmap"]]
      BY <1>2, <1>3, <1>5, <2>1 DEF u, Process
    <3>2. t = [u EXCEPT !.can = can, !.at = "unmap"] BY <1>3, <1>7, <2>1 DEF Process
    <3> QED BY <3>1, <3>2
  <2>2. CASE st.req.uid # "isolated"
    <3>1. procs' = [procs EXCEPT ![p] = [Reverted([u EXCEPT !.can = can], ok) EXCEPT !.at = "unmap"]]
      BY <1>2, <1>5, <2>2 DEF u
    <3>2. t = [Reverted([u EXCEPT !.can = can], ok) EXCEPT !.at = "unmap"]
      BY <1>3, <1>7, <2>2 DEF Process, Reverted
    <3> QED BY <3>1, <3>2
  <2> QED BY <2>1, <2>2
<1>9. t \in Process /\ PInv(t)
  <2>1. ~u.req.cz /\ u.dec = 2 BY <1>1, <1>3
  <2> QED BY <1>3, <1>6, <2>1, SelfDestructKeeps
<1>10. t.calls = st.calls BY <1>3, <1>4 DEF Process
<1> HIDE DEF t
<1> QED BY <1>1, <1>8, <1>9, <1>10, QuietStep

LEMMA UnmapSelfStep ==
  ASSUME IInv, NEW p \in Procs, UnmapSelf(p)
  PROVE  Kept
<1> DEFINE st == procs[p]
           u == Returned(st)
<1>1. st \in Process /\ PInv(st) /\ st.at = "unmap" /\ denyMode' = denyMode BY OfOne DEF UnmapSelf
<1>2. PICK range \in BOOLEAN : procs' = [procs EXCEPT ![p] = [u EXCEPT !.core = ~(st.can /\ range)]]
  BY DEF UnmapSelf, Set
<1>3. /\ u \in Process /\ PInv(u) /\ u.at \in {"idle", "app"} /\ u.calls \in {st.calls, <<>>}
      /\ u.inline = st.inline /\ u.table = st.table /\ u.plt = st.plt /\ u.commitOk = st.commitOk
  BY <1>1, ReturnedKeeps
<1> HIDE DEF u
<1>4. PICK core \in BOOLEAN : core = ~(st.can /\ range) OBVIOUS
<1>5. core = FALSE => Bare(u) BY <1>1, <1>3, <1>4 DEF PInv, CoreInv, Bare
<1> DEFINE t == [u EXCEPT !.core = core]
<1>6. t \in Process /\ PInv(t) BY <1>3, <1>5, UnmappedKeeps
<1>7. t.calls = u.calls BY <1>3 DEF Process
<1>8. procs' = [procs EXCEPT ![p] = t] BY <1>2, <1>4
<1> HIDE DEF t
<1> QED BY <1>1, <1>3, <1>6, <1>7, <1>8, QuietStep

LEMMA ExitStep ==
  ASSUME IInv, NEW p \in Procs, Exit(p)
  PROVE  Kept
<1>2. Blank \in Process /\ PInv(Blank) BY BlankItself
<1>3. Blank.calls = <<>> BY DEF Blank
<1>4. procs' = [procs EXCEPT ![p] = Blank] /\ denyMode' = denyMode BY DEF Exit, Set
<1> HIDE DEF Blank
<1> QED BY <1>2, <1>3, <1>4, QuietStep

LEMMA Inductive == IInv /\ [Next]_vars => Kept
<1> SUFFICES ASSUME IInv, [Next]_vars PROVE Kept OBVIOUS
<1>1. CASE Bootstrap BY <1>1, BootstrapStep
<1>2. CASE ReachZygoteInit BY <1>2, ReachStep
<1>3. CASE ForkServer BY <1>3, ForkServerStep
<1>4. CASE ForkUsap BY <1>4, ForkUsapStep
<1>5. ASSUME NEW p \in Procs, Request(p) PROVE Kept
  BY <1>5, ForkAppStep, SpecializeStep DEF Request
<1>6. ASSUME NEW p \in Procs, Advance(p) PROVE Kept
  <2>1. CASE ForkedDecision(p) BY <2>1, ForkedDecisionStep
  <2>2. CASE DropInherited(p) BY <2>2, DropStep
  <2>3. CASE LoadModule(p) BY <2>3, LoadModuleStep
  <2>4. CASE LoadEnds(p) BY <2>4, LoadEndsStep
  <2>5. CASE RunPre(p) BY <2>5, RunPreStep
  <2>6. CASE CloseLibraries(p) BY <2>6, CloseStep
  <2>7. CASE Sanitize(p) BY <2>7, SanitizeStep
  <2>8. CASE Orig(p) BY <2>8, OrigStep
  <2>9. CASE OrigForks(p) BY <2>9, OrigForksStep
  <2>10. CASE RunPost(p) BY <2>10, RunPostStep
  <2>11. CASE ReturnPlain(p) BY <2>11, ReturnPlainStep
  <2>12. CASE RestoreOnly(p) BY <2>12, RestoreOnlyStep
  <2>13. CASE SelfDestruct(p) BY <2>13, SelfDestructStep
  <2>14. CASE UnmapSelf(p) BY <2>14, UnmapSelfStep
  <2> QED
    BY <1>6, <2>1, <2>2, <2>3, <2>4, <2>5, <2>6, <2>7, <2>8, <2>9, <2>10, <2>11, <2>12, <2>13, <2>14
    DEF Advance
<1>7. ASSUME NEW p \in Procs, Exit(p) PROVE Kept BY <1>7, ExitStep
<1>8. CASE UNCHANGED vars
  <2>1. procs' = procs /\ denyMode' = denyMode BY <1>8 DEF vars
  <2>2. IInv' BY <2>1 DEF IInv, TypeOK
  <2>3. \A p \in Procs : CallStep(procs[p], procs'[p])
    <3> TAKE p \in Procs
    <3>1. procs[p] \in Process /\ procs'[p] = procs[p] BY <2>1, OfOne
    <3> QED BY <3>1, NoCall
  <2> QED BY <2>2, <2>3 DEF Kept
<1> QED BY <1>1, <1>2, <1>3, <1>4, <1>5, <1>6, <1>7, <1>8 DEF Next

-----------------------------------------------------------------------------
(* What follows of every behaviour.                                         *)

\* The invariant holds, the types of the variables with it: what fork, the
\* wrappers and zygisk_self_destruct make of a process.
THEOREM Invariant == Spec => []IInv
<1>1. Init => IInv BY Initially
<1>2. IInv /\ [Next]_vars => IInv' BY Inductive DEF Kept
<1> QED BY <1>1, <1>2, PTL DEF Spec

\* The parent of a fork goes back to the zygote's loop as it was: no module,
\* no callback and no descriptor of the child's is in it (new_fork, ctx_fork_pre).
THEOREM ZygoteCleanHolds == Spec => []ZygoteClean
<1>1. IInv => ZygoteClean BY DEF IInv, PInv, CleanInv, Pristine, Untouched, ZygoteClean
<1> QED BY <1>1, Invariant, PTL

\* What the denylist asks for is done to every process of an app, until the
\* end of the wrapper (forked_decision, zygisk_inject_decision).
THEOREM DenylistHonouredHolds == Spec => []DenylistHonoured
<1>1. IInv => DenylistHonoured
  <2> SUFFICES ASSUME IInv PROVE DenylistHonoured OBVIOUS
  <2>1. \A p \in Kids : procs[p] \in Process /\ DenyInv(procs[p]) BY OfOne, ProcsFacts DEF PInv
  <2> QED BY <2>1 DEF DenyInv, Decided, DenylistHonoured
<1> QED BY <1>1, Invariant, PTL

\* The original method finds open what the zygote had and what it is told to
\* ignore, no more and no less (ctx_sanitize_fds, close_inherited_module_fds).
THEOREM FdsCleanHolds == Spec => []FdsClean
<1>1. IInv => FdsClean
  <2> SUFFICES ASSUME IInv PROVE FdsClean OBVIOUS
  <2>1. \A p \in Kids : FdsInv(procs[p]) BY OfOne, ProcsFacts DEF PInv
  <2> QED BY <2>1 DEF FdsInv, FdsClean
<1> QED BY <1>1, Invariant, PTL

\* Once the core is unmapped nothing it patched leads to it, unless the commit
\* of the PLT hooks failed (zygisk_self_destruct, yz_self_unmap_tail).
THEOREM NothingReachesCoreHolds == Spec => []NothingReachesCore
<1>1. IInv => NothingReachesCore
  <2> SUFFICES ASSUME IInv PROVE NothingReachesCore OBVIOUS
  <2>1. \A p \in Procs : CoreInv(procs[p]) BY OfOne DEF PInv
  <2> QED BY <2>1 DEF CoreInv, Bare, NothingReachesCore
<1> QED BY <1>1, Invariant, PTL

\* Every module is called back at most once per place, after the original
\* method only if it was called before it, and while it is mapped
\* (load_modules_impl, run_app_pre_impl, run_app_post_impl).
THEOREM CallsSoundHolds == Spec => CallsSound
<1>1. IInv /\ [Next]_vars =>
        [\A p \in Procs :
          LET old == procs[p].calls
              new == procs'[p].calls
          IN  Len(new) = Len(old) + 1 /\ procs[p].at # "absent" =>
                LET call == Last(new)
                IN  /\ call \notin ToSet(old)
                    /\ call[2] \in procs'[p].libs
                    /\ call[1] = "post" => <<"pre", call[2]>> \in ToSet(old)]_vars
  BY Inductive DEF Kept, CallStep
<1> QED BY <1>1, Invariant, PTL DEF Spec, CallsSound

=============================================================================

----------------------------- MODULE KernelTextProofs -----------------------
(***************************************************************************)
(* The two components that change what the running kernel executes: proofs *)
(* about PatchText (how a word of it is written) and SyscallRedirect (the  *)
(* table entries, probes and marks).  They are two specifications; this    *)
(* module only keeps their proofs together.                                *)
(***************************************************************************)
EXTENDS PatchText, SyscallRedirect, FiniteSetTheorems, SequenceTheorems, TLAPS

-----------------------------------------------------------------------------
(***************************************************************************)
(* PatchText, for every number of CPUs, every length and every content.    *)
(*                                                                         *)
(* The argument: a call goes through three stages, gathering (the counter  *)
(* is the number of CPUs that have arrived), copying (the counter is the   *)
(* number of CPUs, one of them copies, the others spin) and leaving (it is *)
(* one more).  PatchIInv says in which stage each CPU can be where.        *)
(***************************************************************************)

\* The number of CPUs.
LEMMA SomeCpus == N \in Nat /\ N >= 1 /\ N + 1 \in Nat
<1>1. Cardinality(Cpus) \in Nat
  BY FS_CardinalityType, PatchAssumption
<1>2. Cardinality(Cpus) # 0
  BY FS_EmptySet, PatchAssumption
<1> QED  BY <1>1, <1>2 DEF N

\* A CPU that counts itself in completes the gathering exactly when the
\* counter reaches the number of CPUs.
LEMMA ArriveCounts ==
  ASSUME NEW A \in SUBSET Cpus, NEW c \in Cpus \ A
  PROVE  /\ Cardinality(A) \in Nat
         /\ Cardinality(A) + 1 <= N
         /\ Cardinality(A \cup {c}) = Cardinality(A) + 1
         /\ A \cup {c} = Cpus <=> Cardinality(A) + 1 = N
<1>1. IsFiniteSet(A)
  BY FS_Subset, PatchAssumption
<1>2. Cardinality(A) \in Nat
  BY <1>1, FS_CardinalityType
<1>3. Cardinality(A \cup {c}) = Cardinality(A) + 1
  BY <1>1, FS_AddElement
<1>4. A \cup {c} \in SUBSET Cpus
  OBVIOUS
<1>5. /\ Cardinality(A \cup {c}) <= Cardinality(Cpus)
      /\ Cardinality(Cpus) = Cardinality(A \cup {c}) => Cpus = A \cup {c}
  BY <1>4, FS_Subset, PatchAssumption
<1> QED  BY <1>2, <1>3, <1>5 DEF N

\* The initial states satisfy the invariant.
LEMMA PatchInitially == PatchInit => PatchIInv
<1> SUFFICES ASSUME PatchInit PROVE PatchIInv
  OBVIOUS
<1>1. PatchTypeOK
  <2>1. 0 \in 0..N + 1  BY SomeCpus
  <2>2. info \in [src : Values, count : 0..N + 1, active : BOOLEAN]
    BY <2>1, PatchAssumption DEF PatchInit, NoPatch
  <2>3. text \in [Words -> Values] /\ before \in [Words -> Values]
    BY PatchAssumption DEF PatchInit, Content
  <2> QED  BY <2>2, <2>3 DEF PatchInit, PatchTypeOK
<1>2. Whole(before) /\ Whole(text)
  BY PatchAssumption DEF PatchInit, Whole
<1>3. Arrived = {} /\ ~info.active
  BY DEF PatchInit, Arrived, NoPatch
<1> QED  BY <1>1, <1>2, <1>3 DEF PatchIInv

\* Each step of a call keeps the invariant.
LEMMA CallStep ==
  ASSUME PatchIInv, NEW v \in Values, PatchCall(v)
  PROVE  PatchIInv'
<1> USE DEF PatchCall
<1>1. PatchTypeOK'
  <2>1. 0 \in 0..N + 1 BY SomeCpus
  <2>2. info' \in [src : Values, count : 0..N + 1, active : BOOLEAN] BY <2>1
  <2> QED BY <2>2 DEF PatchIInv, PatchTypeOK
<1>2. Whole(before)' BY DEF PatchIInv, Whole
<1>3. Arrived' = {} BY DEF PatchIInv, Arrived
<1>4. Gathering'
  <2>1. Cardinality({}) = 0 BY FS_EmptySet
  <2>2. info'.count = 0 OBVIOUS
  <2> QED BY <1>3, <2>1, <2>2, PatchAssumption DEF Gathering
<1>5. info'.active OBVIOUS
<1> QED BY <1>1, <1>2, <1>4, <1>5 DEF PatchIInv

\* Arrive: one more CPU is counted, and at most one finds itself the last.
LEMMA ArriveStep ==
  ASSUME PatchIInv, NEW c \in Cpus, Arrive(c)
  PROVE  PatchIInv'
<1> USE DEF Arrive
<1>1. Gathering
  <2>1. ~Leaving BY DEF Leaving
  <2>2. ASSUME NEW d \in Cpus, Copying(d) PROVE FALSE BY <2>2 DEF Copying
  <2> QED BY <2>1, <2>2 DEF PatchIInv
<1>2. Arrived \in SUBSET Cpus /\ c \in Cpus \ Arrived BY DEF Arrived
<1>3. Arrived' = Arrived \cup {c} BY DEF Arrived, PatchIInv, PatchTypeOK
<1>4. /\ info.count \in Nat /\ info.count + 1 <= N
      /\ Cardinality(Arrived') = info.count + 1
      /\ Arrived' = Cpus <=> info.count + 1 = N
  BY <1>1, <1>2, <1>3, ArriveCounts DEF Gathering
<1>5. /\ info'.count = info.count + 1 /\ info'.active /\ info'.src = info.src
      /\ info' \in [src : Values, count : 0..N + 1, active : BOOLEAN]
  BY <1>4, SomeCpus DEF PatchIInv, PatchTypeOK
<1>6. PatchTypeOK' BY <1>5 DEF PatchIInv, PatchTypeOK
<1>7. Whole(before)' BY DEF PatchIInv, Whole
<1>8. CASE info.count + 1 = N
  <2>1. pc' = [pc EXCEPT ![c] = "copy"] BY <1>8
  <2>2. \A d \in Cpus \ {c} : pc'[d] = "spin"
    <3>1. \A d \in Cpus \ {c} : d \in Arrived BY <1>3, <1>4, <1>8
    <3> QED BY <3>1, <2>1, <1>1 DEF Gathering, PatchIInv, PatchTypeOK
  <2>3. Copying(c)'
    BY <1>1, <1>5, <1>8, <2>1, <2>2 DEF Gathering, Copying, PatchIInv, PatchTypeOK
  <2> QED BY <1>5, <1>6, <1>7, <2>3 DEF PatchIInv
<1>9. CASE info.count + 1 # N
  <2>1. pc' = [pc EXCEPT ![c] = "spin"] BY <1>9
  <2>2. \A d \in Arrived' : pc'[d] = "spin"
    BY <1>1, <1>3, <2>1 DEF Gathering, PatchIInv, PatchTypeOK, Arrived
  <2>3. Gathering'
    BY <1>1, <1>4, <1>5, <1>9, <2>2 DEF Gathering
  <2> QED BY <1>5, <1>6, <1>7, <2>3 DEF PatchIInv
<1> QED BY <1>8, <1>9

\* Only the last CPU to arrive is past the counter, and then all are stopped.
LEMMA CopierAlone ==
  ASSUME PatchIInv, NEW c \in Cpus, pc[c] = "copy"
  PROVE  info.active /\ Copying(c)
<1>1. info.active BY DEF PatchIInv, Arrived
<1>2. ~Gathering BY DEF Gathering, Arrived
<1>3. ~Leaving BY DEF Leaving
<1>4. PICK d \in Cpus : Copying(d) BY <1>1, <1>2, <1>3 DEF PatchIInv
<1>5. c = d BY <1>4 DEF Copying
<1> QED BY <1>1, <1>4, <1>5

\* PatchFails and PatchDone: the copier lets the others go.
LEMMA PatchEndsStep ==
  ASSUME PatchIInv, NEW c \in Cpus, PatchFails(c) \/ PatchDone(c)
  PROVE  PatchIInv'
<1>1. pc[c] = "copy" /\ pc' = [pc EXCEPT ![c] = "left"]
      /\ info' = [info EXCEPT !.count = @ + 1] /\ UNCHANGED <<text, written, before>>
  BY DEF PatchFails, PatchDone
<1>2. info.active /\ Copying(c) BY <1>1, CopierAlone
<1>3. error' \in BOOLEAN BY DEF PatchIInv, PatchTypeOK, PatchFails, PatchDone
<1>4. info'.count = N + 1 /\ info'.active /\ info'.src = info.src
      /\ info' \in [src : Values, count : 0..N + 1, active : BOOLEAN]
  BY <1>1, <1>2, SomeCpus DEF Copying, PatchIInv, PatchTypeOK
<1>5. PatchTypeOK' BY <1>1, <1>3, <1>4 DEF PatchIInv, PatchTypeOK
<1>6. \A d \in Cpus : pc'[d] \in {"spin", "left"}
  BY <1>1, <1>2 DEF Copying, PatchIInv, PatchTypeOK
<1>7. text' = IF error' THEN before' ELSE Content(info'.src)
  <2>1. CASE PatchFails(c)
    <3>1. error' /\ written = {} BY <2>1 DEF PatchFails
    <3>2. \A w \in Words : text[w] = before[w] BY <1>2, <3>1 DEF Copying
    <3>3. text = before BY <3>2 DEF PatchIInv, PatchTypeOK
    <3> QED BY <1>1, <3>1, <3>3
  <2>2. CASE PatchDone(c)
    <3>1. written = Words /\ ~error' BY <2>2, <1>2 DEF PatchDone, Copying
    <3>2. \A w \in Words : text[w] = info.src BY <1>2, <3>1 DEF Copying
    <3>3. text = Content(info.src) BY <3>2 DEF PatchIInv, PatchTypeOK, Content
    <3> QED BY <1>1, <1>4, <3>1, <3>3
  <2> QED BY <2>1, <2>2
<1>8. Leaving' BY <1>4, <1>6, <1>7 DEF Leaving, Content
<1>9. Whole(before)' BY <1>1 DEF PatchIInv, Whole
<1> QED BY <1>4, <1>5, <1>8, <1>9 DEF PatchIInv

\* Copy: words change only while every CPU is in the callback.
LEMMA CopyStep ==
  ASSUME PatchIInv, NEW c \in Cpus, NEW w \in Words, Copy(c, w)
  PROVE  PatchIInv'
<1> USE DEF Copy
<1>1. info.active /\ Copying(c) BY CopierAlone
<1>2. PatchTypeOK' BY DEF PatchIInv, PatchTypeOK
<1>3. Copying(c)' BY <1>1 DEF Copying, PatchIInv, PatchTypeOK
<1>4. Whole(before)' BY DEF PatchIInv, Whole
<1> QED BY <1>1, <1>2, <1>3, <1>4 DEF PatchIInv

\* A CPU that leaves has seen the extra count.
LEMMA LeaveStep ==
  ASSUME PatchIInv, NEW c \in Cpus, Leave(c)
  PROVE  PatchIInv'
<1> USE DEF Leave
<1>1. info.active BY DEF PatchIInv, Arrived
<1>2. Leaving
  <2>1. info.count \in Nat BY SomeCpus DEF PatchIInv, PatchTypeOK
  <2>2. ~Gathering
    <3> SUFFICES ASSUME Gathering PROVE FALSE OBVIOUS
    <3>1. PICK d \in Cpus : d \notin Arrived BY DEF Gathering, Arrived
    <3>2. Arrived \in SUBSET Cpus BY DEF Arrived
    <3>3. info.count + 1 <= N BY <3>1, <3>2, ArriveCounts DEF Gathering
    <3> QED BY <3>3, <2>1, SomeCpus
  <2>3. \A d \in Cpus : ~Copying(d) BY <2>1, SomeCpus DEF Copying
  <2> QED BY <1>1, <2>2, <2>3 DEF PatchIInv
<1>3. PatchTypeOK' BY DEF PatchIInv, PatchTypeOK
<1>4. Leaving' BY <1>2 DEF Leaving, PatchIInv, PatchTypeOK, Content
<1>5. Whole(before)' BY DEF PatchIInv, Whole
<1> QED BY <1>1, <1>3, <1>4, <1>5 DEF PatchIInv

\* When stop_machine returns, the memory is whole again.
LEMMA AllLeft ==
  ASSUME PatchIInv, info.active, NEW c \in Cpus, pc[c] = "left"
  PROVE  Leaving
BY DEF PatchIInv, Gathering, Copying, Arrived

\* Once the CPUs leave, the text is whole.
LEMMA LeavingIsWhole ==
  ASSUME PatchIInv, Leaving
  PROVE  Whole(text)
BY DEF PatchIInv, PatchTypeOK, Leaving, Whole

\* Return: the caller goes on once every CPU has left.
LEMMA ReturnStep ==
  ASSUME PatchIInv, Return
  PROVE  PatchIInv'
<1> USE DEF Return
<1>1. PICK c \in Cpus : pc[c] = "left" BY PatchAssumption
<1>2. Whole(text) BY <1>1, AllLeft, LeavingIsWhole
<1>3. PatchTypeOK' BY DEF PatchIInv, PatchTypeOK
<1>4. Arrived' = {} BY DEF Arrived
<1>5. Whole(before)' /\ Whole(text)' BY <1>2 DEF PatchIInv, Whole
<1>6. ~info'.active BY DEF PatchIInv, PatchTypeOK
<1> QED BY <1>3, <1>4, <1>5, <1>6 DEF PatchIInv

\* Nothing is lost where nothing happens.
LEMMA StutterStep ==
  ASSUME PatchIInv, UNCHANGED patchVars
  PROVE  PatchIInv'
BY DEF PatchIInv, PatchTypeOK, Whole, Arrived, Gathering, Copying, Leaving, Content, patchVars

\* Every step keeps the invariant.
LEMMA PatchInductive == PatchIInv /\ [PatchNext]_patchVars => PatchIInv'
<1> SUFFICES ASSUME PatchIInv, [PatchNext]_patchVars PROVE PatchIInv'
  OBVIOUS
<1>1. CASE Return BY <1>1, ReturnStep
<1>2. ASSUME NEW v \in Values, PatchCall(v) PROVE PatchIInv' BY <1>2, CallStep
<1>3. ASSUME NEW c \in Cpus, Callback(c) PROVE PatchIInv'
  BY <1>3, ArriveStep, PatchEndsStep, LeaveStep, CopyStep DEF Callback
<1>4. CASE UNCHANGED patchVars BY <1>4, StutterStep
<1> QED BY <1>1, <1>2, <1>3, <1>4 DEF PatchNext

\* At any time the words of the text, the count of the CPUs and where each CPU
\* is in the callback are related as PatchIInv says.
THEOREM PatchInvariant == PatchSpec => []PatchIInv
BY PatchInitially, PatchInductive, PTL DEF PatchSpec

-----------------------------------------------------------------------------
\* Each CPU is at a defined point of tamisu_patch_text_cb, and the counter
\* never exceeds the number of CPUs by more than one.
THEOREM PatchTypeCorrect == PatchSpec => []PatchTypeOK
<1>1. PatchIInv => PatchTypeOK BY DEF PatchIInv
<1> QED BY PatchInvariant, <1>1, PTL

\* No CPU that executes kernel code reads a half-written table entry.
THEOREM NeverTorn == PatchSpec => []NoTornText
<1>1. PatchIInv => NoTornText
  <2> SUFFICES ASSUME PatchIInv, Executing # {} PROVE Whole(text)
    BY DEF NoTornText, Whole
  <2>1. PICK c \in Cpus : pc[c] \in {"run", "left"} BY DEF Executing
  <2>2. CASE ~info.active BY <2>2 DEF PatchIInv
  <2>3. CASE info.active /\ pc[c] = "left" BY <2>3, AllLeft, LeavingIsWhole
  <2>4. CASE info.active /\ pc[c] = "run"
    <3>1. Gathering BY <2>4 DEF PatchIInv, Copying, Leaving
    <3> QED BY <3>1 DEF Gathering, PatchIInv, Whole
  <2> QED BY <2>1, <2>2, <2>3, <2>4
<1> QED BY PatchInvariant, <1>1, PTL

\* The memory changes only under the hands of the last CPU to arrive, while
\* all the others spin in the callback.
THEOREM WrittenWhileStopped == PatchSpec => StoppedWhileWritten
<1>1. PatchIInv /\ [PatchNext]_patchVars =>
        (text' # text => \E c \in Cpus : pc[c] = "copy" /\ \A d \in Cpus \ {c} : pc[d] = "spin")
  <2> SUFFICES ASSUME PatchIInv, [PatchNext]_patchVars, text' # text
               PROVE  \E c \in Cpus : pc[c] = "copy" /\ \A d \in Cpus \ {c} : pc[d] = "spin"
    OBVIOUS
  <2>1. PICK c \in Cpus, w \in Words : Copy(c, w)
    BY DEF PatchNext, Callback, PatchCall, Arrive, PatchFails, PatchDone, Leave, Return, patchVars
  <2>2. pc[c] = "copy" BY <2>1 DEF Copy
  <2>3. Copying(c) BY <2>2, CopierAlone
  <2> QED BY <2>2, <2>3 DEF Copying
<1>2. PatchIInv /\ [PatchNext]_patchVars =>
        [text' # text => \E c \in Cpus : pc[c] = "copy" /\ \A d \in Cpus \ {c} : pc[d] = "spin"]_patchVars
  BY <1>1
<1> QED BY PatchInvariant, <1>2, PTL DEF PatchSpec, StoppedWhileWritten

\* A call that reports success has written everything, one that reports an
\* error has written nothing.
THEOREM TrueResult == PatchSpec => ResultIsTrue
<1>1. PatchIInv /\ [PatchNext]_patchVars =>
        (info.active /\ ~info'.active => text' = IF error THEN before ELSE Content(info.src))
  <2> SUFFICES ASSUME PatchIInv, [PatchNext]_patchVars, info.active, ~info'.active
               PROVE  text' = IF error THEN before ELSE Content(info.src)
    OBVIOUS
  <2>1. Return
    BY DEF PatchNext, Callback, PatchCall, Arrive, PatchFails, PatchDone, Leave, Copy, patchVars, PatchIInv, PatchTypeOK
  <2>2. PICK c \in Cpus : pc[c] = "left" BY <2>1, PatchAssumption DEF Return
  <2>3. Leaving BY <2>2, AllLeft
  <2> QED BY <2>1, <2>3 DEF Leaving, Return
<1>2. PatchIInv /\ [PatchNext]_patchVars =>
        [info.active /\ ~info'.active => text' = IF error THEN before ELSE Content(info.src)]_patchVars
  BY <1>1
<1> QED BY PatchInvariant, <1>2, PTL DEF PatchSpec, ResultIsTrue

-----------------------------------------------------------------------------
(***************************************************************************)
(* SyscallRedirect, for any tasks and any number of calls, tracers coming  *)
(* and going, and mark refreshes.                                          *)
(***************************************************************************)

-----------------------------------------------------------------------------
(* The invariant.                                                           *)

\* The phases in which a call may have been redirected.
Later == {"probe", "on", "probe_off", "marker_off", "route_off", "restored", "gone"}

\* What is in place in each phase.
LifeInv ==
    /\ phase = "off" => ~started /\ entries = <<>> /\ ~early
    /\ phase \in {"dispatcher", "marker", "route", "probe_off", "marker_off", "route_off"} => started
    /\ started /\ phase \in {"route", "probe", "on", "probe_off", "marker_off"} => route
    /\ started /\ phase \notin {"restored", "gone"} => dispNr
    /\ route \/ dispNr => started

\* hooked_entries holds, once, the kernel's function of every slot that was
\* changed.
EntriesInv ==
    /\ \A i \in DOMAIN entries : entries[i].orig = Kernel[entries[i].nr]
    /\ \A i, j \in DOMAIN entries : entries[i].nr = entries[j].nr => i = j
    /\ \A s \in Slots : table[s] # Kernel[s] => Hooked(s)

\* The dispatcher stays in its slot as long as calls are sent to it.
TableInv ==
    /\ table["execve"] = Kernel["execve"]
    /\ table["read"] \in {Kernel["read"], "tamisu_sys_read"}
    /\ table["spare"] \in {Kernel["spare"], "dispatcher"}
    /\ started /\ phase \in {"restored", "gone"} => entries = <<>>
    /\ started /\ phase \notin {"route_off", "restored", "gone"} => table["spare"] = "dispatcher"

\* The number in a task's registers is its own, save on the way of an execve
\* to the dispatcher.
Redirected(t) == calls[t].nr = "execve" /\ calls[t].no = "spare"
CallInv ==
    /\ kind[InitTask] = "init"
    /\ \A t \in Tasks :
          /\ calls[t].no = calls[t].nr \/ Redirected(t)
          /\ calls[t].nr = "execve" /\ calls[t].at # "user" => kind[t] = "child"
          /\ Redirected(t) /\ calls[t].at # "user" =>
                calls[t].at \in {"table", "dispatcher"} /\ started /\ phase \in Later
          /\ calls[t].at = "dispatcher" => calls[t].no = "spare"
          /\ calls[t].at = "tamisu_sys_read" => calls[t].nr = "read" /\ calls[t].no = "read"
          /\ calls[t].at \in {"hook", "tail"} => calls[t].nr = "execve" /\ calls[t].no = "execve"
          /\ calls[t].at \in {"hook", "tail"} \/ calls[t].seen => started /\ phase \in Later
          /\ calls[t].seen => calls[t].at = "tail" \/ kind[t] \in {"zygote", "service"}
          /\ calls[t].at = "user" /\ calls[t].answer = "real" =>
                calls[t].no = calls[t].nr /\ calls[t].nr # "spare"
          /\ calls[t].at = "user" /\ calls[t].answer = "ENOSYS" =>
                calls[t].nr = "spare" \/ (calls[t].nr = "execve" /\ phase \in {"route_off", "restored", "gone"})

\* The count is that of the tracepoints in use, less those in use before the
\* module came.
CountInv ==
    /\ phase \in {"off", "dispatcher"} => regCount = 0
    /\ KretprobesOn => \E base \in 0..2 : regCount = Cardinality(Enabled) - base
    /\ KretprobesOn /\ ~early => regCount = Cardinality(Enabled)

\* A task on its way to become a zygote through the dispatcher.
ToZygote(t) ==
    /\ calls[t].nr = "execve" /\ calls[t].path = "zygote" /\ calls[t].at # "user"
    /\ calls[t].no = "spare" \/ calls[t].at \in {"hook", "tail"}

MarkInv ==
    ProbeOn /\ ~early =>
        /\ InitTask \in mark
        /\ "sys_exit" \in others => Live \subseteq mark
        /\ \A t \in Tasks : (kind[t] = "zygote" /\ calls[t].seen) \/ ToZygote(t) => t \in mark \cup swept

IInv == TypeOK /\ LifeInv /\ EntriesInv /\ TableInv /\ CallInv /\ CountInv /\ MarkInv

-----------------------------------------------------------------------------
(* Phases and counts.                                                       *)

USE DEF module, tracing, Slots, Tracepoints

\* The phases one by one, for the order in which they come.
LEMMA PhaseFacts ==
  ASSUME \E i \in DOMAIN Phases : phase = Phases[i]
  PROVE  /\ phase \in {"off", "dispatcher", "marker", "route", "probe", "on",
                       "probe_off", "marker_off", "route_off", "restored", "gone"}
         /\ Reached("marker") <=> phase \notin {"off", "dispatcher"}
         /\ Reached("marker_off") <=> phase \in {"marker_off", "route_off", "restored", "gone"}
         /\ Reached("route_off") <=> phase \in {"route_off", "restored", "gone"}
BY DEF Phases, Reached

\* The phases in which the kretprobes are registered.
LEMMA KretprobesWhen ==
  ASSUME \E i \in DOMAIN Phases : phase = Phases[i]
  PROVE  KretprobesOn <=> started /\ phase \in {"marker", "route", "probe", "on", "probe_off"}
BY PhaseFacts DEF KretprobesOn

\* Counting two tracepoints.
LEMMA Tracers ==
  ASSUME NEW S, S \subseteq Tracepoints
  PROVE  /\ Cardinality(S) \in 0..2
         /\ Cardinality(S) = 0 <=> S = {}
         /\ "sys_enter" \in S /\ "sys_exit" \in S => Cardinality(S) = 2
         /\ "sys_enter" \in S /\ "sys_exit" \notin S => Cardinality(S) = 1
         /\ \A tp \in Tracepoints \ S : Cardinality(S \cup {tp}) = Cardinality(S) + 1
         /\ \A tp \in S : Cardinality(S \ {tp}) = Cardinality(S) - 1
<1>1. /\ Cardinality({}) = 0 /\ Cardinality({"sys_enter"}) = 1 /\ Cardinality({"sys_exit"}) = 1
  BY FS_EmptySet, FS_Singleton
<1>2. Cardinality({"sys_enter", "sys_exit"}) = 2
  <2>1. IsFiniteSet({"sys_exit"})
    BY FS_Singleton
  <2>2. Cardinality({"sys_exit"} \cup {"sys_enter"}) = Cardinality({"sys_exit"}) + 1
    BY <2>1, FS_AddElement
  <2>3. {"sys_exit"} \cup {"sys_enter"} = {"sys_enter", "sys_exit"}
    OBVIOUS
  <2> QED  BY <1>1, <2>2, <2>3
<1>3. S = {} \/ S = {"sys_enter"} \/ S = {"sys_exit"} \/ S = {"sys_enter", "sys_exit"}
  OBVIOUS
<1>4. /\ {"sys_enter"} \cup {"sys_exit"} = {"sys_enter", "sys_exit"}
      /\ {"sys_exit"} \cup {"sys_enter"} = {"sys_enter", "sys_exit"}
      /\ {} \cup {"sys_exit"} = {"sys_exit"} /\ {} \cup {"sys_enter"} = {"sys_enter"}
      /\ {"sys_enter", "sys_exit"} \ {"sys_enter"} = {"sys_exit"}
      /\ {"sys_enter", "sys_exit"} \ {"sys_exit"} = {"sys_enter"}
      /\ {"sys_enter"} \ {"sys_enter"} = {} /\ {"sys_exit"} \ {"sys_exit"} = {}
  OBVIOUS
<1>5. CASE S = {}
  BY <1>1, <1>4, <1>5
<1>6. CASE S = {"sys_enter"}
  BY <1>1, <1>2, <1>4, <1>6
<1>7. CASE S = {"sys_exit"}
  BY <1>1, <1>2, <1>4, <1>7
<1>8. CASE S = {"sys_enter", "sys_exit"}
  BY <1>1, <1>2, <1>4, <1>8
<1> QED  BY <1>3, <1>5, <1>6, <1>7, <1>8

\* What a tracepoint that is taken or left does to the count and the marks.
LEMMA RegisteredStep ==
  ASSUME TypeOK, NEW refs \in 0..2, Registered(refs)
  PROVE  /\ mark' \in {mark, Live, OursOnly} /\ swept' \in {swept, swept \cup SweptNow}
         /\ regCount' = IF KretprobesOn THEN regCount + 1 ELSE regCount
         /\ KretprobesOn /\ regCount = 0 => mark' = OursOnly /\ swept' = swept \cup SweptNow
         /\ KretprobesOn /\ regCount = 1 => mark' = Live
BY DEF Registered, TypeOK

\* What unregistering a tracepoint of ours does to the count and the marks.
LEMMA UnregisteredStep ==
  ASSUME TypeOK, NEW refs \in 0..2, Unregistered(refs)
  PROVE  /\ mark' \in {mark, {}, OursOnly} /\ swept' \in {swept, swept \cup SweptNow}
         /\ regCount' = IF KretprobesOn THEN regCount - 1 ELSE regCount
         /\ KretprobesOn /\ regCount = 2 => mark' = OursOnly /\ swept' = swept \cup SweptNow
BY DEF Unregistered, TypeOK

-----------------------------------------------------------------------------
(* The steps of a task.                                                     *)

\* What a step makes of its task's call, the others keep.
Moved(t) == calls' \in [Tasks -> Call] /\ \A u \in Tasks : u # t => calls'[u] = calls[u]
Keeps(t) == /\ calls'[t].nr = calls[t].nr /\ calls'[t].path = calls[t].path
            /\ calls'[t].seen = calls[t].seen
Ends(t, answer) == /\ Moved(t) /\ Keeps(t) /\ calls'[t].no = calls[t].no
                   /\ calls'[t].at = "user" /\ calls'[t].answer = answer

\* A step of a task sets its call and leaves the other calls alone.
LEMMA Moves ==
  ASSUME TypeOK, NEW t \in Tasks, NEW c \in Call, Step(t, c)
  PROVE  Moved(t) /\ calls'[t] = c
BY DEF Step, Moved, TypeOK

\* A call that ends has its answer and keeps the number it had.
LEMMA Ended ==
  ASSUME TypeOK, NEW t \in Tasks, NEW a \in {"real", "ENOSYS"}, Step(t, Done(t, a))
  PROVE  Ends(t, a)
<1> DEFINE c == [calls[t] EXCEPT !.at = "user", !.answer = a]
<1>1. calls[t] \in Call
  BY DEF TypeOK
<1>2. /\ c \in Call /\ c.nr = calls[t].nr /\ c.path = calls[t].path /\ c.seen = calls[t].seen
      /\ c.no = calls[t].no /\ c.at = "user" /\ c.answer = a
  BY <1>1 DEF Call
<1>3. Step(t, c)
  BY DEF Done
<1> HIDE DEF c
<1> QED  BY <1>2, <1>3, Moves DEF Ends, Keeps

\* The call goes on elsewhere in the module's code.
LEMMA GoesOn ==
  ASSUME TypeOK, NEW t \in Tasks, NEW a \in {"dispatcher", "tamisu_sys_read"},
         Step(t, [calls[t] EXCEPT !.at = a])
  PROVE  Moved(t) /\ Keeps(t) /\ calls'[t].no = calls[t].no /\ calls'[t].at = a
<1> DEFINE c == [calls[t] EXCEPT !.at = a]
<1>1. calls[t] \in Call
  BY DEF TypeOK
<1>2. /\ c \in Call /\ c.nr = calls[t].nr /\ c.path = calls[t].path /\ c.seen = calls[t].seen
      /\ c.no = calls[t].no /\ c.at = a
  BY <1>1 DEF Call
<1>3. Step(t, c)
  OBVIOUS
<1> HIDE DEF c
<1> QED  BY <1>2, <1>3, Moves DEF Keeps

\* A call is entered, marked or not.
LEMMA EnterStep ==
  ASSUME TypeOK, NEW t \in Tasks, NEW nr \in Slots, NEW path \in {"zygote", "service"},
         Enter(t, nr, path)
  PROVE  /\ UNCHANGED <<module, tracing, kind>> /\ Moved(t)
         /\ calls[t].at = "user" /\ (nr = "execve" => kind[t] = "child")
         /\ calls'[t].nr = nr /\ calls'[t].path = path /\ calls'[t].at = "table"
         /\ calls'[t].seen = calls[t].seen
         /\ \/ calls'[t].no = nr
            \/ /\ calls'[t].no = "spare" /\ nr = "execve" /\ t \in mark /\ ProbeOn /\ dispNr /\ route
<1>1. /\ UNCHANGED <<module, tracing, kind>>
      /\ calls[t].at = "user" /\ (nr = "execve" => kind[t] = "child")
  BY Zenon DEF Enter
<1> DEFINE redirect == t \in mark /\ ProbeOn /\ dispNr /\ nr = "execve" /\ route
<1>2. PICK no \in Slots : /\ no = nr \/ (no = "spare" /\ redirect)
                          /\ Step(t, [calls[t] EXCEPT !.nr = nr, !.path = path, !.made = @ + 1,
                                                      !.at = "table", !.no = no])
  <2>1. Step(t, [calls[t] EXCEPT !.nr = nr, !.path = path, !.made = @ + 1, !.at = "table",
                                 !.no = IF redirect THEN "spare" ELSE nr])
    BY Zenon DEF Enter
  <2>2. CASE redirect
    <3>1. (IF redirect THEN "spare" ELSE nr) = "spare"
      BY <2>2
    <3> QED  BY <2>1, <2>2, <3>1, Zenon
  <2>3. CASE ~redirect
    <3>1. (IF redirect THEN "spare" ELSE nr) = nr
      BY <2>3
    <3> QED  BY <2>1, <3>1, Zenon
  <2> QED  BY <2>2, <2>3
<1>3. calls[t] \in Call
  BY DEF TypeOK
<1> PICK made \in Nat : made = calls[t].made + 1
  BY <1>3 DEF Call
<1> DEFINE c == [calls[t] EXCEPT !.nr = nr, !.path = path, !.made = made, !.at = "table", !.no = no]
<1>4. c \in Call /\ c.nr = nr /\ c.path = path /\ c.at = "table" /\ c.no = no /\ c.seen = calls[t].seen
  BY <1>3 DEF Call
<1>5. Step(t, c)
  BY <1>2
<1> HIDE DEF c, redirect
<1>6. Moved(t) /\ calls'[t] = c
  BY <1>4, <1>5, Moves
<1> QED  BY <1>1, <1>2, <1>4, <1>6 DEF redirect

\* The real call.
Runs(t) == /\ Ends(t, "real")
           /\ kind' = IF calls[t].nr = "execve"
                      THEN [kind EXCEPT ![t] = Becomes(calls[t].path)] ELSE kind

\* RealCall answers, and an execve changes what the process is.
LEMMA RealCallStep ==
  ASSUME TypeOK, NEW t \in Tasks, RealCall(t)
  PROVE  Runs(t)
BY Ended, Zenon DEF RealCall, Runs

\* Where the table leads.
LEMMA ViaTableStep ==
  ASSUME TypeOK, NEW t \in Tasks, ViaTable(t)
  PROVE  /\ UNCHANGED <<module, tracing>> /\ calls[t].at = "table"
         /\ \/ table[calls[t].no] \in {"sys_execve", "sys_read"} /\ Runs(t)
            \/ table[calls[t].no] = "ni" /\ Ends(t, "ENOSYS") /\ UNCHANGED kind
            \/ /\ table[calls[t].no] \in {"dispatcher", "tamisu_sys_read"} /\ UNCHANGED kind
               /\ Moved(t) /\ Keeps(t) /\ calls'[t].no = calls[t].no
               /\ calls'[t].at = table[calls[t].no]
<1>1. /\ UNCHANGED <<module, tracing>> /\ calls[t].at = "table"
      /\ \/ table[calls[t].no] \in {"sys_execve", "sys_read"} /\ RealCall(t)
         \/ table[calls[t].no] = "ni" /\ Step(t, Done(t, "ENOSYS")) /\ UNCHANGED kind
         \/ /\ table[calls[t].no] \in {"dispatcher", "tamisu_sys_read"}
            /\ Step(t, [calls[t] EXCEPT !.at = table[calls[t].no]]) /\ UNCHANGED kind
  BY Zenon DEF ViaTable
<1>2. CASE table[calls[t].no] \in {"sys_execve", "sys_read"} /\ RealCall(t)
  BY <1>1, <1>2, RealCallStep
<1>3. CASE table[calls[t].no] = "ni" /\ Step(t, Done(t, "ENOSYS")) /\ UNCHANGED kind
  BY <1>1, <1>3, Ended
<1>4. ASSUME NEW a \in {"dispatcher", "tamisu_sys_read"}, a = table[calls[t].no],
             Step(t, [calls[t] EXCEPT !.at = a])
      PROVE  Moved(t) /\ Keeps(t) /\ calls'[t].no = calls[t].no /\ calls'[t].at = a
  BY <1>4, GoesOn
<1> QED  BY <1>1, <1>2, <1>3, <1>4

\* The dispatcher.
LEMMA DispatchStep ==
  ASSUME TypeOK, NEW t \in Tasks, Dispatch(t)
  PROVE  /\ UNCHANGED <<module, tracing, kind>> /\ calls[t].at = "dispatcher" /\ Moved(t) /\ Keeps(t)
         /\ \/ /\ dispNr /\ calls[t].nr # calls[t].no /\ calls'[t].no = calls[t].nr
               /\ \/ Routed(t) /\ calls'[t].at = "hook"
                  \/ ~Routed(t) /\ calls'[t].at = "user" /\ calls'[t].answer = "ENOSYS"
            \/ ~(dispNr /\ calls[t].nr # calls[t].no) /\ Ends(t, "ENOSYS")
<1>1. /\ UNCHANGED <<module, tracing, kind>> /\ calls[t].at = "dispatcher"
      /\ IF dispNr /\ calls[t].nr # calls[t].no
         THEN LET c == [calls[t] EXCEPT !.no = calls[t].nr]
              IN  Step(t, IF Routed(t) THEN [c EXCEPT !.at = "hook"]
                          ELSE [c EXCEPT !.at = "user", !.answer = "ENOSYS"])
         ELSE Step(t, Done(t, "ENOSYS"))
  BY Zenon DEF Dispatch
<1>2. calls[t] \in Call
  BY DEF TypeOK
<1> DEFINE h == [[calls[t] EXCEPT !.no = calls[t].nr] EXCEPT !.at = "hook"]
           e == [[calls[t] EXCEPT !.no = calls[t].nr] EXCEPT !.at = "user", !.answer = "ENOSYS"]
<1>3. /\ h \in Call /\ h.nr = calls[t].nr /\ h.no = calls[t].nr /\ h.path = calls[t].path
      /\ h.seen = calls[t].seen /\ h.at = "hook"
  BY <1>2 DEF Call
<1>4. /\ e \in Call /\ e.nr = calls[t].nr /\ e.no = calls[t].nr /\ e.path = calls[t].path
      /\ e.seen = calls[t].seen /\ e.at = "user" /\ e.answer = "ENOSYS"
  BY <1>2 DEF Call
<1>5. CASE dispNr /\ calls[t].nr # calls[t].no /\ Routed(t)
  <2>1. Step(t, h)
    BY <1>1, <1>5, Zenon
  <2> HIDE DEF h, e
  <2>2. Moved(t) /\ calls'[t] = h
    BY <1>3, <2>1, Moves
  <2> QED  BY <1>1, <1>3, <1>5, <2>2 DEF Keeps
<1>6. CASE dispNr /\ calls[t].nr # calls[t].no /\ ~Routed(t)
  <2>1. Step(t, e)
    BY <1>1, <1>6, Zenon
  <2> HIDE DEF h, e
  <2>2. Moved(t) /\ calls'[t] = e
    BY <1>4, <2>1, Moves
  <2> QED  BY <1>1, <1>4, <1>6, <2>2 DEF Keeps
<1>7. CASE ~(dispNr /\ calls[t].nr # calls[t].no)
  BY <1>1, <1>7, Ended DEF Ends
<1> QED  BY <1>5, <1>6, <1>7

\* The execve hook.
LEMMA ExecveHookStep ==
  ASSUME TypeOK, NEW t \in Tasks, ExecveHook(t)
  PROVE  /\ UNCHANGED <<module, others, toggles, sweeps, regCount, swept, early, kind>>
         /\ calls[t].at = "hook" /\ Moved(t)
         /\ calls'[t].nr = calls[t].nr /\ calls'[t].no = calls[t].no /\ calls'[t].path = calls[t].path
         /\ calls'[t].at = "tail"
         /\ mark' = mark \/ (/\ kind[t] = "child" /\ calls[t].path = "service" /\ regCount <= 1
                             /\ mark' = mark \ {t})
<1>1. /\ UNCHANGED <<module, others, toggles, sweeps, regCount, swept, early, kind>>
      /\ calls[t].at = "hook"
      /\ Step(t, [calls[t] EXCEPT !.at = "tail", !.seen = TRUE])
      /\ mark' = IF kind[t] = "child" /\ calls[t].path = "service" /\ regCount <= 1
                 THEN mark \ {t} ELSE mark
  BY Zenon DEF ExecveHook
<1>2. calls[t] \in Call
  BY DEF TypeOK
<1> DEFINE c == [calls[t] EXCEPT !.at = "tail", !.seen = TRUE]
<1>3. /\ c \in Call /\ c.nr = calls[t].nr /\ c.no = calls[t].no /\ c.path = calls[t].path
      /\ c.at = "tail"
  BY <1>2 DEF Call
<1>4. Step(t, c)
  BY <1>1
<1> HIDE DEF c
<1>5. Moved(t) /\ calls'[t] = c
  BY <1>3, <1>4, Moves
<1> QED  BY <1>1, <1>3, <1>5

-----------------------------------------------------------------------------
(* The table and its entries.                                               *)

Entry == [nr : Slots, orig : {"ni", "sys_execve", "sys_read"}]
Functs == {"ni", "sys_execve", "sys_read", "dispatcher", "tamisu_sys_read"}

\* What the kernel has in the slots of its own.
LEMMA KernelIs ==
  /\ Kernel \in [Slots -> {"ni", "sys_execve", "sys_read"}]
  /\ Kernel["spare"] = "ni" /\ Kernel["execve"] = "sys_execve" /\ Kernel["read"] = "sys_read"
BY DEF Kernel

\* tamisu_syscall_table_hook
LEMMA HookEntries ==
  ASSUME TypeOK, EntriesInv, NEW nr \in Slots, NEW fn \in Functs, Hook(nr, fn)
  PROVE  /\ EntriesInv' /\ entries' \in Seq(Entry)
         /\ table' = [table EXCEPT ![nr] = fn] /\ table' \in [Slots -> Functs]
<1>1. table \in [Slots -> Functs] /\ entries \in Seq(Entry)
  BY DEF TypeOK, Functs, Entry
<1>2. /\ table' = [table EXCEPT ![nr] = fn]
      /\ entries' = IF Hooked(nr) THEN entries ELSE Append(entries, [nr |-> nr, orig |-> table[nr]])
  BY DEF Hook
<1>3. table' \in [Slots -> Functs] /\ \A s \in Slots : s # nr => table'[s] = table[s]
  BY <1>1, <1>2
<1>4. CASE Hooked(nr)
  BY <1>1, <1>2, <1>3, <1>4 DEF EntriesInv, Hooked
<1>5. CASE ~Hooked(nr)
  <2> DEFINE e == [nr |-> nr, orig |-> table[nr]]
  <2>1. e \in Entry /\ e.nr = nr /\ e.orig = Kernel[nr]
    BY <1>1, <1>5, KernelIs DEF EntriesInv, Entry
  <2> HIDE DEF e
  <2>2. /\ entries' \in Seq(Entry) /\ DOMAIN entries' = 1..(Len(entries) + 1)
        /\ entries'[Len(entries) + 1] = e /\ \A i \in DOMAIN entries : entries'[i] = entries[i]
        /\ DOMAIN entries = 1..Len(entries) /\ Len(entries) \in Nat
    BY <1>1, <1>2, <1>5, <2>1 DEF e
  <2>3. \A i \in DOMAIN entries : entries[i].nr # nr
    BY <1>5 DEF Hooked
  <2>4. \A i \in DOMAIN entries' : entries'[i].orig = Kernel[entries'[i].nr]
    BY <2>1, <2>2 DEF EntriesInv
  <2>5. \A i, j \in DOMAIN entries' : entries'[i].nr = entries'[j].nr => i = j
    BY <2>1, <2>2, <2>3 DEF EntriesInv
  <2>6. \A s \in Slots : s = nr \/ Hooked(s) => Hooked(s)'
    BY <2>1, <2>2 DEF Hooked
  <2>7. \A s \in Slots : table'[s] # Kernel[s] => Hooked(s)'
    BY <1>3, <2>6 DEF EntriesInv
  <2> QED  BY <1>2, <1>3, <2>2, <2>4, <2>5, <2>7 DEF EntriesInv
<1> QED  BY <1>4, <1>5

\* An entry goes, and its slot is the kernel's again.
LEMMA EntryGone ==
  ASSUME TypeOK, EntriesInv, NEW k \in DOMAIN entries,
         table' = [table EXCEPT ![entries[k].nr] = entries[k].orig],
         entries' \in Seq(Entry),
         \A i \in DOMAIN entries' : \E j \in DOMAIN entries \ {k} : entries'[i] = entries[j],
         \A j \in DOMAIN entries \ {k} : \E i \in DOMAIN entries' : entries'[i] = entries[j],
         \A i, j \in DOMAIN entries' : entries'[i] = entries'[j] => i = j
  PROVE  /\ EntriesInv' /\ table' \in [Slots -> Functs]
         /\ table' = [table EXCEPT ![entries[k].nr] = Kernel[entries[k].nr]]
<1>1. table \in [Slots -> Functs] /\ entries \in Seq(Entry)
  BY DEF TypeOK, Functs, Entry
<1>2. entries[k] \in Entry /\ entries[k].nr \in Slots /\ entries[k].orig = Kernel[entries[k].nr]
  <2>1. entries[k] \in Entry
    BY <1>1
  <2>2. entries[k].nr \in Slots
    BY <2>1 DEF Entry
  <2>3. entries[k].orig = Kernel[entries[k].nr]
    BY DEF EntriesInv
  <2> QED  BY <2>1, <2>2, <2>3
<1>3. /\ table' \in [Slots -> Functs]
      /\ table'[entries[k].nr] = Kernel[entries[k].nr]
      /\ \A s \in Slots : s # entries[k].nr => table'[s] = table[s]
  BY <1>1, <1>2, KernelIs DEF Functs
<1>4. \A i \in DOMAIN entries' : entries'[i].orig = Kernel[entries'[i].nr]
  BY DEF EntriesInv
<1>5. \A i, j \in DOMAIN entries' : entries'[i].nr = entries'[j].nr => i = j
  BY DEF EntriesInv
<1>6. \A s \in Slots : table'[s] # Kernel[s] => Hooked(s)'
  <2> SUFFICES ASSUME NEW s \in Slots, table'[s] # Kernel[s]
               PROVE  \E i \in DOMAIN entries' : entries'[i].nr = s
    BY DEF Hooked
  <2>1. PICK j \in DOMAIN entries : entries[j].nr = s
    BY <1>3 DEF EntriesInv, Hooked
  <2>2. j # k
    BY <1>3, <2>1
  <2> QED  BY <2>1, <2>2
<1> QED  BY <1>2, <1>3, <1>4, <1>5, <1>6 DEF EntriesInv

\* do_stop_init_rc_hook
LEMMA UnhookEntries ==
  ASSUME TypeOK, EntriesInv, UnhookRead
  PROVE  /\ EntriesInv' /\ entries' \in Seq(Entry)
         /\ table' = [table EXCEPT !["read"] = Kernel["read"]] /\ table' \in [Slots -> Functs]
<1>1. PICK k \in DOMAIN entries :
          /\ entries[k].nr = "read"
          /\ table' = [table EXCEPT !["read"] = entries[k].orig]
          /\ entries' = Front([entries EXCEPT ![k] = Last(entries)])
  BY DEF UnhookRead
<1>2. entries \in Seq(Entry) /\ Len(entries) \in Nat \ {0} /\ DOMAIN entries = 1..Len(entries)
      /\ k \in 1..Len(entries)
  BY DEF TypeOK, Entry
<1> DEFINE n == Len(entries) - 1
           moved == [entries EXCEPT ![k] = entries[n + 1]]
<1>3. moved \in Seq(Entry) /\ Len(moved) = Len(entries)
  BY <1>2
<1>4. entries' = SubSeq(moved, 1, n)
  BY <1>1, <1>2 DEF Front, Last
<1>5. /\ entries' \in Seq(Entry) /\ DOMAIN entries' = 1..n
      /\ \A i \in 1..n : entries'[i] = IF i = k THEN entries[n + 1] ELSE entries[i]
  BY <1>2, <1>3, <1>4
<1>6. \A i \in DOMAIN entries' : \E j \in DOMAIN entries \ {k} : entries'[i] = entries[j]
  BY <1>2, <1>5
<1>7. \A j \in DOMAIN entries \ {k} : \E i \in DOMAIN entries' : entries'[i] = entries[j]
  <2> SUFFICES ASSUME NEW j \in DOMAIN entries \ {k}
               PROVE  \E i \in 1..n : entries'[i] = entries[j]
    BY <1>5
  <2>1. CASE j = n + 1
    <3>1. k \in 1..n /\ entries'[k] = entries[j]
      BY <1>2, <1>5, <2>1
    <3> QED  BY <3>1
  <2>2. CASE j # n + 1
    <3>1. j \in 1..n /\ entries'[j] = entries[j]
      BY <1>2, <1>5, <2>2
    <3> QED  BY <3>1
  <2> QED  BY <2>1, <2>2
<1>8. \A i, j \in DOMAIN entries' : entries'[i] = entries'[j] => i = j
  <2>1. \A i, j \in DOMAIN entries : entries[i] = entries[j] => i = j
    BY DEF EntriesInv
  <2> QED  BY <1>2, <1>5, <2>1
<1>9. table' = [table EXCEPT ![entries[k].nr] = entries[k].orig]
  BY <1>1
<1> HIDE DEF moved
<1>10. /\ EntriesInv' /\ table' \in [Slots -> Functs]
       /\ table' = [table EXCEPT ![entries[k].nr] = Kernel[entries[k].nr]]
  BY <1>5, <1>6, <1>7, <1>8, <1>9, EntryGone, Zenon
<1> QED  BY <1>1, <1>5, <1>10

\* tamisu_syscall_hook_exit, one entry.
LEMMA RestoreEntries ==
  ASSUME TypeOK, EntriesInv, RestoreSlot
  PROVE  /\ EntriesInv' /\ entries' \in Seq(Entry) /\ table' \in [Slots -> Functs]
         /\ \E s \in Slots : table' = [table EXCEPT ![s] = Kernel[s]]
<1>1. entries \in Seq(Entry) /\ entries # <<>>
  BY DEF TypeOK, Entry, RestoreSlot
<1>2. /\ Len(entries) \in Nat \ {0} /\ DOMAIN entries = 1..Len(entries)
      /\ Head(entries) = entries[1] /\ Tail(entries) \in Seq(Entry)
      /\ DOMAIN Tail(entries) = 1..(Len(entries) - 1)
      /\ \A i \in 1..(Len(entries) - 1) : Tail(entries)[i] = entries[i + 1]
  BY <1>1
<1>3. entries' = Tail(entries) /\ table' = [table EXCEPT ![entries[1].nr] = entries[1].orig]
  BY <1>2 DEF RestoreSlot
<1>4. \A i \in DOMAIN entries' : \E j \in DOMAIN entries \ {1} : entries'[i] = entries[j]
  BY <1>2, <1>3
<1>5. \A j \in DOMAIN entries \ {1} : \E i \in DOMAIN entries' : entries'[i] = entries[j]
  <2> SUFFICES ASSUME NEW j \in DOMAIN entries \ {1}
               PROVE  \E i \in DOMAIN entries' : entries'[i] = entries[j]
    OBVIOUS
  <2>1. j - 1 \in DOMAIN entries' /\ entries'[j - 1] = entries[j]
    BY <1>2, <1>3
  <2> QED  BY <2>1
<1>6. \A i, j \in DOMAIN entries' : entries'[i] = entries'[j] => i = j
  <2>1. \A i, j \in DOMAIN entries : entries[i] = entries[j] => i = j
    BY DEF EntriesInv
  <2> QED  BY <1>2, <1>3, <2>1
<1>7. 1 \in DOMAIN entries /\ entries' \in Seq(Entry) /\ entries[1] \in Entry
  BY <1>1, <1>2, <1>3
<1>8. entries[1].nr \in Slots
  BY <1>7 DEF Entry
<1> HIDE DEF Slots
<1> QED  BY <1>3, <1>4, <1>5, <1>6, <1>7, <1>8, EntryGone

-----------------------------------------------------------------------------
(* Load and unload.                                                         *)

PhaseSet == {"off", "dispatcher", "marker", "route", "probe", "on",
             "probe_off", "marker_off", "route_off", "restored", "gone"}

\* Every name of a phase is that of one of Phases.
LEMMA PhaseNamed ==
  ASSUME NEW p \in PhaseSet
  PROVE  \E i \in DOMAIN Phases : p = Phases[i]
<1>1. DOMAIN Phases = 1..11
  BY DEF Phases
<1>2. /\ Phases[1] = "off" /\ Phases[2] = "dispatcher" /\ Phases[3] = "marker" /\ Phases[4] = "route"
      /\ Phases[5] = "probe" /\ Phases[6] = "on" /\ Phases[7] = "probe_off" /\ Phases[8] = "marker_off"
      /\ Phases[9] = "route_off" /\ Phases[10] = "restored" /\ Phases[11] = "gone"
  BY DEF Phases
<1> QED  BY <1>1, <1>2 DEF PhaseSet

\* The steps that change neither the table nor its entries.
Passes == InstallMarker \/ AddRoute \/ RegisterProbe \/ SkipRead \/ RemoveProbe
          \/ SkipHookExit \/ RemoveMarker \/ RemoveRoute \/ ClearState \/ Free

\* Such a step keeps what is invariant of the life of the module and of the
\* table.
LEMMA PassesStep ==
  ASSUME IInv, Passes
  PROVE  /\ UNCHANGED <<others, kind, calls, table, entries>>
         /\ phase' \in PhaseSet /\ {started', route', dispNr', early'} \subseteq BOOLEAN
         /\ LifeInv' /\ TableInv'
         /\ started /\ phase \in Later => started' /\ phase' \in Later
         /\ phase \in {"route_off", "restored", "gone"} => phase' \in {"route_off", "restored", "gone"}
<1>1. {started, route, dispNr, early} \subseteq BOOLEAN
  BY DEF IInv, TypeOK
<1>2. LifeInv /\ TableInv
  BY DEF IInv
<1> USE DEF LifeInv, TableInv, PhaseSet, Later
<1>3. CASE InstallMarker
  <2>1. /\ phase = "dispatcher" /\ phase' = "marker"
        /\ UNCHANGED <<others, kind, calls, table, entries, started, route, dispNr>> /\ early' = (early \/ others # {})
    BY <1>3, Zenon DEF InstallMarker
  <2> QED  BY <1>1, <1>2, <2>1
<1>4. CASE AddRoute
  <2>1. /\ phase = "marker" /\ phase' = "route"
        /\ UNCHANGED <<others, kind, calls, table, entries, started, dispNr, early>> /\ route' = TRUE
    BY <1>4, Zenon DEF AddRoute
  <2> QED  BY <1>1, <1>2, <2>1
<1>5. CASE RegisterProbe
  <2>1. /\ phase = "route" /\ phase' = "probe"
        /\ UNCHANGED <<others, kind, calls, table, entries, started, route, dispNr>> /\ early' = (early \/ others # {})
    BY <1>5, Zenon DEF RegisterProbe
  <2> QED  BY <1>1, <1>2, <2>1
<1>6. CASE SkipRead
  <2>1. /\ phase = "probe" /\ phase' = "on"
        /\ UNCHANGED <<others, kind, calls, table, entries, started, route, dispNr, early>>
    BY <1>6, Zenon DEF SkipRead
  <2> QED  BY <1>1, <1>2, <2>1
<1>7. CASE RemoveProbe
  <2>1. /\ phase = "on" /\ phase' = "probe_off"
        /\ UNCHANGED <<others, kind, calls, table, entries, started, route, dispNr, early>> /\ started
    BY <1>7, Zenon DEF RemoveProbe
  <2> QED  BY <1>1, <1>2, <2>1
<1>8. CASE SkipHookExit
  <2>1. /\ phase = "on" /\ phase' = "restored"
        /\ UNCHANGED <<others, kind, calls, table, entries, started, route, dispNr, early>> /\ ~started
    BY <1>8, Zenon DEF SkipHookExit
  <2> QED  BY <1>1, <1>2, <2>1
<1>9. CASE RemoveMarker
  <2>1. /\ phase = "probe_off" /\ phase' = "marker_off"
        /\ UNCHANGED <<others, kind, calls, table, entries, started, route, dispNr, early>>
    BY <1>9, Zenon DEF RemoveMarker
  <2> QED  BY <1>1, <1>2, <2>1
<1>10. CASE RemoveRoute
  <2>1. /\ phase = "marker_off" /\ phase' = "route_off"
        /\ UNCHANGED <<others, kind, calls, table, entries, started, dispNr, early>> /\ route' = FALSE
    BY <1>10, Zenon DEF RemoveRoute
  <2> QED  BY <1>1, <1>2, <2>1
<1>11. CASE ClearState
  <2>1. /\ phase = "route_off" /\ phase' = "restored"
        /\ UNCHANGED <<others, kind, calls, table, entries, started, route, early>> /\ entries = <<>> /\ dispNr' = FALSE
    BY <1>11, Zenon DEF ClearState
  <2> QED  BY <1>1, <1>2, <2>1
<1>12. CASE Free
  <2>1. /\ phase = "restored" /\ phase' = "gone"
        /\ UNCHANGED <<others, kind, calls, table, entries, started, route, dispNr, early>>
    BY <1>12, Zenon DEF Free
  <2> QED  BY <1>1, <1>2, <2>1
<1> QED  BY <1>3, <1>4, <1>5, <1>6, <1>7, <1>8, <1>9, <1>10, <1>11, <1>12 DEF Passes

\* All steps of the module's life.
LEMMA ModuleStep ==
  ASSUME IInv, Load \/ UnhookRead \/ Unload
  PROVE  /\ UNCHANGED <<others, kind, calls>>
         /\ EntriesInv' /\ entries' \in Seq(Entry) /\ table' \in [Slots -> Functs]
         /\ phase' \in PhaseSet /\ {started', route', dispNr', early'} \subseteq BOOLEAN
         /\ LifeInv' /\ TableInv'
         /\ started /\ phase \in Later => started' /\ phase' \in Later
         /\ phase \in {"route_off", "restored", "gone"} => phase' \in {"route_off", "restored", "gone"}
<1>1. /\ {started, route, dispNr, early} \subseteq BOOLEAN
      /\ table \in [Slots -> Functs] /\ entries \in Seq(Entry) /\ TypeOK
  BY DEF IInv, TypeOK, Functs, Entry
<1>2. LifeInv /\ TableInv /\ EntriesInv
  BY DEF IInv
<1>3. phase \in PhaseSet
  BY <1>1, PhaseFacts DEF TypeOK, PhaseSet
<1>4. CASE Passes
  <2>1. EntriesInv'
    BY <1>2, <1>4, PassesStep DEF EntriesInv, Hooked
  <2> QED  BY <1>1, <1>4, <2>1, PassesStep
<1>5. CASE InstallDispatcher
  <2>1. /\ phase = "off" /\ phase' = "dispatcher" /\ started' = TRUE /\ dispNr' = TRUE /\ route' = FALSE
        /\ early' = (others # {}) /\ UNCHANGED <<others, kind, calls>> /\ Hook("spare", "dispatcher")
    BY <1>5, Zenon DEF InstallDispatcher
  <2>2. /\ EntriesInv' /\ entries' \in Seq(Entry) /\ table' \in [Slots -> Functs]
        /\ table' = [table EXCEPT !["spare"] = "dispatcher"]
    <3>1. "spare" \in Slots /\ "dispatcher" \in Functs
      BY DEF Functs
    <3> QED  BY <1>1, <1>2, <2>1, <3>1, HookEntries
  <2>3. LifeInv' /\ TableInv'
    BY <1>1, <1>2, <2>1, <2>2, KernelIs DEF LifeInv, TableInv
  <2> QED  BY <1>1, <2>1, <2>2, <2>3 DEF PhaseSet, Later
<1>6. CASE InstallFails
  <2>1. /\ phase = "off" /\ phase' = "probe"
        /\ entries' = Append(entries, [nr |-> "spare", orig |-> table["spare"]])
        /\ UNCHANGED <<started, table, route, dispNr, early, others, kind, calls>>
    BY <1>6, Zenon DEF InstallFails
  <2> DEFINE e == [nr |-> "spare", orig |-> table["spare"]]
  <2>2. entries = <<>> /\ \A s \in Slots : table[s] = Kernel[s]
    BY <1>2, <2>1 DEF LifeInv, EntriesInv, Hooked
  <2>3. e \in Entry /\ e.nr = "spare" /\ e.orig = Kernel["spare"]
    BY <2>2, KernelIs DEF Entry
  <2> HIDE DEF e
  <2>4. entries' \in Seq(Entry) /\ DOMAIN entries' = {1} /\ entries'[1] = e
    BY <2>1, <2>2, <2>3 DEF e
  <2>5. EntriesInv'
    BY <2>1, <2>2, <2>3, <2>4 DEF EntriesInv
  <2>6. LifeInv' /\ TableInv'
    BY <1>2, <2>1 DEF LifeInv, TableInv
  <2> QED  BY <1>1, <2>1, <2>4, <2>5, <2>6 DEF PhaseSet, Later
<1>7. CASE HookRead
  <2>1. /\ phase = "probe" /\ phase' = "on" /\ Hook("read", "tamisu_sys_read")
        /\ UNCHANGED <<started, route, dispNr, early, others, kind, calls>>
    BY <1>7, Zenon DEF HookRead
  <2>2. /\ EntriesInv' /\ entries' \in Seq(Entry) /\ table' \in [Slots -> Functs]
        /\ table' = [table EXCEPT !["read"] = "tamisu_sys_read"]
    <3>1. "read" \in Slots /\ "tamisu_sys_read" \in Functs
      BY DEF Functs
    <3> QED  BY <1>1, <1>2, <2>1, <3>1, HookEntries
  <2>3. LifeInv' /\ TableInv'
    BY <1>1, <1>2, <2>1, <2>2, KernelIs DEF LifeInv, TableInv
  <2> QED  BY <1>1, <2>1, <2>2, <2>3 DEF PhaseSet, Later
<1>8. CASE UnhookRead
  <2>1. phase = "on" /\ UNCHANGED <<phase, started, route, dispNr, early, others, kind, calls>>
    BY <1>8, Zenon DEF UnhookRead
  <2>2. /\ EntriesInv' /\ entries' \in Seq(Entry) /\ table' \in [Slots -> Functs]
        /\ table' = [table EXCEPT !["read"] = Kernel["read"]]
    BY <1>1, <1>2, <1>8, UnhookEntries
  <2>3. LifeInv' /\ TableInv'
    BY <1>1, <1>2, <2>1, <2>2, KernelIs DEF LifeInv, TableInv
  <2> QED  BY <1>1, <2>1, <2>2, <2>3 DEF PhaseSet, Later
<1>9. CASE RestoreSlot
  <2>1. phase = "route_off" /\ UNCHANGED <<phase, started, route, dispNr, early, others, kind, calls>>
    BY <1>9, Zenon DEF RestoreSlot
  <2>2. /\ EntriesInv' /\ entries' \in Seq(Entry) /\ table' \in [Slots -> Functs]
        /\ \E s \in Slots : table' = [table EXCEPT ![s] = Kernel[s]]
    BY <1>1, <1>2, <1>9, RestoreEntries
  <2>3. LifeInv' /\ TableInv'
    BY <1>1, <1>2, <2>1, <2>2, KernelIs DEF LifeInv, TableInv
  <2> QED  BY <1>1, <2>1, <2>2, <2>3 DEF PhaseSet, Later
<1> QED  BY <1>4, <1>5, <1>6, <1>7, <1>8, <1>9 DEF Load, Unload, Passes

-----------------------------------------------------------------------------
(* Counts and marks.                                                        *)

KretPhases == {"marker", "route", "probe", "on", "probe_off"}

\* KretprobesWhen, for the state after a step.
LEMMA KretprobesThen ==
  ASSUME phase' \in PhaseSet
  PROVE  KretprobesOn' <=> started' /\ phase' \in KretPhases
BY DEF KretprobesOn, Reached, Phases, PhaseSet, KretPhases

\* What holds of the marks in the state a step starts from.
LEMMA Here ==
  ASSUME IInv
  PROVE  /\ phase \in PhaseSet /\ (KretprobesOn <=> started /\ phase \in KretPhases)
         /\ others \subseteq Tracepoints /\ regCount \in -2..2
         /\ mark \subseteq Live /\ swept \subseteq Live
         /\ OursOnly \subseteq Live /\ SweptNow \subseteq Live /\ InitTask \in OursOnly
         /\ Enabled \subseteq Tracepoints /\ Cardinality(Enabled) \in 0..2
         /\ phase \in {"off", "dispatcher"} => regCount = 0
         /\ KretprobesOn => \E base \in 0..2 : regCount = Cardinality(Enabled) - base
         /\ KretprobesOn /\ ~early => regCount = Cardinality(Enabled)
<1>1. TypeOK /\ CallInv /\ CountInv
  BY DEF IInv
<1>2. phase \in PhaseSet
  BY <1>1, PhaseFacts DEF TypeOK, PhaseSet
<1>3. KretprobesOn <=> started /\ phase \in KretPhases
  BY <1>1, KretprobesWhen DEF TypeOK, KretPhases
<1>4. others \subseteq Tracepoints /\ regCount \in -2..2 /\ mark \subseteq Live /\ swept \subseteq Live
  BY <1>1 DEF TypeOK
<1>5. OursOnly \subseteq Live /\ SweptNow \subseteq Live /\ InitTask \in OursOnly
  BY <1>1, InitAssumption DEF OursOnly, SweptNow, Live, CallInv
<1>6. Enabled \subseteq Tracepoints
  BY <1>4 DEF Enabled
<1>7. Cardinality(Enabled) \in 0..2
  BY <1>6, Tracers
<1> QED  BY <1>1, <1>2, <1>3, <1>4, <1>5, <1>6, <1>7 DEF CountInv

Marked == mark' \subseteq Live /\ swept' \subseteq Live /\ regCount' \in -2..2 /\ CountInv' /\ MarkInv'

\* The steps of the module's life that touch neither counts nor marks.
Unmarking == \/ InstallDispatcher \/ InstallFails \/ AddRoute \/ HookRead \/ SkipRead \/ UnhookRead
             \/ SkipHookExit \/ RemoveMarker \/ RemoveRoute \/ RestoreSlot \/ ClearState \/ Free

\* Such a step keeps what is invariant of the marks.
LEMMA UnmarkingStep ==
  ASSUME IInv, Unmarking
  PROVE  Marked
<1>1. Load \/ UnhookRead \/ Unload
  BY DEF Unmarking, Load, Unload
<1>2. /\ others' = others /\ kind' = kind /\ calls' = calls /\ phase' \in PhaseSet
  BY <1>1, ModuleStep
<1>3. mark' = mark /\ swept' = swept /\ regCount' = regCount
  <2>1. CASE InstallDispatcher
    BY <2>1, Zenon DEF InstallDispatcher
  <2>2. CASE InstallFails
    BY <2>2, Zenon DEF InstallFails
  <2>3. CASE AddRoute
    BY <2>3, Zenon DEF AddRoute
  <2>4. CASE HookRead
    BY <2>4, Zenon DEF HookRead
  <2>5. CASE SkipRead
    BY <2>5, Zenon DEF SkipRead
  <2>6. CASE UnhookRead
    BY <2>6, Zenon DEF UnhookRead
  <2>7. CASE SkipHookExit
    BY <2>7, Zenon DEF SkipHookExit
  <2>8. CASE RemoveMarker
    BY <2>8, Zenon DEF RemoveMarker
  <2>9. CASE RemoveRoute
    BY <2>9, Zenon DEF RemoveRoute
  <2>10. CASE RestoreSlot
    BY <2>10, Zenon DEF RestoreSlot
  <2>11. CASE ClearState
    BY <2>11, Zenon DEF ClearState
  <2>12. CASE Free
    BY <2>12, Zenon DEF Free
  <2> QED  BY <2>1, <2>2, <2>3, <2>4, <2>5, <2>6, <2>7, <2>8, <2>9, <2>10, <2>11, <2>12 DEF Unmarking
<1>4. \/ phase' \in {"dispatcher", "marker_off", "route_off", "restored", "gone"} /\ (phase' = "dispatcher" => phase = "off")
      \/ phase = "off" /\ phase' = "probe" /\ started' = started
      \/ phase = "marker" /\ phase' = "route" /\ started' = started /\ early' = early
      \/ phase \in {"probe", "on"} /\ phase' = "on" /\ started' = started /\ early' = early
  <2>1. CASE InstallDispatcher
    <3>1. phase = "off" /\ phase' = "dispatcher"
      BY <2>1, Zenon DEF InstallDispatcher
    <3> QED  BY <3>1
  <2>2. CASE InstallFails
    <3>1. phase = "off" /\ phase' = "probe" /\ started' = started
      BY <2>2, Zenon DEF InstallFails
    <3> QED  BY <3>1
  <2>3. CASE AddRoute
    <3>1. phase = "marker" /\ phase' = "route" /\ started' = started /\ early' = early
      BY <2>3, Zenon DEF AddRoute
    <3> QED  BY <3>1
  <2>4. CASE HookRead
    <3>1. phase = "probe" /\ phase' = "on" /\ started' = started /\ early' = early
      BY <2>4, Zenon DEF HookRead
    <3> QED  BY <3>1
  <2>5. CASE SkipRead
    <3>1. phase = "probe" /\ phase' = "on" /\ started' = started /\ early' = early
      BY <2>5, Zenon DEF SkipRead
    <3> QED  BY <3>1
  <2>6. CASE UnhookRead
    <3>1. phase = "on" /\ phase' = phase /\ started' = started /\ early' = early
      BY <2>6, Zenon DEF UnhookRead
    <3> QED  BY <3>1
  <2>7. CASE SkipHookExit
    <3>1. phase' = "restored"
      BY <2>7, Zenon DEF SkipHookExit
    <3> QED  BY <3>1
  <2>8. CASE RemoveMarker
    <3>1. phase' = "marker_off"
      BY <2>8, Zenon DEF RemoveMarker
    <3> QED  BY <3>1
  <2>9. CASE RemoveRoute
    <3>1. phase' = "route_off"
      BY <2>9, Zenon DEF RemoveRoute
    <3> QED  BY <3>1
  <2>10. CASE RestoreSlot
    <3>1. phase = "route_off" /\ phase' = phase
      BY <2>10, Zenon DEF RestoreSlot
    <3> QED  BY <3>1
  <2>11. CASE ClearState
    <3>1. phase' = "restored"
      BY <2>11, Zenon DEF ClearState
    <3> QED  BY <3>1
  <2>12. CASE Free
    <3>1. phase' = "gone"
      BY <2>12, Zenon DEF Free
    <3> QED  BY <3>1
  <2> QED  BY <2>1, <2>2, <2>3, <2>4, <2>5, <2>6, <2>7, <2>8, <2>9, <2>10, <2>11, <2>12 DEF Unmarking
<1>5. KretprobesOn' <=> started' /\ phase' \in KretPhases
  BY <1>2, KretprobesThen
<1>6. LifeInv /\ MarkInv /\ {started, early} \subseteq BOOLEAN
  BY DEF IInv, TypeOK
<1>7. KretprobesOn' => KretprobesOn /\ started' = started /\ early' = early /\ (ProbeOn' <=> ProbeOn)
  BY <1>4, <1>5, <1>6, Here DEF LifeInv, KretPhases, ProbeOn
<1>8. KretprobesOn' => Enabled' = Enabled
  BY <1>2, <1>7 DEF Enabled
<1>9. CountInv'
  <2>1. phase' \in {"off", "dispatcher"} => regCount' = 0
    BY <1>3, <1>4, Here
  <2>2. ASSUME KretprobesOn'
        PROVE  /\ \E base \in 0..2 : regCount' = Cardinality(Enabled') - base
               /\ ~early' => regCount' = Cardinality(Enabled')
    BY <1>3, <1>7, <1>8, <2>2, Here
  <2> QED  BY <2>1, <2>2 DEF CountInv
<1>10. MarkInv'
  <2>1. ProbeOn' => KretprobesOn'
    BY <1>5 DEF ProbeOn, KretPhases
  <2> QED  BY <1>2, <1>3, <1>6, <1>7, <2>1 DEF MarkInv, Live, ToZygote
<1> QED  BY <1>3, <1>9, <1>10, Here DEF Marked

-----------------------------------------------------------------------------
(* The steps that count and mark.                                          *)

\* The handlers are there: what is in use before is counted as not seen.
LEMMA InstallMarkerStep ==
  ASSUME IInv, InstallMarker
  PROVE  Marked
<1>1. /\ phase = "dispatcher" /\ phase' = "marker" /\ early' = (early \/ others # {})
      /\ UNCHANGED <<others, regCount, mark, swept, kind, calls, started>>
  BY Zenon DEF InstallMarker
<1>2. ~ProbeOn' /\ Enabled' = others
  BY <1>1 DEF ProbeOn, Enabled
<1>3. others \subseteq Tracepoints /\ regCount = 0 /\ mark \subseteq Live /\ swept \subseteq Live
  BY <1>1, Here
<1>4. Cardinality(others) \in 0..2 /\ (others = {} => Cardinality(others) = 0)
  BY <1>3, Tracers
<1>5. CountInv'
  <2>1. regCount' = Cardinality(Enabled') - Cardinality(others)
    BY <1>1, <1>2, <1>3, <1>4
  <2>2. \E base \in 0..2 : regCount' = Cardinality(Enabled') - base
    BY <1>4, <2>1
  <2>3. ~early' => regCount' = Cardinality(Enabled')
    <3>1. ~early' => others = {}
      BY <1>1
    <3>2. ~early' => Cardinality(others) = 0
      BY <1>4, <3>1
    <3>3. Cardinality(Enabled') = Cardinality(others) /\ regCount' = 0
      BY <1>1, <1>2, <1>3
    <3> QED  BY <3>2, <3>3
  <2>4. phase' \notin {"off", "dispatcher"}
    BY <1>1
  <2> QED  BY <2>2, <2>3, <2>4 DEF CountInv
<1>6. MarkInv'
  BY <1>2 DEF MarkInv
<1> QED  BY <1>1, <1>3, <1>5, <1>6 DEF Marked

\* The probe is the first: init and the zygotes are marked, and no call has been
\* redirected yet.
LEMMA RegisterProbeStep ==
  ASSUME IInv, RegisterProbe
  PROVE  Marked
<1>1. /\ phase = "route" /\ phase' = "probe" /\ early' = (early \/ others # {})
      /\ UNCHANGED <<others, kind, calls, started>>
      /\ \/ "sys_enter" \in others /\ UNCHANGED <<mark, regCount, swept>>
         \/ "sys_enter" \notin others /\ Registered(Cardinality(Enabled))
  BY Zenon DEF RegisterProbe
<1>2. /\ others \subseteq Tracepoints /\ regCount \in -2..2 /\ Cardinality(Enabled) \in 0..2
      /\ mark \subseteq Live /\ swept \subseteq Live
      /\ OursOnly \subseteq Live /\ SweptNow \subseteq Live /\ InitTask \in OursOnly
  BY Here
<1>3. started
  BY <1>1 DEF IInv, LifeInv
<1>4. KretprobesOn /\ ~ProbeOn /\ ProbeOn'
  BY <1>1, <1>3, Here DEF ProbeOn, KretPhases
<1>5. Enabled = others /\ Enabled' = others \cup {"sys_enter"}
  BY <1>1, <1>4 DEF Enabled
<1>6. TypeOK
  BY DEF IInv
<1>7. Cardinality(Enabled') = IF "sys_enter" \in others THEN Cardinality(Enabled) ELSE Cardinality(Enabled) + 1
  <2>1. CASE "sys_enter" \in others
    <3>1. Enabled' = Enabled
      BY <1>5, <2>1
    <3> QED  BY <2>1, <3>1
  <2>2. CASE "sys_enter" \notin others
    BY <1>2, <1>5, <2>2, Tracers
  <2> QED  BY <2>1, <2>2
<1>8. /\ mark' \subseteq Live /\ swept' \subseteq Live
      /\ regCount' = IF "sys_enter" \in others THEN regCount ELSE regCount + 1
      /\ regCount = 0 /\ "sys_enter" \notin others => mark' = OursOnly
  <2>1. CASE "sys_enter" \in others
    BY <1>1, <1>2, <2>1
  <2>2. CASE "sys_enter" \notin others
    <3>1. Registered(Cardinality(Enabled))
      BY <1>1, <2>2
    <3>2. /\ mark' \in {mark, Live, OursOnly} /\ swept' \in {swept, swept \cup SweptNow}
          /\ regCount' = regCount + 1 /\ (regCount = 0 => mark' = OursOnly)
      BY <1>2, <1>4, <1>6, <3>1, RegisteredStep
    <3> QED  BY <1>2, <2>2, <3>2
  <2> QED  BY <2>1, <2>2
<1>9. PICK base \in 0..2 : regCount = Cardinality(Enabled) - base /\ (~early => regCount = Cardinality(Enabled))
  BY <1>4, Here
<1>10. regCount' = Cardinality(Enabled') - base /\ (~early => regCount' = Cardinality(Enabled'))
  BY <1>2, <1>7, <1>8, <1>9
<1>11. Cardinality(Enabled') \in 0..2
  <2>1. Enabled' \subseteq Tracepoints
    BY <1>2, <1>5
  <2> QED  BY <2>1, Tracers
<1>12. CountInv'
  BY <1>1, <1>10 DEF CountInv
<1>13. ASSUME ~early'
       PROVE  mark' = OursOnly /\ "sys_exit" \notin others'
  <2>1. ~early /\ others = {}
    BY <1>1, <1>13 DEF IInv, TypeOK
  <2>2. regCount = 0
    BY <1>2, <1>5, <1>9, <2>1, Tracers
  <2> QED  BY <1>1, <1>8, <2>1, <2>2
<1>14. \A t \in Tasks : ~calls[t].seen /\ ~ToZygote(t)
  BY <1>1 DEF IInv, CallInv, ToZygote, Later, Redirected
<1>15. MarkInv'
  BY <1>1, <1>2, <1>13, <1>14 DEF MarkInv, ToZygote
<1>16. regCount' \in -2..2
  BY <1>10, <1>11
<1> QED  BY <1>8, <1>12, <1>15, <1>16 DEF Marked

\* The probe goes; the handlers count that too.
LEMMA RemoveProbeStep ==
  ASSUME IInv, RemoveProbe
  PROVE  Marked
<1>1. /\ phase = "on" /\ started /\ phase' = "probe_off" /\ early' = early
      /\ UNCHANGED <<others, kind, calls, started>>
      /\ \/ "sys_enter" \in others /\ UNCHANGED <<mark, regCount, swept>>
         \/ "sys_enter" \notin others /\ Unregistered(Cardinality(Enabled) - 1)
  BY Zenon DEF RemoveProbe
<1>2. /\ others \subseteq Tracepoints /\ Cardinality(Enabled) \in 0..2 /\ regCount \in -2..2
      /\ mark \subseteq Live /\ swept \subseteq Live
      /\ OursOnly \subseteq Live /\ SweptNow \subseteq Live
  BY Here
<1>3. KretprobesOn /\ ProbeOn /\ ~ProbeOn'
  BY <1>1, Here DEF ProbeOn, KretPhases
<1>4. Enabled = others \cup {"sys_enter"} /\ Enabled' = others
  BY <1>1, <1>3 DEF Enabled
<1>5. Cardinality(Enabled) = IF "sys_enter" \in others THEN Cardinality(others) ELSE Cardinality(others) + 1
  <2>1. CASE "sys_enter" \in others
    <3>1. Enabled = others
      BY <1>4, <2>1
    <3> QED  BY <2>1, <3>1
  <2>2. CASE "sys_enter" \notin others
    BY <1>2, <1>4, <2>2, Tracers
  <2> QED  BY <2>1, <2>2
<1>6. Cardinality(others) \in 0..2 /\ TypeOK
  BY <1>2, Tracers DEF IInv
<1>7. /\ mark' \subseteq Live /\ swept' \subseteq Live
      /\ regCount' = IF "sys_enter" \in others THEN regCount ELSE regCount - 1
  <2>1. CASE "sys_enter" \in others
    BY <1>1, <1>2, <2>1
  <2>2. CASE "sys_enter" \notin others
    <3>1. Unregistered(Cardinality(Enabled) - 1) /\ Cardinality(Enabled) - 1 \in 0..2
      BY <1>1, <1>5, <1>6, <2>2
    <3>2. /\ mark' \in {mark, {}, OursOnly} /\ swept' \in {swept, swept \cup SweptNow}
          /\ regCount' = regCount - 1
      BY <1>3, <1>6, <3>1, UnregisteredStep
    <3> QED  BY <1>2, <2>2, <3>2
  <2> QED  BY <2>1, <2>2
<1>8. PICK base \in 0..2 : regCount = Cardinality(Enabled) - base /\ (~early => regCount = Cardinality(Enabled))
  BY <1>3, Here
<1>9. regCount' = Cardinality(Enabled') - base /\ (~early => regCount' = Cardinality(Enabled'))
  BY <1>2, <1>4, <1>5, <1>6, <1>7, <1>8
<1>10. CountInv'
  BY <1>1, <1>9 DEF CountInv
<1>11. MarkInv'
  BY <1>3 DEF MarkInv
<1>12. regCount' \in -2..2
  BY <1>4, <1>6, <1>9
<1> QED  BY <1>7, <1>10, <1>11, <1>12 DEF Marked

\* Another tracer comes.
LEMMA TracerOnStep ==
  ASSUME IInv, NEW tp \in Tracepoints, TracerOn(tp)
  PROVE  Marked /\ UNCHANGED <<module, kind, calls, early>> /\ others' \subseteq Tracepoints
<1>1. /\ UNCHANGED <<module, kind, calls, early>> /\ tp \notin others /\ others' = others \cup {tp}
      /\ \/ tp \in Enabled /\ UNCHANGED <<mark, regCount, swept>>
         \/ tp \notin Enabled /\ Registered(Cardinality(Enabled))
  BY Zenon DEF TracerOn
<1>2. /\ others \subseteq Tracepoints /\ Cardinality(Enabled) \in 0..2 /\ regCount \in -2..2
      /\ mark \subseteq Live /\ swept \subseteq Live /\ Enabled \subseteq Tracepoints
      /\ OursOnly \subseteq Live /\ SweptNow \subseteq Live /\ InitTask \in OursOnly
  BY Here
<1>3. Enabled' = Enabled \cup {tp} /\ (ProbeOn' <=> ProbeOn) /\ (KretprobesOn' <=> KretprobesOn)
  BY <1>1 DEF Enabled, ProbeOn, KretprobesOn, Reached
<1>4. Cardinality(Enabled') = IF tp \in Enabled THEN Cardinality(Enabled) ELSE Cardinality(Enabled) + 1
  <2>1. CASE tp \in Enabled
    <3>1. Enabled' = Enabled
      BY <1>3, <2>1
    <3> QED  BY <2>1, <3>1
  <2>2. CASE tp \notin Enabled
    BY <1>2, <1>3, <2>2, Tracers
  <2> QED  BY <2>1, <2>2
<1>5. Cardinality(Enabled') \in 0..2 /\ TypeOK /\ MarkInv /\ LifeInv
  <2>1. Enabled' \subseteq Tracepoints
    BY <1>2, <1>3
  <2> QED  BY <2>1, Tracers DEF IInv
<1>6. /\ mark' \in {mark, Live, OursOnly} /\ swept' \in {swept, swept \cup SweptNow}
      /\ KretprobesOn => regCount' = IF tp \in Enabled THEN regCount ELSE regCount + 1
      /\ ~KretprobesOn => regCount' = regCount
      /\ tp \in Enabled => mark' = mark /\ swept' = swept
      /\ KretprobesOn /\ regCount = 1 /\ tp \notin Enabled => mark' = Live
  <2>1. CASE tp \in Enabled
    BY <1>1, <2>1
  <2>2. CASE tp \notin Enabled
    <3>1. Registered(Cardinality(Enabled))
      BY <1>1, <2>2
    <3> QED  BY <1>2, <1>5, <2>2, <3>1, RegisteredStep
  <2> QED  BY <2>1, <2>2
<1>7. mark' \subseteq Live /\ swept' \subseteq Live
  BY <1>2, <1>6
<1>8. ASSUME KretprobesOn
      PROVE  /\ \E base \in 0..2 : regCount' = Cardinality(Enabled') - base
             /\ ~early => regCount' = Cardinality(Enabled')
  <2>1. PICK base \in 0..2 : regCount = Cardinality(Enabled) - base /\ (~early => regCount = Cardinality(Enabled))
    BY <1>8, Here
  <2>2. regCount' = Cardinality(Enabled') - base /\ (~early => regCount' = Cardinality(Enabled'))
    BY <1>2, <1>4, <1>6, <1>8, <2>1
  <2> QED  BY <2>2
<1>9. CountInv'
  <2>1. phase' \in {"off", "dispatcher"} => regCount' = 0 /\ ~KretprobesOn
    BY <1>1, <1>6, Here DEF KretPhases
  <2> QED  BY <1>1, <1>3, <1>8, <2>1 DEF CountInv
<1>10. MarkInv'
  <2> SUFFICES ASSUME ProbeOn, ~early
               PROVE  /\ InitTask \in mark' /\ ("sys_exit" \in others' => Live \subseteq mark')
                      /\ \A t \in Tasks : (kind[t] = "zygote" /\ calls[t].seen) \/ ToZygote(t)
                            => t \in mark' \cup swept'
    BY <1>1, <1>3 DEF MarkInv, ToZygote, Live
  <2>1. KretprobesOn /\ "sys_enter" \in Enabled
    BY Here DEF ProbeOn, KretPhases, Enabled
  <2>2. /\ InitTask \in mark /\ ("sys_exit" \in others => Live \subseteq mark)
        /\ \A t \in Tasks : (kind[t] = "zygote" /\ calls[t].seen) \/ ToZygote(t) => t \in mark \cup swept
    BY <1>5 DEF MarkInv
  <2>3. CASE tp = "sys_enter"
    BY <1>1, <1>6, <2>1, <2>2, <2>3
  <2>4. CASE tp = "sys_exit"
    <3>1. tp \notin Enabled
      BY <1>1, <2>4 DEF Enabled
    <3>2. regCount = 1
      BY <1>2, <2>1, <2>4, <3>1, Tracers, Here
    <3>3. mark' = Live
      BY <1>6, <2>1, <3>1, <3>2
    <3>4. \A t \in Tasks : kind[t] = "zygote" \/ ToZygote(t) => t \in Live
      BY DEF Live, ToZygote, IInv, CallInv
    <3> QED  BY <1>2, <3>3, <3>4
  <2> QED  BY <2>3, <2>4
<1>11. regCount' \in -2..2
  <2>1. CASE KretprobesOn
    BY <1>5, <1>8, <2>1
  <2>2. CASE ~KretprobesOn
    BY <1>2, <1>6, <2>2
  <2> QED  BY <2>1, <2>2
<1>12. others' \subseteq Tracepoints
  BY <1>1, <1>2
<1> QED  BY <1>1, <1>7, <1>9, <1>10, <1>11, <1>12 DEF Marked

\* Another tracer goes.
LEMMA TracerOffStep ==
  ASSUME IInv, NEW tp \in Tracepoints, TracerOff(tp)
  PROVE  Marked /\ UNCHANGED <<module, kind, calls, early>> /\ others' \subseteq Tracepoints
<1>1. /\ UNCHANGED <<module, kind, calls, early>> /\ tp \in others /\ others' = others \ {tp}
      /\ \/ tp = "sys_enter" /\ ProbeOn /\ UNCHANGED <<mark, regCount, swept>>
         \/ ~(tp = "sys_enter" /\ ProbeOn) /\ Unregistered(Cardinality(Enabled) - 1)
  BY Zenon DEF TracerOff
<1> DEFINE kept == tp = "sys_enter" /\ ProbeOn
<1>2. /\ others \subseteq Tracepoints /\ Cardinality(Enabled) \in 0..2 /\ regCount \in -2..2
      /\ mark \subseteq Live /\ swept \subseteq Live /\ Enabled \subseteq Tracepoints
      /\ OursOnly \subseteq Live /\ SweptNow \subseteq Live /\ InitTask \in OursOnly
  BY Here
<1>3. /\ Enabled' = (IF kept THEN Enabled ELSE Enabled \ {tp}) /\ tp \in Enabled
      /\ (ProbeOn' <=> ProbeOn) /\ (KretprobesOn' <=> KretprobesOn)
  BY <1>1 DEF Enabled, ProbeOn, KretprobesOn, Reached
<1>4. Cardinality(Enabled') = IF kept THEN Cardinality(Enabled) ELSE Cardinality(Enabled) - 1
  <2>1. CASE kept
    <3>1. Enabled' = Enabled
      BY <1>3, <2>1
    <3> QED  BY <2>1, <3>1
  <2>2. CASE ~kept
    BY <1>2, <1>3, <2>2, Tracers
  <2> QED  BY <2>1, <2>2
<1>5. Cardinality(Enabled') \in 0..2 /\ TypeOK /\ MarkInv
  <2>1. Enabled' \subseteq Tracepoints
    BY <1>2, <1>3
  <2> QED  BY <2>1, Tracers DEF IInv
<1>6. /\ mark' \in {mark, {}, OursOnly} /\ swept' \in {swept, swept \cup SweptNow}
      /\ KretprobesOn => regCount' = IF kept THEN regCount ELSE regCount - 1
      /\ ~KretprobesOn => regCount' = regCount
      /\ kept => mark' = mark /\ swept' = swept
      /\ KretprobesOn /\ regCount = 2 /\ ~kept => mark' = OursOnly /\ swept' = swept \cup SweptNow
  <2>1. CASE kept
    BY <1>1, <2>1
  <2>2. CASE ~kept
    <3>1. Unregistered(Cardinality(Enabled) - 1) /\ Cardinality(Enabled) - 1 \in 0..2
      BY <1>1, <1>2, <1>4, <1>5, <2>2
    <3> QED  BY <1>5, <2>2, <3>1, UnregisteredStep
  <2> QED  BY <2>1, <2>2
<1>7. mark' \subseteq Live /\ swept' \subseteq Live
  BY <1>2, <1>6
<1>8. ASSUME KretprobesOn
      PROVE  /\ \E base \in 0..2 : regCount' = Cardinality(Enabled') - base
             /\ ~early => regCount' = Cardinality(Enabled')
  <2>1. PICK base \in 0..2 : regCount = Cardinality(Enabled) - base /\ (~early => regCount = Cardinality(Enabled))
    BY <1>8, Here
  <2>2. regCount' = Cardinality(Enabled') - base /\ (~early => regCount' = Cardinality(Enabled'))
    BY <1>2, <1>4, <1>6, <1>8, <2>1
  <2> QED  BY <2>2
<1>9. CountInv'
  <2>1. phase' \in {"off", "dispatcher"} => regCount' = 0 /\ ~KretprobesOn
    BY <1>1, <1>6, Here DEF KretPhases
  <2> QED  BY <1>1, <1>3, <1>8, <2>1 DEF CountInv
<1>10. MarkInv'
  <2> SUFFICES ASSUME ProbeOn, ~early
               PROVE  /\ InitTask \in mark' /\ ("sys_exit" \in others' => Live \subseteq mark')
                      /\ \A t \in Tasks : (kind[t] = "zygote" /\ calls[t].seen) \/ ToZygote(t)
                            => t \in mark' \cup swept'
    BY <1>1, <1>3 DEF MarkInv, ToZygote, Live
  <2>1. KretprobesOn /\ "sys_enter" \in Enabled
    BY Here DEF ProbeOn, KretPhases, Enabled
  <2>2. /\ InitTask \in mark /\ ("sys_exit" \in others => Live \subseteq mark)
        /\ \A t \in Tasks : (kind[t] = "zygote" /\ calls[t].seen) \/ ToZygote(t) => t \in mark \cup swept
    BY <1>5 DEF MarkInv
  <2>3. CASE tp = "sys_enter"
    BY <1>1, <1>6, <2>2, <2>3
  <2>4. CASE tp = "sys_exit"
    <3>1. ~kept /\ tp \in Enabled
      BY <1>1, <2>4 DEF Enabled
    <3>2. regCount = 2
      BY <1>2, <2>1, <2>4, <3>1, Tracers, Here
    <3>3. mark' = OursOnly /\ swept' = swept \cup SweptNow
      BY <1>6, <2>1, <3>1, <3>2
    <3>4. \A t \in Tasks : (kind[t] = "zygote" => t \in OursOnly) /\ (ToZygote(t) => t \in SweptNow)
      BY DEF Live, ToZygote, OursOnly, SweptNow, IInv, CallInv
    <3>5. "sys_exit" \notin others'
      BY <1>1, <2>4
    <3> QED  BY <1>2, <3>3, <3>4, <3>5
  <2> QED  BY <2>3, <2>4
<1>11. regCount' \in -2..2
  <2>1. CASE KretprobesOn
    BY <1>5, <1>8, <2>1
  <2>2. CASE ~KretprobesOn
    BY <1>2, <1>6, <2>2
  <2> QED  BY <2>1, <2>2
<1>12. others' \subseteq Tracepoints
  BY <1>1, <1>2
<1> QED  BY <1>1, <1>7, <1>9, <1>10, <1>11, <1>12 DEF Marked

\* A refresh leaves alone what another tracer needs.
LEMMA RefreshStep ==
  ASSUME IInv, Refresh
  PROVE  Marked /\ UNCHANGED <<module, kind, calls, early, others>>
<1>1. /\ UNCHANGED <<module, kind, calls, early, others, regCount>>
      /\ \/ regCount <= 1 /\ mark' = OursOnly /\ swept' = swept \cup SweptNow
         \/ UNCHANGED <<mark, swept>>
  BY Zenon DEF Refresh
<1>2. /\ regCount \in -2..2 /\ mark \subseteq Live /\ swept \subseteq Live
      /\ OursOnly \subseteq Live /\ SweptNow \subseteq Live /\ InitTask \in OursOnly
      /\ Enabled \subseteq Tracepoints
  BY Here
<1>3. Enabled' = Enabled /\ (ProbeOn' <=> ProbeOn) /\ (KretprobesOn' <=> KretprobesOn)
  BY <1>1 DEF Enabled, ProbeOn, KretprobesOn, Reached
<1>4. CountInv'
  BY <1>1, <1>3, Here DEF CountInv
<1>5. MarkInv'
  <2>1. CASE UNCHANGED <<mark, swept>>
    BY <1>1, <1>3, <2>1 DEF IInv, MarkInv, ToZygote, Live
  <2>2. CASE regCount <= 1 /\ mark' = OursOnly /\ swept' = swept \cup SweptNow
    <3>1. ASSUME ProbeOn, ~early
          PROVE  "sys_exit" \notin others
      <4>1. regCount = Cardinality(Enabled) /\ "sys_enter" \in Enabled
        BY <3>1, Here DEF ProbeOn, KretPhases, Enabled
      <4>2. "sys_exit" \in Enabled => Cardinality(Enabled) = 2
        BY <1>2, <4>1, Tracers
      <4>3. "sys_exit" \notin Enabled
        BY <2>2, <4>1, <4>2
      <4> QED  BY <4>3 DEF Enabled
    <3>2. \A t \in Tasks : (kind[t] = "zygote" => t \in OursOnly) /\ (ToZygote(t) => t \in SweptNow)
      BY DEF Live, ToZygote, OursOnly, SweptNow, IInv, CallInv
    <3> QED  BY <1>1, <1>2, <1>3, <2>2, <3>1, <3>2 DEF MarkInv, ToZygote
  <2> QED  BY <1>1, <2>1, <2>2
<1> QED  BY <1>1, <1>2, <1>4, <1>5 DEF Marked

-----------------------------------------------------------------------------
(* Tasks keep the invariant.                                                *)

\* What a step of a task has to show of calls, kinds and marks.
Tasked == /\ kind' \in [Tasks -> {"init", "child", "zygote", "service", "free"}]
          /\ calls' \in [Tasks -> Call] /\ mark' \subseteq Live' /\ swept' \subseteq Live'
          /\ CallInv' /\ MarkInv'

\* One task's part of CallInv.
CallOK(t) ==
    /\ calls[t].no = calls[t].nr \/ Redirected(t)
    /\ calls[t].nr = "execve" /\ calls[t].at # "user" => kind[t] = "child"
    /\ Redirected(t) /\ calls[t].at # "user" =>
          calls[t].at \in {"table", "dispatcher"} /\ started /\ phase \in Later
    /\ calls[t].at = "dispatcher" => calls[t].no = "spare"
    /\ calls[t].at = "tamisu_sys_read" => calls[t].nr = "read" /\ calls[t].no = "read"
    /\ calls[t].at \in {"hook", "tail"} => calls[t].nr = "execve" /\ calls[t].no = "execve"
    /\ calls[t].at \in {"hook", "tail"} \/ calls[t].seen => started /\ phase \in Later
    /\ calls[t].seen => calls[t].at = "tail" \/ kind[t] \in {"zygote", "service"}
    /\ calls[t].at = "user" /\ calls[t].answer = "real" =>
          calls[t].no = calls[t].nr /\ calls[t].nr # "spare"
    /\ calls[t].at = "user" /\ calls[t].answer = "ENOSYS" =>
          calls[t].nr = "spare" \/ (calls[t].nr = "execve" /\ phase \in {"route_off", "restored", "gone"})

\* CallInv, call by call.
LEMMA CallParts == CallInv <=> kind[InitTask] = "init" /\ \A t \in Tasks : CallOK(t)
BY DEF CallInv, CallOK

\* The others keep theirs when one task moves.
LEMMA Others ==
  ASSUME IInv, NEW t \in Tasks, Moved(t), UNCHANGED <<module, others, early>>,
         \A u \in Tasks : u # t => kind'[u] = kind[u], t = InitTask => kind'[t] = kind[t],
         CallOK(t)'
  PROVE  CallInv'
<1>1. kind[InitTask] = "init" /\ \A u \in Tasks : CallOK(u)
  BY CallParts DEF IInv
<1>2. ASSUME NEW u \in Tasks, u # t PROVE CallOK(u)'
  <2>1. calls'[u] = calls[u] /\ kind'[u] = kind[u] /\ phase' = phase /\ started' = started /\ CallOK(u)
    BY <1>1, <1>2 DEF Moved
  <2> QED  BY <2>1 DEF CallOK, Redirected
<1>3. kind'[InitTask] = "init"
  BY <1>1, InitAssumption
<1> QED  BY <1>2, <1>3 DEF CallInv, CallOK

\* A task moves and keeps its kind and all marks.
LEMMA KeepsMarks ==
  ASSUME IInv, NEW t \in Tasks, Moved(t), UNCHANGED <<module, tracing, kind>>, CallOK(t)',
         calls'[t].seen = calls[t].seen,
         ToZygote(t)' => ToZygote(t) \/ (ProbeOn /\ t \in mark)
  PROVE  Tasked
<1>1. /\ phase' = phase /\ started' = started /\ others' = others /\ early' = early
      /\ mark' = mark /\ swept' = swept /\ kind' = kind
  OBVIOUS
<1>2. TypeOK /\ MarkInv
  BY DEF IInv
<1>3. CallInv'
  BY <1>1, Others
<1>4. MarkInv'
  <2>1. \A u \in Tasks : u # t => (ToZygote(u)' <=> ToZygote(u)) /\ calls'[u].seen = calls[u].seen
    BY DEF Moved, ToZygote
  <2> QED  BY <1>1, <1>2, <2>1 DEF MarkInv, ProbeOn, Live
<1> QED  BY <1>1, <1>2, <1>3, <1>4 DEF Tasked, Moved, TypeOK, Live

\* init forks.
LEMMA ForkStep ==
  ASSUME IInv, NEW t \in Tasks, Fork(t)
  PROVE  Tasked
<1>1. /\ UNCHANGED <<module, others, regCount, swept, early, calls>>
      /\ kind[t] = "free" /\ kind' = [kind EXCEPT ![t] = "child"]
      /\ mark' = IF InitTask \in mark THEN mark \cup {t} ELSE mark
  BY Zenon DEF Fork
<1>2. TypeOK /\ MarkInv /\ CallInv
  BY DEF IInv
<1>3. /\ kind \in [Tasks -> {"init", "child", "zygote", "service", "free"}]
      /\ calls \in [Tasks -> Call] /\ mark \subseteq Live /\ swept \subseteq Live
  BY <1>2 DEF TypeOK
<1>4. /\ kind' \in [Tasks -> {"init", "child", "zygote", "service", "free"}]
      /\ kind'[t] = "child" /\ \A u \in Tasks : u # t => kind'[u] = kind[u]
  BY <1>1, <1>3
<1>5. Live' = Live \cup {t}
  BY <1>4 DEF Live
<1>6. CallInv'
  <2>1. kind[InitTask] = "init" /\ CallOK(t)
    BY <1>2, CallParts
  <2>2. CallOK(t)'
    BY <1>1, <1>4, <2>1 DEF CallOK, Redirected
  <2>3. Moved(t) /\ t # InitTask
    BY <1>1, <1>3, <2>1 DEF Moved
  <2> QED  BY <1>1, <1>4, <2>2, <2>3, Others
<1>7. MarkInv'
  BY <1>1, <1>2, <1>4, <1>5 DEF MarkInv, ToZygote, ProbeOn
<1>8. mark' \subseteq Live' /\ swept' \subseteq Live'
  BY <1>1, <1>3, <1>5
<1> QED  BY <1>1, <1>3, <1>4, <1>6, <1>7, <1>8 DEF Tasked

\* A task enters a call: a redirected one is marked.
LEMMA EnterInv ==
  ASSUME IInv, NEW t \in Tasks, NEW nr \in Slots, NEW path \in {"zygote", "service"},
         Enter(t, nr, path)
  PROVE  Tasked
<1>1. /\ UNCHANGED <<module, tracing, kind>> /\ Moved(t)
      /\ calls[t].at = "user" /\ (nr = "execve" => kind[t] = "child")
      /\ calls'[t].nr = nr /\ calls'[t].path = path /\ calls'[t].at = "table"
      /\ calls'[t].seen = calls[t].seen
      /\ \/ calls'[t].no = nr
         \/ /\ calls'[t].no = "spare" /\ nr = "execve" /\ t \in mark /\ ProbeOn /\ dispNr /\ route
  BY EnterStep DEF IInv
<1>2. CallOK(t)
  BY CallParts DEF IInv
<1>3. CallOK(t)'
  BY <1>1, <1>2 DEF CallOK, Redirected, ProbeOn, Later
<1>4. ToZygote(t)' => ProbeOn /\ t \in mark
  BY <1>1 DEF ToZygote
<1> QED  BY <1>1, <1>3, <1>4, KeepsMarks

\* The real call: who passed through the dispatcher becomes a zygote with its
\* mark.
LEMMA RunsInv ==
  ASSUME IInv, NEW t \in Tasks, Runs(t), UNCHANGED <<module, tracing>>,
         calls[t].at # "user", calls[t].no = calls[t].nr, calls[t].nr # "spare"
  PROVE  Tasked
<1>1. /\ Moved(t) /\ calls'[t].nr = calls[t].nr /\ calls'[t].path = calls[t].path
      /\ calls'[t].seen = calls[t].seen /\ calls'[t].no = calls[t].no
      /\ calls'[t].at = "user" /\ calls'[t].answer = "real"
      /\ kind' = IF calls[t].nr = "execve" THEN [kind EXCEPT ![t] = Becomes(calls[t].path)] ELSE kind
  BY DEF Runs, Ends, Keeps
<1>2. CallOK(t) /\ kind[InitTask] = "init" /\ MarkInv /\ TypeOK
  BY CallParts DEF IInv
<1>3. /\ kind \in [Tasks -> {"init", "child", "zygote", "service", "free"}]
      /\ mark \subseteq Live /\ swept \subseteq Live
  BY <1>2 DEF TypeOK
<1>4. Becomes(calls[t].path) \in {"zygote", "service"} /\ (Becomes(calls[t].path) = "zygote" => calls[t].path = "zygote")
  BY DEF Becomes
<1>5. CASE calls[t].nr = "execve"
  <2>1. kind[t] = "child" /\ t # InitTask
    BY <1>2, <1>5 DEF CallOK
  <2>2. /\ kind' \in [Tasks -> {"init", "child", "zygote", "service", "free"}]
        /\ kind'[t] = Becomes(calls[t].path) /\ \A u \in Tasks : u # t => kind'[u] = kind[u]
    BY <1>1, <1>3, <1>4, <1>5
  <2>3. Live' = Live
    BY <1>4, <2>1, <2>2 DEF Live
  <2>4. CallOK(t)'
    BY <1>1, <1>2, <1>4, <2>2 DEF CallOK, Redirected
  <2>5. CallInv'
    BY <1>1, <2>1, <2>2, <2>4, Others
  <2>6. kind'[t] = "zygote" /\ calls'[t].seen => ToZygote(t)
    BY <1>1, <1>2, <1>4, <1>5, <2>1, <2>2 DEF CallOK, ToZygote
  <2>7. ~ToZygote(t)' /\ \A u \in Tasks : u # t => (ToZygote(u)' <=> ToZygote(u)) /\ calls'[u].seen = calls[u].seen
    BY <1>1 DEF Moved, ToZygote
  <2>8. MarkInv'
    BY <1>2, <2>2, <2>3, <2>6, <2>7 DEF MarkInv, ProbeOn
  <2> QED  BY <1>1, <1>3, <2>2, <2>3, <2>5, <2>8 DEF Tasked, Moved
<1>6. CASE calls[t].nr # "execve"
  <2>1. CallOK(t)'
    BY <1>1, <1>2, <1>6 DEF CallOK, Redirected
  <2>2. ~ToZygote(t)'
    BY <1>1 DEF ToZygote
  <2> QED  BY <1>1, <1>6, <2>1, <2>2, KeepsMarks
<1> QED  BY <1>5, <1>6

\* The table leads a redirected call to the dispatcher, and every other one to
\* the kernel's function or to the read hook.
LEMMA ViaTableInv ==
  ASSUME IInv, NEW t \in Tasks, ViaTable(t)
  PROVE  Tasked
<1>1. /\ UNCHANGED <<module, tracing>> /\ calls[t].at = "table"
      /\ \/ table[calls[t].no] \in {"sys_execve", "sys_read"} /\ Runs(t)
         \/ table[calls[t].no] = "ni" /\ Ends(t, "ENOSYS") /\ UNCHANGED kind
         \/ /\ table[calls[t].no] \in {"dispatcher", "tamisu_sys_read"} /\ UNCHANGED kind
            /\ Moved(t) /\ Keeps(t) /\ calls'[t].no = calls[t].no
            /\ calls'[t].at = table[calls[t].no]
  BY ViaTableStep DEF IInv
<1>2. CallOK(t) /\ TableInv
  BY CallParts DEF IInv
<1>3. calls[t].no \in Slots
  <2>1. calls[t] \in Call
    BY DEF IInv, TypeOK
  <2> QED  BY <2>1 DEF Call
<1>4. /\ table["execve"] = "sys_execve" /\ table["read"] \in {"sys_read", "tamisu_sys_read"}
      /\ table["spare"] \in {"ni", "dispatcher"}
      /\ started /\ phase \notin {"route_off", "restored", "gone"} => table["spare"] = "dispatcher"
  BY <1>2, KernelIs DEF TableInv
<1>5. CASE table[calls[t].no] \in {"sys_execve", "sys_read"} /\ Runs(t)
  <2>1. calls[t].no # "spare"
    BY <1>4, <1>5
  <2>2. calls[t].no = calls[t].nr
    BY <1>2, <2>1 DEF CallOK, Redirected
  <2> QED  BY <1>1, <1>5, <2>1, <2>2, RunsInv
<1>6. CASE table[calls[t].no] = "ni" /\ Ends(t, "ENOSYS") /\ UNCHANGED kind
  <2>1. calls[t].no = "spare"
    BY <1>3, <1>4, <1>6
  <2>2. calls[t].nr = "spare" \/ (calls[t].nr = "execve" /\ phase \in {"route_off", "restored", "gone"})
    BY <1>1, <1>2, <1>4, <1>6, <2>1 DEF CallOK, Redirected
  <2>3. /\ Moved(t) /\ calls'[t].nr = calls[t].nr /\ calls'[t].no = calls[t].no
        /\ calls'[t].seen = calls[t].seen /\ calls'[t].at = "user" /\ calls'[t].answer = "ENOSYS"
    BY <1>6 DEF Ends, Keeps
  <2>4. CallOK(t)' /\ ~ToZygote(t)'
    BY <1>1, <1>2, <1>6, <2>2, <2>3 DEF CallOK, Redirected, ToZygote
  <2> QED  BY <1>1, <1>6, <2>3, <2>4, KeepsMarks
<1>7. CASE /\ table[calls[t].no] \in {"dispatcher", "tamisu_sys_read"} /\ UNCHANGED kind
           /\ Moved(t) /\ Keeps(t) /\ calls'[t].no = calls[t].no
           /\ calls'[t].at = table[calls[t].no]
  <2>1. /\ calls'[t].at \in {"dispatcher", "tamisu_sys_read"}
        /\ calls'[t].at = "dispatcher" => calls[t].no = "spare"
        /\ calls'[t].at = "tamisu_sys_read" => calls[t].no = "read"
    BY <1>3, <1>4, <1>7
  <2>2. CallOK(t)'
    BY <1>1, <1>2, <1>7, <2>1 DEF CallOK, Redirected, Keeps
  <2>3. ToZygote(t)' => ToZygote(t)
    BY <1>1, <1>7, <2>1 DEF ToZygote, Keeps
  <2> QED  BY <1>1, <1>7, <2>2, <2>3, KeepsMarks DEF Keeps
<1> QED  BY <1>1, <1>5, <1>6, <1>7

\* The dispatcher puts the number back, and refuses only a direct call, or one
\* that comes when the route is gone.
LEMMA DispatchInv ==
  ASSUME IInv, NEW t \in Tasks, Dispatch(t)
  PROVE  Tasked
<1>1. /\ UNCHANGED <<module, tracing, kind>> /\ calls[t].at = "dispatcher" /\ Moved(t)
      /\ calls'[t].nr = calls[t].nr /\ calls'[t].path = calls[t].path /\ calls'[t].seen = calls[t].seen
      /\ \/ /\ dispNr /\ calls[t].nr # calls[t].no /\ calls'[t].no = calls[t].nr
            /\ \/ route /\ calls[t].nr = "execve" /\ calls'[t].at = "hook"
               \/ /\ ~(route /\ calls[t].nr = "execve")
                  /\ calls'[t].at = "user" /\ calls'[t].answer = "ENOSYS"
         \/ /\ ~(dispNr /\ calls[t].nr # calls[t].no) /\ calls'[t].no = calls[t].no
            /\ calls'[t].at = "user" /\ calls'[t].answer = "ENOSYS"
  BY DispatchStep DEF IInv, Keeps, Ends, Routed
<1>2. CallOK(t) /\ LifeInv
  BY CallParts DEF IInv
<1>3. CallOK(t)'
  BY <1>1, <1>2 DEF CallOK, Redirected, LifeInv, Later
<1>4. ToZygote(t)' => ToZygote(t)
  BY <1>1, <1>2 DEF ToZygote, CallOK
<1> QED  BY <1>1, <1>3, <1>4, KeepsMarks

\* The execve hook takes the mark of a service alone, when nobody else traces.
LEMMA ExecveHookInv ==
  ASSUME IInv, NEW t \in Tasks, ExecveHook(t)
  PROVE  Tasked
<1>1. /\ UNCHANGED <<module, others, regCount, swept, early, kind>>
      /\ calls[t].at = "hook" /\ Moved(t)
      /\ calls'[t].nr = calls[t].nr /\ calls'[t].no = calls[t].no /\ calls'[t].path = calls[t].path
      /\ calls'[t].at = "tail"
      /\ mark' = mark \/ (/\ kind[t] = "child" /\ calls[t].path = "service" /\ regCount <= 1
                          /\ mark' = mark \ {t})
  BY ExecveHookStep DEF IInv
<1>2. CallOK(t) /\ kind[InitTask] = "init" /\ MarkInv /\ TypeOK
  BY CallParts DEF IInv
<1>3. CallOK(t)'
  BY <1>1, <1>2 DEF CallOK, Redirected
<1>4. CallInv'
  BY <1>1, <1>3, Others
<1>5. MarkInv'
  <2> SUFFICES ASSUME ProbeOn, ~early
               PROVE  /\ InitTask \in mark' /\ ("sys_exit" \in others => Live \subseteq mark')
                      /\ \A u \in Tasks : (kind[u] = "zygote" /\ calls'[u].seen) \/ ToZygote(u)'
                            => u \in mark' \cup swept
    BY <1>1 DEF MarkInv, ProbeOn, Live
  <2>1. /\ InitTask \in mark /\ ("sys_exit" \in others => Live \subseteq mark)
        /\ \A u \in Tasks : (kind[u] = "zygote" /\ calls[u].seen) \/ ToZygote(u) => u \in mark \cup swept
    BY <1>2 DEF MarkInv
  <2>2. \A u \in Tasks : u # t => (ToZygote(u)' <=> ToZygote(u)) /\ calls'[u].seen = calls[u].seen
    BY <1>1 DEF Moved, ToZygote
  <2>3. kind[t] = "child" /\ (ToZygote(t)' => ToZygote(t) /\ calls[t].path = "zygote")
    BY <1>1, <1>2 DEF CallOK, ToZygote
  <2>4. CASE mark' = mark
    BY <2>1, <2>2, <2>3, <2>4
  <2>5. CASE calls[t].path = "service" /\ regCount <= 1 /\ mark' = mark \ {t}
    <3>1. "sys_exit" \notin others
      <4>1. regCount = Cardinality(Enabled) /\ "sys_enter" \in Enabled /\ Enabled \subseteq Tracepoints
        BY Here DEF ProbeOn, KretPhases, Enabled
      <4>2. "sys_exit" \in Enabled => Cardinality(Enabled) = 2
        BY <4>1, Tracers
      <4>3. "sys_exit" \notin Enabled
        BY <2>5, <4>1, <4>2
      <4> QED  BY <4>3 DEF Enabled
    <3>2. t # InitTask /\ ~ToZygote(t)'
      BY <1>2, <2>3, <2>5
    <3> QED  BY <2>1, <2>2, <2>3, <2>5, <3>1, <3>2
  <2> QED  BY <1>1, <2>4, <2>5
<1>6. mark' \subseteq Live' /\ swept' \subseteq Live' /\ kind' \in [Tasks -> {"init", "child", "zygote", "service", "free"}]
  BY <1>1, <1>2 DEF TypeOK, Live
<1> QED  BY <1>1, <1>4, <1>5, <1>6 DEF Tasked, Moved

\* All steps of a task.
LEMMA TaskStep ==
  ASSUME IInv, NEW t \in Tasks, Task(t)
  PROVE  Tasked /\ UNCHANGED <<module, others, regCount, early>>
<1>1. CASE Fork(t)
  <2>1. UNCHANGED <<module, others, regCount, early>>
    BY <1>1, Zenon DEF Fork
  <2> QED  BY <1>1, <2>1, ForkStep
<1>2. CASE ViaTable(t)
  <2>1. UNCHANGED <<module, others, regCount, early>>
    BY <1>2, Zenon DEF ViaTable
  <2> QED  BY <1>2, <2>1, ViaTableInv
<1>3. CASE ReadHook(t)
  <2>1. calls[t].at = "tamisu_sys_read" /\ RealCall(t) /\ UNCHANGED <<module, tracing>>
    BY <1>3, Zenon DEF ReadHook
  <2>2. calls[t].nr = "read" /\ calls[t].no = "read"
    BY <2>1 DEF IInv, CallInv
  <2>3. Runs(t)
    BY <2>1, RealCallStep DEF IInv
  <2> QED  BY <2>1, <2>2, <2>3, RunsInv
<1>4. CASE Dispatch(t)
  BY <1>4, DispatchInv, DispatchStep DEF IInv
<1>5. CASE ExecveHook(t)
  BY <1>5, ExecveHookInv, ExecveHookStep DEF IInv
<1>6. CASE ExecveTail(t)
  <2>1. calls[t].at = "tail" /\ RealCall(t) /\ UNCHANGED <<module, tracing>>
    BY <1>6, Zenon DEF ExecveTail
  <2>2. calls[t].nr = "execve" /\ calls[t].no = "execve"
    BY <2>1 DEF IInv, CallInv
  <2>3. Runs(t)
    BY <2>1, RealCallStep DEF IInv
  <2> QED  BY <2>1, <2>2, <2>3, RunsInv
<1>7. ASSUME NEW nr \in Slots, NEW path \in {"zygote", "service"}, Enter(t, nr, path)
      PROVE  Tasked /\ UNCHANGED <<module, others, regCount, early>>
  BY <1>7, EnterInv, EnterStep DEF IInv
<1> QED  BY <1>1, <1>2, <1>3, <1>4, <1>5, <1>6, <1>7 DEF Task, InKernel

-----------------------------------------------------------------------------
(* The theorems.                                                            *)

\* The invariant holds before the module is loaded ...
LEMMA InitOK == Init => IInv
<1> SUFFICES ASSUME Init PROVE IInv
  OBVIOUS
<1>1. /\ phase = "off" /\ started = FALSE /\ table = Kernel /\ entries = <<>>
      /\ route = FALSE /\ dispNr = FALSE /\ others = {} /\ regCount = 0
      /\ mark = {} /\ swept = {} /\ early = FALSE
      /\ kind = [t \in Tasks |-> IF t = InitTask THEN "init" ELSE "free"]
      /\ calls = [t \in Tasks |-> NoCall]
  BY Zenon DEF Init
<1>2. phase \in PhaseSet
  BY <1>1 DEF PhaseSet
<1>3. /\ NoCall \in Call /\ NoCall.at = "user" /\ NoCall.nr = "execve" /\ NoCall.no = "execve"
      /\ NoCall.seen = FALSE /\ NoCall.answer = "none"
  BY DEF NoCall, Call
<1>4. TypeOK
  <2>1. \E i \in DOMAIN Phases : phase = Phases[i]
    BY <1>2, PhaseNamed
  <2>2. table \in [Slots -> {"ni", "sys_execve", "sys_read", "dispatcher", "tamisu_sys_read"}]
    BY <1>1, KernelIs
  <2>3. entries \in Seq([nr : Slots, orig : {"ni", "sys_execve", "sys_read"}])
    BY <1>1
  <2>4. kind \in [Tasks -> {"init", "child", "zygote", "service", "free"}] /\ calls \in [Tasks -> Call]
    BY <1>1, <1>3
  <2>5. {started, route, dispNr, early} \subseteq BOOLEAN
    BY <1>1
  <2>6. others \subseteq Tracepoints /\ regCount \in -2..2 /\ mark \subseteq Live /\ swept \subseteq Live
    BY <1>1
  <2> QED  BY <2>1, <2>2, <2>3, <2>4, <2>5, <2>6 DEF TypeOK
<1>5. LifeInv
  BY <1>1 DEF LifeInv
<1>6. EntriesInv
  BY <1>1 DEF EntriesInv
<1>7. TableInv
  BY <1>1 DEF TableInv
<1>8. CallInv
  BY <1>1, <1>3, InitAssumption DEF CallInv, Redirected
<1>9. CountInv /\ MarkInv
  BY <1>1 DEF CountInv, MarkInv, KretprobesOn, ProbeOn
<1> QED  BY <1>4, <1>5, <1>6, <1>7, <1>8, <1>9 DEF IInv

\* What load and unload change of the types.
LEMMA ModuleInv ==
  ASSUME IInv, Load \/ UnhookRead \/ Unload
  PROVE  IInv'
<1>1. /\ others' = others /\ kind' = kind /\ calls' = calls
      /\ EntriesInv' /\ entries' \in Seq(Entry) /\ table' \in [Slots -> Functs]
      /\ phase' \in PhaseSet /\ {started', route', dispNr', early'} \subseteq BOOLEAN
      /\ LifeInv' /\ TableInv'
      /\ started /\ phase \in Later => started' /\ phase' \in Later
      /\ phase \in {"route_off", "restored", "gone"} => phase' \in {"route_off", "restored", "gone"}
  BY ModuleStep
<1>2. Marked
  BY UnmarkingStep, InstallMarkerStep, RegisterProbeStep, RemoveProbeStep DEF Load, Unload, Unmarking
<1>3. TypeOK'
  <2>1. \E i \in DOMAIN Phases : phase' = Phases[i]
    BY <1>1, PhaseNamed
  <2>2. Live' = Live
    BY <1>1 DEF Live
  <2> QED  BY <1>1, <1>2, <2>1, <2>2 DEF IInv, TypeOK, Marked, Functs, Entry
<1>4. CallInv'
  <2>1. kind[InitTask] = "init" /\ \A t \in Tasks : CallOK(t)
    BY CallParts DEF IInv
  <2>2. ASSUME NEW t \in Tasks PROVE CallOK(t)'
    <3>1. CallOK(t)
      BY <2>1
    <3> QED  BY <1>1, <3>1 DEF CallOK, Redirected
  <2> QED  BY <1>1, <2>1, <2>2 DEF CallInv, CallOK
<1> QED  BY <1>1, <1>2, <1>3, <1>4 DEF IInv, Marked

\* The steps of the other tracers keep the invariant.
LEMMA TracerInv ==
  ASSUME IInv, Tracer
  PROVE  IInv'
<1>1. Marked /\ UNCHANGED <<module, kind, calls, early>> /\ others' \subseteq Tracepoints
  <2>1. CASE Refresh
    BY <2>1, RefreshStep DEF IInv, TypeOK
  <2> QED  BY <2>1, TracerOnStep, TracerOffStep DEF Tracer
<1>2. TypeOK'
  <2>1. Live' = Live
    BY <1>1 DEF Live
  <2> QED  BY <1>1, <2>1 DEF IInv, TypeOK, Marked
<1>3. LifeInv' /\ EntriesInv' /\ TableInv' /\ CallInv'
  BY <1>1 DEF IInv, LifeInv, EntriesInv, TableInv, CallInv, Hooked, Redirected
<1> QED  BY <1>1, <1>2, <1>3 DEF IInv, Marked

\* The steps of the tasks keep the invariant.
LEMMA TaskInv ==
  ASSUME IInv, NEW t \in Tasks, Task(t)
  PROVE  IInv'
<1>1. Tasked /\ UNCHANGED <<module, others, regCount, early>>
  BY TaskStep
<1>2. TypeOK'
  BY <1>1 DEF IInv, TypeOK, Tasked
<1>3. LifeInv' /\ EntriesInv' /\ TableInv'
  BY <1>1 DEF IInv, LifeInv, EntriesInv, TableInv, Hooked
<1>4. Enabled' = Enabled /\ (KretprobesOn' <=> KretprobesOn)
  BY <1>1 DEF Enabled, ProbeOn, KretprobesOn, Reached
<1>5. CountInv'
  BY <1>1, <1>4, Here DEF CountInv
<1> QED  BY <1>1, <1>2, <1>3, <1>5 DEF IInv, Tasked

\* ... and every step keeps it.
LEMMA InvStep == IInv /\ [Next]_vars => IInv'
<1> SUFFICES ASSUME IInv, [Next]_vars PROVE IInv'
  OBVIOUS
<1>1. CASE UNCHANGED vars
  <2>1. /\ phase' = phase /\ started' = started /\ table' = table /\ entries' = entries
        /\ route' = route /\ dispNr' = dispNr /\ others' = others /\ regCount' = regCount
        /\ mark' = mark /\ swept' = swept /\ early' = early /\ kind' = kind /\ calls' = calls
    BY <1>1, Zenon DEF vars
  <2>2. TypeOK' /\ LifeInv' /\ EntriesInv' /\ TableInv' /\ CallInv'
    BY <2>1 DEF IInv, TypeOK, Live, LifeInv, EntriesInv, TableInv, CallInv, Hooked, Redirected
  <2>3. (ProbeOn' <=> ProbeOn) /\ Enabled' = Enabled /\ (KretprobesOn' <=> KretprobesOn)
    BY <2>1 DEF Enabled, ProbeOn, KretprobesOn, Reached
  <2>4. CountInv' /\ MarkInv'
    BY <2>1, <2>3 DEF IInv, CountInv, MarkInv, Live, ToZygote
  <2> QED  BY <2>2, <2>4 DEF IInv
<1> QED  BY <1>1, ModuleInv, TracerInv, TaskInv DEF Next

\* The module's life, the table, the calls under way, the count and the marks
\* are related as IInv says, in every state.
THEOREM Invariant == Spec => []IInv
BY InitOK, InvStep, PTL DEF Spec

\* Every variable keeps its type; the count of the tracepoints stays between -2
\* and 2.
THEOREM TypeCorrect == Spec => []TypeOK
<1>1. IInv => TypeOK
  BY DEF IInv
<1> QED  BY <1>1, Invariant, PTL

\* A call gets the kernel's answer for the number it asked for, with its number
\* back in its registers, and the table accounts for every slot that is not the
\* kernel's and is whole when a started module is gone.
THEOREM UnharmedHolds == Spec => [](AnswersHonest /\ NumberRestored /\ TableAccounted)
<1>1. IInv => AnswersHonest
  <2> SUFFICES ASSUME IInv, NEW t \in Tasks, calls[t].answer # "none", calls[t].at = "user"
               PROVE  \/ calls[t].answer = IF calls[t].nr = "spare" THEN "ENOSYS" ELSE "real"
                      \/ calls[t].answer = "ENOSYS" /\ calls[t].nr = "execve" /\ Reached("route_off")
    BY DEF AnswersHonest
  <2>1. calls[t].answer \in {"real", "ENOSYS"}
    <3>1. calls[t] \in Call
      BY DEF IInv, TypeOK
    <3> QED  BY <3>1 DEF Call
  <2>2. Reached("route_off") <=> phase \in {"route_off", "restored", "gone"}
    BY PhaseFacts DEF IInv, TypeOK
  <2> QED  BY <2>1, <2>2 DEF IInv, CallInv
<1>2. IInv => NumberRestored
  BY DEF IInv, CallInv, NumberRestored
<1>3. IInv => TableAccounted
  <2> SUFFICES ASSUME IInv PROVE TableAccounted
    OBVIOUS
  <2>1. entries \in Seq(Entry) /\ table \in [Slots -> Functs] /\ EntriesInv /\ TableInv
    BY DEF IInv, TypeOK, Entry, Functs
  <2>2. ASSUME NEW s \in Slots, table[s] # Kernel[s]
        PROVE  \E i \in DOMAIN entries : entries[i] = [nr |-> s, orig |-> Kernel[s]]
    <3>1. PICK i \in DOMAIN entries : entries[i].nr = s
      BY <2>1, <2>2 DEF EntriesInv, Hooked
    <3>2. entries[i] \in Entry /\ entries[i].orig = Kernel[s]
      BY <2>1, <3>1 DEF EntriesInv
    <3>3. entries[i] = [nr |-> s, orig |-> Kernel[s]]
      BY <3>1, <3>2 DEF Entry
    <3> QED  BY <3>3
  <2>3. ASSUME started, phase \in {"restored", "gone"}
        PROVE  table = Kernel
    <3>1. entries = <<>>
      BY <2>1, <2>3 DEF TableInv
    <3>2. \A s \in Slots : table[s] = Kernel[s]
      BY <2>1, <3>1 DEF EntriesInv, Hooked
    <3> QED  BY <2>1, <3>2, KernelIs
  <2> QED  BY <2>1, <2>2, <2>3 DEF TableAccounted, EntriesInv
<1> QED  BY <1>1, <1>2, <1>3, Invariant, PTL

\* When no other tracer came first, the count is right and init and the zygotes
\* stay marked while the probe is in, whatever tracers come and go.
THEOREM OursStayMarkedHolds == Spec => []OursStayMarked
<1>1. IInv => OursStayMarked
  <2> SUFFICES ASSUME IInv, ProbeOn, ~early
               PROVE  /\ regCount = Cardinality(Enabled) /\ InitTask \in mark
                      /\ \A t \in Live : kind[t] = "zygote" /\ calls[t].seen /\ t \notin swept => t \in mark
    BY DEF OursStayMarked
  <2>1. regCount = Cardinality(Enabled)
    BY Here DEF ProbeOn, KretPhases
  <2> QED  BY <2>1 DEF IInv, MarkInv, Live
<1> QED  BY <1>1, Invariant, PTL

\* A tracer of sys_exit that came after the module sees every task.
THEOREM ExitTracerSeesAllHolds == Spec => []ExitTracerSeesAll
<1>1. IInv => ExitTracerSeesAll
  BY DEF IInv, MarkInv, ExitTracerSeesAll, ProbeOn
<1> QED  BY <1>1, Invariant, PTL
=============================================================================

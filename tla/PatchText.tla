------------------------------ MODULE PatchText ------------------------------
(***************************************************************************)
(* Writing read-only kernel memory (core/tamisu_patch_memory.c).           *)
(*                                                                         *)
(* tamisu_patch_text runs one callback on every online CPU.  The CPUs      *)
(* count themselves in; the last to arrive writes the bytes and counts     *)
(* once more, the others spin until they see that extra count.  Of         *)
(* stop_machine (external) we assume only that calls are serialised, that  *)
(* each online CPU runs the callback once per call, at any time, that CPUs *)
(* do not come or go meanwhile, and that any CPU's error is the result.    *)
(* In particular a CPU that has not entered the callback yet, or has left  *)
(* it, is taken to execute kernel code that reads the memory.              *)
(***************************************************************************)
EXTENDS Naturals, FiniteSets

CONSTANTS Cpus,    \* the online CPUs; num_online_cpus() is their number
          Words,   \* the words that one call writes, one at a time
          Values,  \* the contents the callers install (pointers of a table)
          Boot     \* the content at boot

ASSUME PatchAssumption ==
  /\ IsFiniteSet(Cpus) /\ Cpus # {} /\ Words # {}
  /\ Boot \in Values

VARIABLES
  text,       \* the memory at dst
  info,       \* patch_text_info: src and cpu_count of the call in progress
  pc,         \* each CPU: run, copy, spin, left
  written,    \* the words the copying CPU has written
  error,      \* has the callback returned an error on some CPU?
  before      \* history: the memory when the call began

patchVars == <<text, info, pc, written, error, before>>

N == Cardinality(Cpus)
Content(v) == [w \in Words |-> v]
NoPatch == [src |-> Boot, count |-> 0, active |-> FALSE]

PatchInit ==
  /\ text = Content(Boot) /\ before = Content(Boot)
  /\ info = NoPatch
  /\ pc = [c \in Cpus |-> "run"]
  /\ written = {} /\ error = FALSE

\* tamisu_patch_text: a caller enters stop_machine.
PatchCall(v) ==
  /\ ~info.active
  /\ info' = [src |-> v, count |-> 0, active |-> TRUE]
  /\ before' = text
  /\ written' = {} /\ error' = FALSE
  /\ UNCHANGED <<text, pc>>

\* atomic_inc_return: the CPU that reaches the number of CPUs is the patcher.
Arrive(c) ==
  /\ info.active /\ pc[c] = "run"
  /\ info' = [info EXCEPT !.count = @ + 1]
  /\ pc' = [pc EXCEPT ![c] = IF info.count + 1 = N THEN "copy" ELSE "spin"]
  /\ UNCHANGED <<text, written, error, before>>

\* tamisu_patch_text_nosync fails before the copy: the address is not mapped
\* or __set_fixmap is not found.  The CPU counts once more all the same.
PatchFailsMut(c) ==
  /\ pc[c] = "copy" /\ written = {}
  /\ error' = TRUE
  /\ pc' = [pc EXCEPT ![c] = "left"]
  /\ UNCHANGED <<text, info, written, before>>
PatchFails(c) ==
  /\ pc[c] = "copy" /\ written = {}
  /\ error' = TRUE
  /\ info' = [info EXCEPT !.count = @ + 1]
  /\ pc' = [pc EXCEPT ![c] = "left"]
  /\ UNCHANGED <<text, written, before>>

\* memcpy through the fixmap.
Copy(c, w) ==
  /\ pc[c] = "copy" /\ w \notin written
  /\ text' = [text EXCEPT ![w] = info.src]
  /\ written' = written \cup {w}
  /\ UNCHANGED <<info, pc, error, before>>

\* The copy is complete and flushed; atomic_inc lets the others go.
PatchDoneMut(c) ==
  /\ pc[c] = "copy" /\ written # {}
  /\ info' = [info EXCEPT !.count = @ + 1]
  /\ pc' = [pc EXCEPT ![c] = "left"]
  /\ UNCHANGED <<text, written, error, before>>
PatchDone(c) ==
  /\ pc[c] = "copy" /\ written = Words
  /\ info' = [info EXCEPT !.count = @ + 1]
  /\ pc' = [pc EXCEPT ![c] = "left"]
  /\ UNCHANGED <<text, written, error, before>>

\* while (cpu_count <= num_online_cpus()) cpu_relax();
LeaveAtLast(c) ==
  /\ pc[c] = "spin" /\ info.count >= N
  /\ pc' = [pc EXCEPT ![c] = "left"]
  /\ UNCHANGED <<text, info, written, error, before>>
Leave(c) ==
  /\ pc[c] = "spin" /\ info.count > N
  /\ pc' = [pc EXCEPT ![c] = "left"]
  /\ UNCHANGED <<text, info, written, error, before>>

\* stop_machine returns to the caller.
Return ==
  /\ info.active /\ \A c \in Cpus : pc[c] = "left"
  /\ info' = [info EXCEPT !.active = FALSE]
  /\ pc' = [c \in Cpus |-> "run"]
  /\ UNCHANGED <<text, written, error, before>>

Callback(c) ==
  \/ Arrive(c) \/ PatchFails(c) \/ PatchDone(c) \/ Leave(c)
  \/ \E w \in Words : Copy(c, w)

PatchNext == Return \/ (\E v \in Values : PatchCall(v)) \/ (\E c \in Cpus : Callback(c))

PatchSpec == PatchInit /\ [][PatchNext]_patchVars

\* Every online CPU runs the callback, undisturbed, and stop_machine returns.
PatchFairSpec == PatchSpec /\ WF_patchVars(Return) /\ \A c \in Cpus : WF_patchVars(Callback(c))

-----------------------------------------------------------------------------
\* Type invariant; the counter never passes the number of CPUs by more than one.
PatchTypeOK ==
  /\ text \in [Words -> Values] /\ before \in [Words -> Values]
  /\ info \in [src : Values, count : 0..N + 1, active : BOOLEAN]
  /\ pc \in [Cpus -> {"run", "copy", "spin", "left"}]
  /\ written \subseteq Words
  /\ error \in BOOLEAN

\* A CPU outside the callback never reads a half-written text.
Executing == {c \in Cpus : pc[c] \in {"run", "left"}}
NoTornText == Executing # {} => \E v \in Values : text = Content(v)

\* The memory is written only while every CPU is in the callback, none has
\* left it, and a single one is past the counter.
StoppedWhileWritten ==
  [][text' # text =>
       \E c \in Cpus : pc[c] = "copy" /\ \A d \in Cpus \ {c} : pc[d] = "spin"]_patchVars

\* The result tells the truth: on success the memory holds the new content,
\* on an error it holds what it held before the call.
ResultIsTrue ==
  [][info.active /\ ~info'.active =>
       text' = IF error THEN before ELSE Content(info.src)]_patchVars

\* The machine does not stay stopped.
CallsReturn == info.active ~> ~info.active

-----------------------------------------------------------------------------
(***************************************************************************)
(* The inductive invariant: where the CPUs are at each stage of a call.    *)
(***************************************************************************)
Arrived == {c \in Cpus : pc[c] # "run"}

Gathering ==  \* not everybody has arrived
  /\ Arrived # Cpus
  /\ info.count = Cardinality(Arrived)
  /\ \A c \in Arrived : pc[c] = "spin"
  /\ written = {} /\ ~error /\ text = before

Copying(c) ==  \* c arrived last
  /\ pc[c] = "copy" /\ info.count = N
  /\ \A d \in Cpus \ {c} : pc[d] = "spin"
  /\ ~error
  /\ \A w \in Words : text[w] = IF w \in written THEN info.src ELSE before[w]

Leaving ==  \* the patcher has counted once more
  /\ info.count = N + 1
  /\ \A c \in Cpus : pc[c] \in {"spin", "left"}
  /\ text = IF error THEN before ELSE Content(info.src)

Whole(t) == \E v \in Values : t = Content(v)

PatchIInv ==
  /\ PatchTypeOK
  /\ Whole(before)
  /\ ~info.active => Arrived = {} /\ Whole(text)
  /\ info.active => Gathering \/ (\E c \in Cpus : Copying(c)) \/ Leaving
=============================================================================

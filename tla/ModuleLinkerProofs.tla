------------------------- MODULE ModuleLinkerProofs -------------------------
(***************************************************************************)
(* Proofs about ModuleLinker for any libraries, threads and table sizes.   *)
(***************************************************************************)
EXTENDS ModuleLinker, SequenceTheorems, FiniteSetTheorems, TLAPS

\* RemoveAt, position by position.
LEMMA RemoveAtProperties ==
  ASSUME NEW S, NEW s \in Seq(S), NEW k \in 1..Len(s)
  PROVE  LET r == RemoveAt(s, k)
         IN  /\ r \in Seq(S)
             /\ Len(r) = Len(s) - 1
             /\ \A i \in 1..Len(r) : r[i] = IF i < k THEN s[i] ELSE s[i + 1]
<1>1. Len(s) \in Nat /\ \A i \in 1..Len(s) : s[i] \in S
  OBVIOUS
<1>2. PICK a : a = SubSeq(s, 1, k - 1)
  OBVIOUS
<1>3. PICK b : b = SubSeq(s, k + 1, Len(s))
  OBVIOUS
<1>4. /\ a \in Seq(S) /\ Len(a) = k - 1
      /\ \A i \in 1..k - 1 : a[i] = s[i]
  <2>1. \A i \in 1..k - 1 : s[i] \in S  BY <1>1
  <2> QED  BY <1>1, <1>2, <2>1, SubSeqProperties
<1>5. /\ b \in Seq(S) /\ Len(b) = Len(s) - k
      /\ \A i \in 1..Len(s) - k : b[i] = s[k + i]
  <2>1. \A i \in k + 1..Len(s) : s[i] \in S  BY <1>1
  <2> QED  BY <1>1, <1>3, <2>1, SubSeqProperties
<1>6. RemoveAt(s, k) = a \o b
  BY <1>2, <1>3 DEF RemoveAt
<1>7. /\ a \o b \in Seq(S) /\ Len(a \o b) = Len(a) + Len(b)
      /\ \A i \in 1..Len(a) + Len(b) :
            (a \o b)[i] = IF i <= Len(a) THEN a[i] ELSE b[i - Len(a)]
  BY <1>4, <1>5, ConcatProperties
<1>8. /\ Len(a \o b) = Len(s) - 1
      /\ \A i \in 1..Len(s) - 1 : (a \o b)[i] = IF i < k THEN s[i] ELSE s[i + 1]
  BY <1>1, <1>4, <1>5, <1>7
<1> QED  BY <1>6, <1>7, <1>8

\* dlclose takes an image that is in the list once out of it, and nothing else.
LEMMA RemoveOnce ==
  ASSUME NEW S, NEW s \in Seq(S), NEW n,
         \A i, j \in DOMAIN s : s[i] = s[j] => i = j
  PROVE  LET r == RemoveFirst(s, n)
         IN  /\ r \in Seq(S)
             /\ \A i, j \in DOMAIN r : r[i] = r[j] => i = j
             /\ ToSet(r) = ToSet(s) \ {n}
<1>1. CASE ~ \E i \in 1..Len(s) : s[i] = n
  BY <1>1 DEF RemoveFirst, ToSet
<1>2. CASE \E i \in 1..Len(s) : s[i] = n
  <2>1. PICK k \in 1..Len(s) : s[k] = n
    BY <1>2
  <2> DEFINE I == {i \in 1..Len(s) : s[i] = n}
  <2>2. I = {k}
    BY <2>1
  <2>3. Min(I) = k
    BY <2>2 DEF Min
  <2>4. RemoveFirst(s, n) = RemoveAt(s, k)
    BY <1>2, <2>2, <2>3 DEF RemoveFirst, SelectInSeq
  <2> DEFINE r == RemoveAt(s, k)
  <2>5. /\ r \in Seq(S)
        /\ Len(r) = Len(s) - 1
        /\ \A i \in 1..Len(r) : r[i] = IF i < k THEN s[i] ELSE s[i + 1]
    BY RemoveAtProperties
  <2> HIDE DEF r
  <2>6. \A i, j \in DOMAIN r : r[i] = r[j] => i = j
    <3>1. DOMAIN r = 1..Len(r) /\ Len(r) \in Nat  BY <2>5
    <3> SUFFICES ASSUME NEW i \in 1..Len(r), NEW j \in 1..Len(r), r[i] = r[j]
                 PROVE  i = j
      BY <3>1
    <3>2. \A m \in 1..Len(r) : m \in DOMAIN s /\ m + 1 \in DOMAIN s
      BY <2>5
    <3>3. s[IF i < k THEN i ELSE i + 1] = s[IF j < k THEN j ELSE j + 1]
      BY <2>5
    <3>4. (IF i < k THEN i ELSE i + 1) = (IF j < k THEN j ELSE j + 1)
      BY <3>2, <3>3
    <3> QED  BY <3>1, <3>4
  <2>7. ToSet(r) = ToSet(s) \ {n}
    <3>1. ASSUME NEW i \in DOMAIN r  PROVE r[i] \in ToSet(s) /\ r[i] # n
      <4> DEFINE j == IF i < k THEN i ELSE i + 1
      <4>1. i \in 1..Len(r) /\ Len(s) \in Nat  BY <2>5
      <4>2. j \in DOMAIN s /\ j # k /\ r[i] = s[j]  BY <2>5, <4>1
      <4> QED  BY <2>1, <4>2 DEF ToSet
    <3>2. ASSUME NEW i \in DOMAIN s, s[i] # n  PROVE \E j \in DOMAIN r : r[j] = s[i]
      <4>1. CASE i < k  BY <4>1, <2>5
      <4>2. CASE i > k
        <5>1. i - 1 \in DOMAIN r /\ r[i - 1] = s[i]  BY <4>2, <2>5
        <5> QED  BY <5>1
      <4> QED  BY <4>1, <4>2, <2>1, <3>2
    <3> QED  BY <3>1, <3>2 DEF ToSet
  <2> QED  BY <2>4, <2>5, <2>6, <2>7 DEF r
<1> QED  BY <1>1, <1>2

USE BoundsAssumption, LibsAssumption, NeedsAssumption
    DEF linker, tls, vars

-----------------------------------------------------------------------------
(* The invariant.                                                           *)

\* Between OpenDeps and the end of Unmap an image holds its dependencies.
Holding == {"tls", "relocate", "init", "open", "fini", "unlist", "drop"}
HoldersOf(d) == {n \in Handles : d \in h[n].deps /\ h[n].at \in Holding}

\* An identifier belongs to a handle from register_tls_module on.
Before == {"unused", "dynamic", "deps", "tls"}
HandleInv ==
  \A n \in Handles :
    /\ h[n].at \in Before => h[n].id = None
    /\ h[n].at \in Before \cup {"relocate"} => h[n].ref = None
    /\ h[n].at \in {"unused", "dynamic", "deps"} => h[n].deps = {}
    /\ h[n].at \in Running => h[n].ref = h[n].id
    /\ h[n].id # None => h[n].at \in Running \cup {"relocate"}
    /\ ~strayed => (h[n].mapped <=> h[n].at \notin {"unused", "gone"})

\* No identifier is given twice: what a handle has, had or is bound to was given
\* to it alone, and the next one to be given is new.
IdsInv ==
  \A n \in Handles : \A id \in Ids :
    id \in {h[n].id, h[n].ref} =>
      /\ id < nextId
      /\ \A m \in Handles : id \in {h[m].id, h[m].ref} => m = n

\* An entry of g_tls_modules is its handle's, and a handle's is there until the
\* shutdown.
OwnerInv ==
  /\ \A id \in Ids : owner[id] # None => h[owner[id]].id = id
  /\ ~shut => \A n \in Handles : h[n].id # None => owner[h[n].id] = n

\* g_images has the images from their relocation to their removal, each once.
ImagesInv ==
  /\ \A i, j \in DOMAIN images : images[i] = images[j] => i = j
  /\ \A n \in ToSet(images) : h[n].at \in Running \cup {"unlist"}
  /\ \A n \in Handles : h[n].at \in Running /\ h[n].room => n \in ToSet(images)

\* A thread's blocks are those of the libraries bound to their identifiers.
BlocksInv ==
  \A t \in Threads :
    /\ \A id \in Ids : th[t].blocks[id] # None => h[th[t].blocks[id]].ref = id
    /\ th[t].at = "locked" => th[t].for # None /\ h[th[t].for].ref # None

\* The loader has at least one reference for every image that holds one.
RefsInv == \A d \in Deps : refs[d] >= Cardinality(HoldersOf(d))

TablesInv == HandleInv /\ IdsInv /\ OwnerInv /\ ImagesInv /\ BlocksInv
IInv == TypeOK /\ TablesInv /\ RefsInv

-----------------------------------------------------------------------------
(* The steps.                                                               *)

\* The step that makes this of the handle n and leaves the others.
Moves(n, lib, at, mapped, id, ref, room, deps) ==
  /\ h' \in [Handles -> Handle]
  /\ \A m \in Handles : m # n => h'[m] = h[m]
  /\ h'[n].lib = lib /\ h'[n].at = at /\ h'[n].mapped = mapped /\ h'[n].id = id
  /\ h'[n].ref = ref /\ h'[n].room = room /\ h'[n].deps = deps

\* A step that replaces the record of a handle is a move to what that record says.
LEMMA Moved ==
  ASSUME h \in [Handles -> Handle], NEW n \in Handles, NEW r \in Handle,
         h' = [h EXCEPT ![n] = r]
  PROVE  Moves(n, r.lib, r.at, r.mapped, r.id, r.ref, r.room, r.deps)
BY DEF Moves

\* What an operation makes of its handle, for each of them.
LEMMA HandleSteps ==
  ASSUME h \in [Handles -> Handle], NEW n \in Handles
  PROVE
    /\ Open(n) =>
          \E l \in Libs : \/ Moves(n, l, "dynamic", TRUE, None, None, TRUE, {})
                        \/ Moves(n, l, "gone", FALSE, None, None, TRUE, {})
    /\ h[n].lib \in Libs /\ OpenDeps(n) =>
          \E found \in SUBSET Needs[h[n].lib] :
             /\ Moves(n, h[n].lib, "tls", h[n].mapped, h[n].id, h[n].ref, h[n].room, found)
             /\ refs' = [d \in Deps |-> refs[d] + (IF d \in found THEN 1 ELSE 0)]
    /\ ParseDynamic(n) =>
          \/ Moves(n, h[n].lib, "deps", h[n].mapped, h[n].id, h[n].ref, h[n].room, h[n].deps)
          \/ Moves(n, h[n].lib, "gone", FALSE, h[n].id, h[n].ref, h[n].room, h[n].deps)
    /\ RegisterTls(n) =>
          Moves(n, h[n].lib, "relocate", h[n].mapped, nextId, h[n].ref, h[n].room, h[n].deps)
    /\ TlsRefused(n) =>
          Moves(n, h[n].lib, "gone", FALSE, h[n].id, h[n].ref, h[n].room, h[n].deps)
    /\ NoTls(n) =>
          Moves(n, h[n].lib, "relocate", h[n].mapped, h[n].id, h[n].ref, h[n].room, h[n].deps)
    /\ Relocate(n) =>
          \/ Moves(n, h[n].lib, "init", h[n].mapped, h[n].id, h[n].id, (Len(images) < MaxImages), h[n].deps)
          \/ Moves(n, h[n].lib, "gone", FALSE, None, h[n].ref, h[n].room, h[n].deps)
    /\ Initialised(n) =>
          Moves(n, h[n].lib, "open", h[n].mapped, h[n].id, h[n].ref, h[n].room, h[n].deps)
    /\ Close(n) =>
          Moves(n, h[n].lib, "fini", h[n].mapped, h[n].id, h[n].ref, h[n].room, h[n].deps)
    /\ UnregisterTls(n) =>
          Moves(n, h[n].lib, "unlist", h[n].mapped, None, h[n].ref, h[n].room, h[n].deps)
    /\ Unlist(n) =>
          Moves(n, h[n].lib, "drop", h[n].mapped, h[n].id, h[n].ref, h[n].room, h[n].deps)
<1>1. h[n] \in Handle
  OBVIOUS
<1>2. Open(n) =>
          \E l \in Libs : \/ Moves(n, l, "dynamic", TRUE, None, None, TRUE, {})
                        \/ Moves(n, l, "gone", FALSE, None, None, TRUE, {})
  <2> SUFFICES ASSUME Open(n) PROVE \E l \in Libs :
                     \/ Moves(n, l, "dynamic", TRUE, None, None, TRUE, {})
                     \/ Moves(n, l, "gone", FALSE, None, None, TRUE, {})
    OBVIOUS
  <2> PICK l \in Libs :
        \/ h' = [h EXCEPT ![n] = [Unused EXCEPT !.lib = l, !.at = "dynamic", !.mapped = TRUE]]
        \/ h' = [h EXCEPT ![n] = [Unused EXCEPT !.lib = l, !.at = "gone"]]
    BY Zenon DEF Open
  <2> DEFINE r1 == [Unused EXCEPT !.lib = l, !.at = "dynamic", !.mapped = TRUE]
             r2 == [Unused EXCEPT !.lib = l, !.at = "gone"]
  <2>1. /\ r1 \in Handle
        /\ r1.lib = l /\ r1.at = "dynamic" /\ r1.mapped = TRUE
        /\ r1.id = None /\ r1.ref = None /\ r1.room = TRUE /\ r1.deps = {}
    BY DEF Unused, Handle, States
  <2>2. /\ r2 \in Handle
        /\ r2.lib = l /\ r2.at = "gone" /\ r2.mapped = FALSE
        /\ r2.id = None /\ r2.ref = None /\ r2.room = TRUE /\ r2.deps = {}
    BY DEF Unused, Handle, States
  <2>3. h' = [h EXCEPT ![n] = r1] \/ h' = [h EXCEPT ![n] = r2]
    OBVIOUS
  <2> HIDE DEF r1, r2
  <2>4. \/ Moves(n, r1.lib, r1.at, r1.mapped, r1.id, r1.ref, r1.room, r1.deps)
        \/ Moves(n, r2.lib, r2.at, r2.mapped, r2.id, r2.ref, r2.room, r2.deps)
    BY <2>1, <2>2, <2>3, Moved
  <2> QED  BY <2>1, <2>2, <2>4
<1>3. h[n].lib \in Libs /\ OpenDeps(n) =>
          \E found \in SUBSET Needs[h[n].lib] :
             /\ Moves(n, h[n].lib, "tls", h[n].mapped, h[n].id, h[n].ref, h[n].room, found)
             /\ refs' = [d \in Deps |-> refs[d] + (IF d \in found THEN 1 ELSE 0)]
  <2> SUFFICES ASSUME h[n].lib \in Libs, OpenDeps(n) PROVE \E found \in SUBSET Needs[h[n].lib] :
             /\ Moves(n, h[n].lib, "tls", h[n].mapped, h[n].id, h[n].ref, h[n].room, found)
             /\ refs' = [d \in Deps |-> refs[d] + (IF d \in found THEN 1 ELSE 0)]
    OBVIOUS
  <2> PICK found \in SUBSET Needs[h[n].lib] :
             /\ h' = [h EXCEPT ![n].deps = found, ![n].at = "tls"]
             /\ refs' = [d \in Deps |-> refs[d] + (IF d \in found THEN 1 ELSE 0)]
    BY Zenon DEF OpenDeps
  <2>1. found \subseteq Deps
    BY DEF Deps
  <2> DEFINE r == [h[n] EXCEPT !.deps = found, !.at = "tls"]
  <2>2. /\ r \in Handle
        /\ r.lib = h[n].lib /\ r.at = "tls" /\ r.mapped = h[n].mapped /\ r.id = h[n].id
        /\ r.ref = h[n].ref /\ r.room = h[n].room /\ r.deps = found
    BY <1>1, <2>1 DEF Handle, States
  <2>3. h' = [h EXCEPT ![n] = r]
    OBVIOUS
  <2> HIDE DEF r
  <2>4. Moves(n, r.lib, r.at, r.mapped, r.id, r.ref, r.room, r.deps)
    BY <2>2, <2>3, Moved
  <2> QED  BY <2>2, <2>4
<1>4. ParseDynamic(n) =>
          \/ Moves(n, h[n].lib, "deps", h[n].mapped, h[n].id, h[n].ref, h[n].room, h[n].deps)
          \/ Moves(n, h[n].lib, "gone", FALSE, h[n].id, h[n].ref, h[n].room, h[n].deps)
  <2> SUFFICES ASSUME ParseDynamic(n) PROVE \/ Moves(n, h[n].lib, "deps", h[n].mapped, h[n].id, h[n].ref, h[n].room, h[n].deps)
                    \/ Moves(n, h[n].lib, "gone", FALSE, h[n].id, h[n].ref, h[n].room, h[n].deps)
    OBVIOUS
  <2> DEFINE r1 == [h[n] EXCEPT !.at = "deps"]
             r2 == [h[n] EXCEPT !.mapped = FALSE, !.at = "gone"]
  <2>1. /\ r1 \in Handle
        /\ r1.lib = h[n].lib /\ r1.at = "deps" /\ r1.mapped = h[n].mapped /\ r1.id = h[n].id
        /\ r1.ref = h[n].ref /\ r1.room = h[n].room /\ r1.deps = h[n].deps
    BY <1>1 DEF Handle, States
  <2>2. /\ r2 \in Handle
        /\ r2.lib = h[n].lib /\ r2.at = "gone" /\ r2.mapped = FALSE /\ r2.id = h[n].id
        /\ r2.ref = h[n].ref /\ r2.room = h[n].room /\ r2.deps = h[n].deps
    BY <1>1 DEF Handle, States
  <2>3. h' = [h EXCEPT ![n] = r1] \/ h' = [h EXCEPT ![n] = r2]
    BY DEF ParseDynamic
  <2> HIDE DEF r1, r2
  <2>4. \/ Moves(n, r1.lib, r1.at, r1.mapped, r1.id, r1.ref, r1.room, r1.deps)
        \/ Moves(n, r2.lib, r2.at, r2.mapped, r2.id, r2.ref, r2.room, r2.deps)
    BY <2>1, <2>2, <2>3, Moved
  <2> QED  BY <2>1, <2>2, <2>4
<1>5. RegisterTls(n) =>
          Moves(n, h[n].lib, "relocate", h[n].mapped, nextId, h[n].ref, h[n].room, h[n].deps)
  <2> SUFFICES ASSUME RegisterTls(n) PROVE Moves(n, h[n].lib, "relocate", h[n].mapped, nextId, h[n].ref, h[n].room, h[n].deps)
    OBVIOUS
  <2> DEFINE r == [h[n] EXCEPT !.id = nextId, !.at = "relocate"]
  <2>1. /\ r \in Handle
        /\ r.lib = h[n].lib /\ r.at = "relocate" /\ r.mapped = h[n].mapped /\ r.id = nextId
        /\ r.ref = h[n].ref /\ r.room = h[n].room /\ r.deps = h[n].deps
    BY <1>1 DEF Handle, States, RegisterTls
  <2>2. h' = [h EXCEPT ![n] = r]
    BY DEF RegisterTls
  <2> HIDE DEF r
  <2>3. Moves(n, r.lib, r.at, r.mapped, r.id, r.ref, r.room, r.deps)
    BY <2>1, <2>2, Moved
  <2> QED  BY <2>1, <2>3
<1>6. TlsRefused(n) =>
          Moves(n, h[n].lib, "gone", FALSE, h[n].id, h[n].ref, h[n].room, h[n].deps)
  <2> SUFFICES ASSUME TlsRefused(n) PROVE Moves(n, h[n].lib, "gone", FALSE, h[n].id, h[n].ref, h[n].room, h[n].deps)
    OBVIOUS
  <2> DEFINE r == [h[n] EXCEPT !.mapped = FALSE, !.at = "gone"]
  <2>1. /\ r \in Handle
        /\ r.lib = h[n].lib /\ r.at = "gone" /\ r.mapped = FALSE /\ r.id = h[n].id
        /\ r.ref = h[n].ref /\ r.room = h[n].room /\ r.deps = h[n].deps
    BY <1>1 DEF Handle, States
  <2>2. h' = [h EXCEPT ![n] = r]
    BY DEF TlsRefused
  <2> HIDE DEF r
  <2>3. Moves(n, r.lib, r.at, r.mapped, r.id, r.ref, r.room, r.deps)
    BY <2>1, <2>2, Moved
  <2> QED  BY <2>1, <2>3
<1>7. NoTls(n) =>
          Moves(n, h[n].lib, "relocate", h[n].mapped, h[n].id, h[n].ref, h[n].room, h[n].deps)
  <2> SUFFICES ASSUME NoTls(n) PROVE Moves(n, h[n].lib, "relocate", h[n].mapped, h[n].id, h[n].ref, h[n].room, h[n].deps)
    OBVIOUS
  <2> DEFINE r == [h[n] EXCEPT !.at = "relocate"]
  <2>1. /\ r \in Handle
        /\ r.lib = h[n].lib /\ r.at = "relocate" /\ r.mapped = h[n].mapped /\ r.id = h[n].id
        /\ r.ref = h[n].ref /\ r.room = h[n].room /\ r.deps = h[n].deps
    BY <1>1 DEF Handle, States
  <2>2. h' = [h EXCEPT ![n] = r]
    BY DEF NoTls
  <2> HIDE DEF r
  <2>3. Moves(n, r.lib, r.at, r.mapped, r.id, r.ref, r.room, r.deps)
    BY <2>1, <2>2, Moved
  <2> QED  BY <2>1, <2>3
<1>8. Relocate(n) =>
          \/ Moves(n, h[n].lib, "init", h[n].mapped, h[n].id, h[n].id, (Len(images) < MaxImages), h[n].deps)
          \/ Moves(n, h[n].lib, "gone", FALSE, None, h[n].ref, h[n].room, h[n].deps)
  <2> PICK room \in BOOLEAN : room = (Len(images) < MaxImages)
    <3>1. (Len(images) < MaxImages) \in BOOLEAN  OBVIOUS
    <3> QED  BY <3>1
  <2> SUFFICES ASSUME Relocate(n) PROVE \/ Moves(n, h[n].lib, "init", h[n].mapped, h[n].id, h[n].id, room, h[n].deps)
                    \/ Moves(n, h[n].lib, "gone", FALSE, None, h[n].ref, h[n].room, h[n].deps)
    OBVIOUS
  <2> DEFINE r1 == [h[n] EXCEPT !.ref = h[n].id, !.at = "init", !.room = room]
             r2 == [h[n] EXCEPT !.mapped = FALSE, !.id = None, !.at = "gone"]
  <2>1. /\ r1 \in Handle
        /\ r1.lib = h[n].lib /\ r1.at = "init" /\ r1.mapped = h[n].mapped /\ r1.id = h[n].id
        /\ r1.ref = h[n].id /\ r1.room = room /\ r1.deps = h[n].deps
    BY <1>1 DEF Handle, States
  <2>2. /\ r2 \in Handle
        /\ r2.lib = h[n].lib /\ r2.at = "gone" /\ r2.mapped = FALSE /\ r2.id = None
        /\ r2.ref = h[n].ref /\ r2.room = h[n].room /\ r2.deps = h[n].deps
    BY <1>1 DEF Handle, States
  <2>3. h' = [h EXCEPT ![n] = r1] \/ h' = [h EXCEPT ![n] = r2]
    BY DEF Relocate, Relocated, TlsReference
  <2> HIDE DEF r1, r2
  <2>4. \/ Moves(n, r1.lib, r1.at, r1.mapped, r1.id, r1.ref, r1.room, r1.deps)
        \/ Moves(n, r2.lib, r2.at, r2.mapped, r2.id, r2.ref, r2.room, r2.deps)
    BY <2>1, <2>2, <2>3, Moved
  <2> QED  BY <2>1, <2>2, <2>4
<1>9. Initialised(n) =>
          Moves(n, h[n].lib, "open", h[n].mapped, h[n].id, h[n].ref, h[n].room, h[n].deps)
  <2> SUFFICES ASSUME Initialised(n) PROVE Moves(n, h[n].lib, "open", h[n].mapped, h[n].id, h[n].ref, h[n].room, h[n].deps)
    OBVIOUS
  <2> DEFINE r == [h[n] EXCEPT !.at = "open"]
  <2>1. /\ r \in Handle
        /\ r.lib = h[n].lib /\ r.at = "open" /\ r.mapped = h[n].mapped /\ r.id = h[n].id
        /\ r.ref = h[n].ref /\ r.room = h[n].room /\ r.deps = h[n].deps
    BY <1>1 DEF Handle, States
  <2>2. h' = [h EXCEPT ![n] = r]
    BY DEF Initialised
  <2> HIDE DEF r
  <2>3. Moves(n, r.lib, r.at, r.mapped, r.id, r.ref, r.room, r.deps)
    BY <2>1, <2>2, Moved
  <2> QED  BY <2>1, <2>3
<1>10. Close(n) =>
          Moves(n, h[n].lib, "fini", h[n].mapped, h[n].id, h[n].ref, h[n].room, h[n].deps)
  <2> SUFFICES ASSUME Close(n) PROVE Moves(n, h[n].lib, "fini", h[n].mapped, h[n].id, h[n].ref, h[n].room, h[n].deps)
    OBVIOUS
  <2> DEFINE r == [h[n] EXCEPT !.at = "fini"]
  <2>1. /\ r \in Handle
        /\ r.lib = h[n].lib /\ r.at = "fini" /\ r.mapped = h[n].mapped /\ r.id = h[n].id
        /\ r.ref = h[n].ref /\ r.room = h[n].room /\ r.deps = h[n].deps
    BY <1>1 DEF Handle, States
  <2>2. h' = [h EXCEPT ![n] = r]
    BY DEF Close
  <2> HIDE DEF r
  <2>3. Moves(n, r.lib, r.at, r.mapped, r.id, r.ref, r.room, r.deps)
    BY <2>1, <2>2, Moved
  <2> QED  BY <2>1, <2>3
<1>11. UnregisterTls(n) =>
          Moves(n, h[n].lib, "unlist", h[n].mapped, None, h[n].ref, h[n].room, h[n].deps)
  <2> SUFFICES ASSUME UnregisterTls(n) PROVE Moves(n, h[n].lib, "unlist", h[n].mapped, None, h[n].ref, h[n].room, h[n].deps)
    OBVIOUS
  <2> DEFINE r == [h[n] EXCEPT !.at = "unlist", !.id = None]
  <2>1. /\ r \in Handle
        /\ r.lib = h[n].lib /\ r.at = "unlist" /\ r.mapped = h[n].mapped /\ r.id = None
        /\ r.ref = h[n].ref /\ r.room = h[n].room /\ r.deps = h[n].deps
    BY <1>1 DEF Handle, States
  <2>2. h' = [h EXCEPT ![n] = r]
    BY DEF UnregisterTls
  <2> HIDE DEF r
  <2>3. Moves(n, r.lib, r.at, r.mapped, r.id, r.ref, r.room, r.deps)
    BY <2>1, <2>2, Moved
  <2> QED  BY <2>1, <2>3
<1>12. Unlist(n) =>
          Moves(n, h[n].lib, "drop", h[n].mapped, h[n].id, h[n].ref, h[n].room, h[n].deps)
  <2> SUFFICES ASSUME Unlist(n) PROVE Moves(n, h[n].lib, "drop", h[n].mapped, h[n].id, h[n].ref, h[n].room, h[n].deps)
    OBVIOUS
  <2> DEFINE r == [h[n] EXCEPT !.at = "drop"]
  <2>1. /\ r \in Handle
        /\ r.lib = h[n].lib /\ r.at = "drop" /\ r.mapped = h[n].mapped /\ r.id = h[n].id
        /\ r.ref = h[n].ref /\ r.room = h[n].room /\ r.deps = h[n].deps
    BY <1>1 DEF Handle, States
  <2>2. h' = [h EXCEPT ![n] = r]
    BY DEF Unlist
  <2> HIDE DEF r
  <2>3. Moves(n, r.lib, r.at, r.mapped, r.id, r.ref, r.room, r.deps)
    BY <2>1, <2>2, Moved
  <2> QED  BY <2>1, <2>3
<1> QED  BY <1>2, <1>3, <1>4, <1>5, <1>6, <1>7, <1>8, <1>9, <1>10, <1>11, <1>12

\* Unmap may take the memory of another image, nothing else of it.
LEMMA UnmapStep ==
  ASSUME h \in [Handles -> Handle], NEW n \in Handles, Unmap(n)
  PROVE  /\ h' \in [Handles -> Handle]
         /\ \A m \in Handles :
               /\ h'[m].at = IF m = n THEN "gone" ELSE h[m].at
               /\ h'[m].lib = h[m].lib /\ h'[m].id = h[m].id /\ h'[m].ref = h[m].ref
               /\ h'[m].room = h[m].room /\ h'[m].deps = h[m].deps
         /\ ~strayed' => \A m \in Handles : h'[m].mapped = IF m = n THEN FALSE ELSE h[m].mapped
<1> DEFINE r == [h[n] EXCEPT !.at = "gone"]
           q == [h[n] EXCEPT !.at = "gone", !.mapped = FALSE]
           f == [h EXCEPT ![n] = r]
<1>1. \A m \in Handles : h[m] \in Handle
  OBVIOUS
<1>2. /\ r \in Handle /\ r.at = "gone" /\ r.lib = h[n].lib /\ r.id = h[n].id
      /\ r.ref = h[n].ref /\ r.room = h[n].room /\ r.deps = h[n].deps
      /\ q \in Handle /\ q.at = "gone" /\ q.mapped = FALSE /\ q.lib = h[n].lib
      /\ q.id = h[n].id /\ q.ref = h[n].ref /\ q.room = h[n].room /\ q.deps = h[n].deps
  BY <1>1 DEF Handle, States
<1>3. f \in [Handles -> Handle] /\ \A m \in Handles : f[m] = IF m = n THEN r ELSE h[m]
  BY <1>2
<1>4. ASSUME NEW m \in Handles
      PROVE  LET g == [h[m] EXCEPT !.mapped = FALSE]
             IN  /\ g \in Handle /\ g.at = h[m].at /\ g.lib = h[m].lib /\ g.id = h[m].id
                 /\ g.ref = h[m].ref /\ g.room = h[m].room /\ g.deps = h[m].deps
  BY <1>1 DEF Handle
<1>5. \/ h' = [h EXCEPT ![n] = q] /\ UNCHANGED strayed
      \/ h' = f /\ strayed' = TRUE
      \/ /\ strayed' = TRUE
         /\ \E m \in Handles \ {n} : h' = [f EXCEPT ![m] = [h[m] EXCEPT !.mapped = FALSE]]
  <2>1. ASSUME NEW m \in Handles \ {n}, h' = [h EXCEPT ![n].at = "gone", ![m].mapped = FALSE]
        PROVE  h' = [f EXCEPT ![m] = [h[m] EXCEPT !.mapped = FALSE]]
    BY <2>1
  <2> QED  BY <2>1 DEF Unmap
<1> HIDE DEF r, q, f
<1>6. CASE h' = [h EXCEPT ![n] = q] /\ UNCHANGED strayed
  BY <1>2, <1>6
<1>7. CASE h' = f /\ strayed' = TRUE
  BY <1>2, <1>3, <1>7
<1>8. ASSUME NEW m \in Handles \ {n}, strayed' = TRUE,
             h' = [f EXCEPT ![m] = [h[m] EXCEPT !.mapped = FALSE]]
      PROVE  /\ h' \in [Handles -> Handle]
             /\ \A k \in Handles :
                  h'[k] = IF k = m THEN [h[m] EXCEPT !.mapped = FALSE] ELSE IF k = n THEN r ELSE h[k]
  BY <1>3, <1>4, <1>8
<1>9. CASE /\ strayed' = TRUE
           /\ \E m \in Handles \ {n} : h' = [f EXCEPT ![m] = [h[m] EXCEPT !.mapped = FALSE]]
  <2>1. PICK m \in Handles \ {n} : h' = [f EXCEPT ![m] = [h[m] EXCEPT !.mapped = FALSE]]
    BY <1>9
  <2> DEFINE g == [h[m] EXCEPT !.mapped = FALSE]
  <2>2. /\ g.at = h[m].at /\ g.lib = h[m].lib /\ g.id = h[m].id
        /\ g.ref = h[m].ref /\ g.room = h[m].room /\ g.deps = h[m].deps
    BY <1>4
  <2>3. /\ h' \in [Handles -> Handle]
        /\ \A k \in Handles : h'[k] = IF k = m THEN g ELSE IF k = n THEN r ELSE h[k]
    BY <1>8, <1>9, <2>1
  <2> HIDE DEF g
  <2> QED  BY <1>2, <1>9, <2>2, <2>3
<1> QED  BY <1>5, <1>6, <1>7, <1>9

\* A step of a thread, field by field.
ThreadMoves(t, at, for, state, blocks, got) ==
  /\ th' \in [Threads -> Thread]
  /\ \A u \in Threads : u # t => th'[u] = th[u]
  /\ th'[t].at = at /\ th'[t].for = for /\ th'[t].state = state
  /\ th'[t].blocks = blocks /\ th'[t].got = got

\* GiveBlock: what the thread answers, and whether it has made the block.
Given(t, id) ==
  \/ /\ ThreadMoves(t, "out", th[t].for, th[t].state, th[t].blocks, None)
     /\ owner[id] = None \/ faults' > faults
  \/ /\ ThreadMoves(t, "out", th[t].for, th[t].state, th[t].blocks, th[t].blocks[id])
     /\ th[t].blocks[id] # None
  \/ /\ ThreadMoves(t, "out", th[t].for, th[t].state,
                    [th[t].blocks EXCEPT ![id] = owner[id]], owner[id])
     /\ owner[id] # None

\* What an operation makes of its thread's state.
LEMMA ThreadSteps ==
  ASSUME th \in [Threads -> Thread], NEW t \in Threads
  PROVE
    /\ \A n \in Handles : GetThreadTls(t, n) =>
          \/ ThreadMoves(t, "out", n, th[t].state, th[t].blocks, None)
          \/ ThreadMoves(t, "locked", n, TRUE, th[t].blocks, th[t].got)
    /\ \A id \in Ids :
          /\ GiveBlock(t) /\ id = h[th[t].for].ref
          /\ owner \in [Ids -> Handles \cup {None}] /\ faults \in Nat
          => Given(t, id)
    /\ ThreadExit(t) => th' = [th EXCEPT ![t] = Fresh] /\ Fresh \in Thread
<1>1. th[t] \in Thread
  OBVIOUS
<1>2. ASSUME NEW n \in Handles, GetThreadTls(t, n)
      PROVE  \/ ThreadMoves(t, "out", n, th[t].state, th[t].blocks, None)
             \/ ThreadMoves(t, "locked", n, TRUE, th[t].blocks, th[t].got)
  <2> PICK none \in Handles \cup {None} : none = None
    OBVIOUS
  <2>0. n \in Handles \cup {None}
    OBVIOUS
  <2> DEFINE r1 == [th[t] EXCEPT !.at = "out", !.for = n, !.got = none]
             r2 == [th[t] EXCEPT !.at = "locked", !.for = n, !.state = TRUE]
  <2>1. /\ r1 \in Thread /\ r1.at = "out" /\ r1.for = n /\ r1.state = th[t].state
        /\ r1.blocks = th[t].blocks /\ r1.got = none
    BY <1>1, <2>0 DEF Thread
  <2>2. /\ r2 \in Thread /\ r2.at = "locked" /\ r2.for = n /\ r2.state = TRUE
        /\ r2.blocks = th[t].blocks /\ r2.got = th[t].got
    BY <1>1, <2>0 DEF Thread
  <2>3. th' = [th EXCEPT ![t] = r1] \/ th' = [th EXCEPT ![t] = r2]
    <3>1. \/ th' = Answered(t, n, none)
          \/ th' = [th EXCEPT ![t].at = "locked", ![t].for = n, ![t].state = TRUE]
      BY <1>2, Zenon DEF GetThreadTls
    <3> QED  BY <3>1 DEF Answered
  <2> HIDE DEF r1, r2
  <2> QED  BY <2>1, <2>2, <2>3 DEF ThreadMoves
<1>3. ASSUME NEW id \in Ids, GiveBlock(t), id = h[th[t].for].ref,
             owner \in [Ids -> Handles \cup {None}], faults \in Nat
      PROVE  Given(t, id)
  <2> PICK n : n = th[t].for
    OBVIOUS
  <2>1. ASSUME NEW g \in Handles \cup {None}, th' = Answered(t, n, g)
        PROVE  ThreadMoves(t, "out", n, th[t].state, th[t].blocks, g)
    <3> DEFINE r == [th[t] EXCEPT !.at = "out", !.for = n, !.got = g]
    <3>1. /\ r \in Thread /\ r.at = "out" /\ r.for = n /\ r.state = th[t].state
          /\ r.blocks = th[t].blocks /\ r.got = g
      BY <1>1 DEF Thread
    <3>2. th' = [th EXCEPT ![t] = r]
      BY <2>1 DEF Answered
    <3> HIDE DEF r
    <3> QED  BY <3>1, <3>2 DEF ThreadMoves
  <2>2. ASSUME owner[id] # None,
               th' = [Answered(t, n, owner[id]) EXCEPT ![t].blocks[id] = owner[id]]
        PROVE  ThreadMoves(t, "out", n, th[t].state, [th[t].blocks EXCEPT ![id] = owner[id]], owner[id])
    <3> PICK g \in Handles \cup {None} : g = owner[id]
      BY <1>3
    <3> DEFINE q == [th[t] EXCEPT !.at = "out", !.for = n, !.got = g]
               r == [q EXCEPT !.blocks = [q.blocks EXCEPT ![id] = g]]
    <3>1. /\ q \in Thread /\ q.at = "out" /\ q.for = n /\ q.state = th[t].state
          /\ q.blocks = th[t].blocks /\ q.got = g
      BY <1>1 DEF Thread
    <3>2. Answered(t, n, g) = [th EXCEPT ![t] = q]
      BY DEF Answered
    <3>3. th' = [th EXCEPT ![t] = r]
      <4>1. th' = [[th EXCEPT ![t] = q] EXCEPT ![t].blocks[id] = g]
        BY <2>2, <3>2
      <4> HIDE DEF q
      <4> QED  BY <4>1
    <3> HIDE DEF q
    <3>4. /\ r \in Thread /\ r.at = q.at /\ r.for = q.for /\ r.state = q.state
          /\ r.blocks = [q.blocks EXCEPT ![id] = g] /\ r.got = q.got
      BY <3>1 DEF Thread
    <3> HIDE DEF r
    <3> QED  BY <3>1, <3>3, <3>4 DEF ThreadMoves
  <2>3. th[t].blocks[id] \in Handles \cup {None} /\ owner[id] \in Handles \cup {None}
    BY <1>1, <1>3 DEF Thread
  <2>4. \/ owner[id] = None /\ th' = Answered(t, n, None)
        \/ th[t].blocks[id] # None /\ th' = Answered(t, n, th[t].blocks[id])
        \/ owner[id] # None /\ th' = [Answered(t, n, owner[id]) EXCEPT ![t].blocks[id] = owner[id]]
        \/ th' = Answered(t, n, None) /\ faults' = faults + 1
    <3>1. \/ owner[id] = None /\ th' = Answered(t, n, None)
          \/ th[t].blocks[id] # None /\ th' = Answered(t, n, th[t].blocks[id])
          \/ owner[id] # None /\ th' = [Answered(t, n, owner[id]) EXCEPT ![t].blocks[id] = owner[id]]
          \/ th' = Answered(t, n, None) /\ Failing(TRUE)
      BY <1>3, Zenon DEF GiveBlock
    <3> QED  BY <3>1 DEF Failing
  <2>5. faults' = faults + 1 => faults' > faults
    BY <1>3
  <2>6. th' = Answered(t, n, None) => ThreadMoves(t, "out", n, th[t].state, th[t].blocks, None)
    BY <2>1
  <2>7. th' = Answered(t, n, th[t].blocks[id]) => ThreadMoves(t, "out", n, th[t].state, th[t].blocks, th[t].blocks[id])
    BY <2>1, <2>3
  <2> QED  BY <2>2, <2>4, <2>5, <2>6, <2>7 DEF Given
<1>4. Fresh \in Thread
  BY DEF Fresh, Thread
<1> QED  BY <1>2, <1>3, <1>4 DEF ThreadExit

\* Every variable keeps its type.
LEMMA TypeStep == TypeOK /\ ImagesInv /\ BlocksInv /\ [Next]_vars => TypeOK'
<1> SUFFICES ASSUME TypeOK, ImagesInv, BlocksInv, [Next]_vars PROVE TypeOK'
  OBVIOUS
<1>a. /\ h \in [Handles -> Handle]
      /\ \A m \in Handles : h[m].at # "unused" => h[m].lib \in Libs
  BY DEF TypeOK
<1>b. owner \in [Ids -> Handles \cup {None}] /\ images \in Seq(Handles)
      /\ refs \in [Deps -> Int] /\ nextId \in Nat \ {0} /\ faults \in Nat
      /\ shut \in BOOLEAN /\ strayed \in BOOLEAN
  BY DEF TypeOK
<1>c. key \in {"none", "ready", "failed", "deleted"} /\ th \in [Threads -> Thread]
  BY DEF TypeOK
<1>d. \A i, j \in DOMAIN images : images[i] = images[j] => i = j
  BY DEF ImagesInv
<1>1. ASSUME NEW n \in Handles, Open(n)  PROVE TypeOK'
  <2>1. \E l \in Libs : \/ Moves(n, l, "dynamic", TRUE, None, None, TRUE, {})
                      \/ Moves(n, l, "gone", FALSE, None, None, TRUE, {})
    BY <1>a, <1>1, HandleSteps
  <2>2. /\ h' \in [Handles -> Handle]
        /\ \A m \in Handles : h'[m].at # "unused" => h'[m].lib \in Libs
    BY <1>a, <2>1 DEF Moves
  <2> QED  BY <1>b, <1>c, <1>1, <2>2 DEF TypeOK, Open, Failing
<1>2. ASSUME NEW n \in Handles, ParseDynamic(n)  PROVE TypeOK'
  <2>1. \/ Moves(n, h[n].lib, "deps", h[n].mapped, h[n].id, h[n].ref, h[n].room, h[n].deps)
        \/ Moves(n, h[n].lib, "gone", FALSE, h[n].id, h[n].ref, h[n].room, h[n].deps)
    BY <1>a, <1>2, HandleSteps
  <2>2. /\ h' \in [Handles -> Handle]
        /\ \A m \in Handles : h'[m].at # "unused" => h'[m].lib \in Libs
    <3>1. h[n].at # "unused"  BY <1>2 DEF ParseDynamic
    <3> QED  BY <1>a, <2>1, <3>1 DEF Moves
  <2> QED  BY <1>b, <1>c, <1>2, <2>2 DEF TypeOK, ParseDynamic, Failing
<1>3. ASSUME NEW n \in Handles, OpenDeps(n)  PROVE TypeOK'
  <2>3. h[n].lib \in Libs
    BY <1>a, <1>3 DEF OpenDeps
  <2>1. \E found \in SUBSET Needs[h[n].lib] :
           /\ Moves(n, h[n].lib, "tls", h[n].mapped, h[n].id, h[n].ref, h[n].room, found)
           /\ refs' = [d \in Deps |-> refs[d] + (IF d \in found THEN 1 ELSE 0)]
    BY <1>a, <1>3, <2>3, HandleSteps
  <2>2. /\ h' \in [Handles -> Handle]
        /\ \A m \in Handles : h'[m].at # "unused" => h'[m].lib \in Libs
    <3>1. h[n].at # "unused"  BY <1>3 DEF OpenDeps
    <3> QED  BY <1>a, <2>1, <3>1 DEF Moves
  <2>4. refs' \in [Deps -> Int]
    BY <1>b, <2>1
  <2> QED  BY <1>b, <1>c, <1>3, <2>2, <2>4 DEF TypeOK, OpenDeps, Failing
<1>4. ASSUME NEW n \in Handles, RegisterTls(n)  PROVE TypeOK'
  <2>1. Moves(n, h[n].lib, "relocate", h[n].mapped, nextId, h[n].ref, h[n].room, h[n].deps)
    BY <1>a, <1>4, HandleSteps
  <2>2. /\ h' \in [Handles -> Handle]
        /\ \A m \in Handles : h'[m].at # "unused" => h'[m].lib \in Libs
    <3>1. h[n].at # "unused"  BY <1>4 DEF RegisterTls
    <3> QED  BY <1>a, <2>1, <3>1 DEF Moves
  <2> QED  BY <1>b, <1>c, <1>4, <2>2 DEF TypeOK, RegisterTls
<1>5. ASSUME NEW n \in Handles, TlsRefused(n)  PROVE TypeOK'
  <2>1. Moves(n, h[n].lib, "gone", FALSE, h[n].id, h[n].ref, h[n].room, h[n].deps)
    BY <1>a, <1>5, HandleSteps
  <2>2. /\ h' \in [Handles -> Handle]
        /\ \A m \in Handles : h'[m].at # "unused" => h'[m].lib \in Libs
    <3>1. h[n].at # "unused"  BY <1>5 DEF TlsRefused
    <3> QED  BY <1>a, <2>1, <3>1 DEF Moves
  <2> QED  BY <1>b, <1>c, <1>5, <2>2 DEF TypeOK, TlsRefused
<1>6. ASSUME NEW n \in Handles, NoTls(n)  PROVE TypeOK'
  <2>1. Moves(n, h[n].lib, "relocate", h[n].mapped, h[n].id, h[n].ref, h[n].room, h[n].deps)
    BY <1>a, <1>6, HandleSteps
  <2>2. /\ h' \in [Handles -> Handle]
        /\ \A m \in Handles : h'[m].at # "unused" => h'[m].lib \in Libs
    <3>1. h[n].at # "unused"  BY <1>6 DEF NoTls
    <3> QED  BY <1>a, <2>1, <3>1 DEF Moves
  <2> QED  BY <1>b, <1>c, <1>6, <2>2 DEF TypeOK, NoTls
<1>7. ASSUME NEW n \in Handles, Relocate(n)  PROVE TypeOK'
  <2>1. \/ Moves(n, h[n].lib, "init", h[n].mapped, h[n].id, h[n].id, (Len(images) < MaxImages), h[n].deps)
        \/ Moves(n, h[n].lib, "gone", FALSE, None, h[n].ref, h[n].room, h[n].deps)
    BY <1>a, <1>7, HandleSteps
  <2>2. /\ h' \in [Handles -> Handle]
        /\ \A m \in Handles : h'[m].at # "unused" => h'[m].lib \in Libs
    <3>1. h[n].at # "unused"  BY <1>7 DEF Relocate
    <3> QED  BY <1>a, <2>1, <3>1 DEF Moves
  <2>4. owner' \in [Ids -> Handles \cup {None}]
    BY <1>b, <1>7 DEF Relocate
  <2>5. images' \in Seq(Handles)
    <3>1. images' = images \/ images' = Append(images, n)  BY <1>7 DEF Relocate, Listed
    <3> QED  BY <1>b, <3>1
  <2>6. faults' \in Nat
    BY <1>b, <1>7 DEF Relocate, Failing, Unrelocatable
  <2> QED  BY <1>b, <1>c, <1>7, <2>2, <2>4, <2>5, <2>6 DEF TypeOK, Relocate
<1>8. ASSUME NEW n \in Handles, Initialised(n)  PROVE TypeOK'
  <2>1. Moves(n, h[n].lib, "open", h[n].mapped, h[n].id, h[n].ref, h[n].room, h[n].deps)
    BY <1>a, <1>8, HandleSteps
  <2>2. /\ h' \in [Handles -> Handle]
        /\ \A m \in Handles : h'[m].at # "unused" => h'[m].lib \in Libs
    <3>1. h[n].at # "unused"  BY <1>8 DEF Initialised
    <3> QED  BY <1>a, <2>1, <3>1 DEF Moves
  <2> QED  BY <1>b, <1>c, <1>8, <2>2 DEF TypeOK, Initialised
<1>9. ASSUME NEW n \in Handles, Close(n)  PROVE TypeOK'
  <2>1. Moves(n, h[n].lib, "fini", h[n].mapped, h[n].id, h[n].ref, h[n].room, h[n].deps)
    BY <1>a, <1>9, HandleSteps
  <2>2. /\ h' \in [Handles -> Handle]
        /\ \A m \in Handles : h'[m].at # "unused" => h'[m].lib \in Libs
    <3>1. h[n].at # "unused"  BY <1>9 DEF Close
    <3> QED  BY <1>a, <2>1, <3>1 DEF Moves
  <2> QED  BY <1>b, <1>c, <1>9, <2>2 DEF TypeOK, Close
<1>10. ASSUME NEW n \in Handles, UnregisterTls(n)  PROVE TypeOK'
  <2>1. Moves(n, h[n].lib, "unlist", h[n].mapped, None, h[n].ref, h[n].room, h[n].deps)
    BY <1>a, <1>10, HandleSteps
  <2>2. /\ h' \in [Handles -> Handle]
        /\ \A m \in Handles : h'[m].at # "unused" => h'[m].lib \in Libs
    <3>1. h[n].at # "unused"  BY <1>10 DEF UnregisterTls
    <3> QED  BY <1>a, <2>1, <3>1 DEF Moves
  <2> QED  BY <1>b, <1>c, <1>10, <2>2 DEF TypeOK, UnregisterTls
<1>11. ASSUME NEW n \in Handles, Unlist(n)  PROVE TypeOK'
  <2>1. Moves(n, h[n].lib, "drop", h[n].mapped, h[n].id, h[n].ref, h[n].room, h[n].deps)
    BY <1>a, <1>11, HandleSteps
  <2>2. /\ h' \in [Handles -> Handle]
        /\ \A m \in Handles : h'[m].at # "unused" => h'[m].lib \in Libs
    <3>1. h[n].at # "unused"  BY <1>11 DEF Unlist
    <3> QED  BY <1>a, <2>1, <3>1 DEF Moves
  <2>4. images' \in Seq(Handles)
    BY <1>b, <1>11, <1>d, RemoveOnce DEF Unlist
  <2> QED  BY <1>b, <1>c, <1>11, <2>2, <2>4 DEF TypeOK, Unlist
<1>12. ASSUME NEW n \in Handles, Unmap(n)  PROVE TypeOK'
  <2>1. /\ h' \in [Handles -> Handle]
        /\ \A m \in Handles : h'[m].at # "unused" => h'[m].lib \in Libs
    <3>1. h[n].at # "unused"  BY <1>12 DEF Unmap
    <3> QED  BY <1>a, <1>12, <3>1, UnmapStep
  <2>2. refs' \in [Deps -> Int]
    BY <1>b, <1>12 DEF Unmap
  <2>3. strayed' \in BOOLEAN
    BY <1>b, <1>12 DEF Unmap
  <2> QED  BY <1>b, <1>c, <1>12, <2>1, <2>2, <2>3 DEF Unmap, TypeOK
<1>13. ASSUME Shutdown  PROVE TypeOK'
  BY <1>13 DEF Shutdown, TypeOK
<1>14. ASSUME NEW t \in Threads, GiveBlock(t)  PROVE TypeOK'
  BY <1>14 DEF TypeOK, GiveBlock, Answered, Failing, Thread
<1>15. ASSUME NEW t \in Threads, ThreadExit(t)  PROVE TypeOK'
  BY <1>15 DEF TypeOK, ThreadExit, Fresh, Thread
<1>16. ASSUME NEW t \in Threads, NEW n \in Handles, GetThreadTls(t, n)  PROVE TypeOK'
  <2>1. key' \in {"none", "ready", "failed", "deleted"} /\ faults' \in Nat
    BY <1>b, <1>c, <1>16 DEF GetThreadTls, Failing
  <2>2. \/ ThreadMoves(t, "out", n, th[t].state, th[t].blocks, None)
        \/ ThreadMoves(t, "locked", n, TRUE, th[t].blocks, th[t].got)
    BY <1>c, <1>16, ThreadSteps
  <2>3. th' \in [Threads -> Thread]
    BY <2>2 DEF ThreadMoves
  <2> QED  BY <1>16, <2>1, <2>3 DEF TypeOK, GetThreadTls
<1>17. CASE UNCHANGED vars
  BY <1>17 DEF TypeOK, vars
<1> QED
  BY <1>1, <1>2, <1>3, <1>4, <1>5, <1>6, <1>7, <1>8, <1>9, <1>10, <1>11,
     <1>12, <1>13, <1>14, <1>15, <1>16, <1>17
  DEF Next

\* A sequence with one element more.
LEMMA AppendOnce ==
  ASSUME NEW S, NEW s \in Seq(S), NEW n \in S, n \notin ToSet(s),
         \A i, j \in DOMAIN s : s[i] = s[j] => i = j
  PROVE  LET r == Append(s, n)
         IN  /\ \A i, j \in DOMAIN r : r[i] = r[j] => i = j
             /\ ToSet(r) = ToSet(s) \cup {n}
<1> DEFINE r == Append(s, n)
<1>1. /\ r \in Seq(S) /\ Len(s) \in Nat /\ Len(r) = Len(s) + 1
      /\ \A i \in 1..Len(s) : r[i] = s[i]
      /\ r[Len(s) + 1] = n
  OBVIOUS
<1> HIDE DEF r
<1>2. DOMAIN r = DOMAIN s \cup {Len(s) + 1} /\ DOMAIN s = 1..Len(s)
  BY <1>1
<1>3. \A i \in DOMAIN s : s[i] # n
  BY DEF ToSet
<1> QED  BY <1>1, <1>2, <1>3 DEF r, ToSet

\* Once bound to an identifier, a library stays so.
Bound == \A m \in Handles : h[m].ref # None => h'[m].ref = h[m].ref

\* The tables stay as TablesInv says.
LEMMA TablesStep == TypeOK /\ TablesInv /\ [Next]_vars => TablesInv'
<1> SUFFICES ASSUME TypeOK, TablesInv, [Next]_vars PROVE TablesInv'
  OBVIOUS
<1>a. h \in [Handles -> Handle]
  BY DEF TypeOK
<1>b. /\ owner \in [Ids -> Handles \cup {None}] /\ images \in Seq(Handles)
      /\ nextId \in Nat \ {0} /\ th \in [Threads -> Thread]
      /\ shut \in BOOLEAN /\ strayed \in BOOLEAN /\ faults \in Nat
  BY DEF TypeOK
<1>c. \A m \in Handles :
         /\ h[m].id \in Ids \cup {None} /\ h[m].ref \in Ids \cup {None}
         /\ h[m].at \in States /\ h[m].mapped \in BOOLEAN
  <2>1. \A m \in Handles : h[m] \in Handle  BY <1>a
  <2> QED  BY <2>1 DEF Handle
<1>d. None \notin Ids /\ None \notin Handles /\ Ids \subseteq Nat
  BY DEF None, Ids, Handles
<1>e. HandleInv /\ IdsInv /\ OwnerInv /\ ImagesInv /\ BlocksInv
  BY DEF TablesInv
<1>f. \A n \in ToSet(images) : n \in Handles
  BY <1>b DEF ToSet
<1>t. \A t \in Threads : \A id \in Ids : th[t].blocks[id] \in Handles \cup {None}
  <2>1. \A t \in Threads : th[t] \in Thread  BY <1>b
  <2> QED  BY <2>1 DEF Thread
\* A step that binds no library anew keeps what the threads have.
<1>g. ASSUME UNCHANGED th, Bound  PROVE BlocksInv'
  <2>1. \A t \in Threads : th[t].for \in Handles \cup {None}
    <3>1. \A t \in Threads : th[t] \in Thread  BY <1>b
    <3> QED  BY <3>1 DEF Thread
  <2>2. \A t \in Threads : \A id \in Ids :
           th[t].blocks[id] # None => h'[th[t].blocks[id]].ref = id
    BY <1>d, <1>e, <1>g, <1>t DEF BlocksInv, Bound
  <2>3. \A t \in Threads : th[t].at = "locked" => th[t].for # None /\ h'[th[t].for].ref # None
    BY <1>d, <1>e, <1>g, <2>1 DEF BlocksInv, Bound
  <2> QED  BY <1>g, <2>2, <2>3 DEF BlocksInv
\* A step that leaves the identifiers as they are.
<1>h. ASSUME UNCHANGED <<owner, shut>>, \A m \in Handles : h'[m].id = h[m].id  PROVE OwnerInv'
  BY <1>b, <1>e, <1>h DEF OwnerInv
\* A step that gives no identifier to another handle.
<1>i. ASSUME nextId' \in {nextId, nextId + 1},
             \A m \in Handles : {h'[m].id, h'[m].ref} \subseteq {h[m].id, h[m].ref, None}
      PROVE  IdsInv'
  <2> SUFFICES ASSUME NEW n \in Handles, NEW id \in Ids, id \in {h'[n].id, h'[n].ref}
               PROVE  id < nextId' /\ \A m \in Handles : id \in {h'[m].id, h'[m].ref} => m = n
    BY DEF IdsInv
  <2>1. \A m \in Handles : id \in {h'[m].id, h'[m].ref} => id \in {h[m].id, h[m].ref}
    BY <1>d, <1>i
  <2>2. id < nextId /\ \A m \in Handles : id \in {h[m].id, h[m].ref} => m = n
    BY <1>e, <2>1 DEF IdsInv
  <2> QED  BY <1>b, <1>d, <1>i, <2>1, <2>2
<1>1. ASSUME NEW n \in Handles, Open(n)  PROVE TablesInv'
  <2>1. \E l \in Libs : \/ Moves(n, l, "dynamic", TRUE, None, None, TRUE, {})
                      \/ Moves(n, l, "gone", FALSE, None, None, TRUE, {})
    BY <1>a, <1>1, HandleSteps
  <2>2. h[n].at = "unused" /\ UNCHANGED <<images, owner, th, strayed, shut>>
    BY <1>1 DEF Open
  <2>3. Bound
    BY <1>c, <1>d, <1>e, <2>1, <2>2 DEF Moves, Bound, HandleInv, Before
  <2>4. HandleInv'
    BY <1>c, <1>d, <1>e, <1>1, <2>1, <2>2 DEF Moves, HandleInv, Before, Running, States
  <2>5. IdsInv'
    <3>1. nextId' \in {nextId, nextId + 1}  BY <1>b, <1>1 DEF Open
    <3>2. \A m \in Handles : {h'[m].id, h'[m].ref} \subseteq {h[m].id, h[m].ref, None}
      BY <2>1 DEF Moves
    <3> QED  BY <1>i, <3>1, <3>2
  <2>6. OwnerInv'
    <3>1. h[n].id = None  BY <1>e, <2>2 DEF HandleInv, Before
    <3>2. \A m \in Handles : h'[m].id = h[m].id  BY <2>1, <3>1 DEF Moves
    <3> QED  BY <1>h, <2>2, <3>2
  <2>7. ImagesInv'
    BY <1>b, <1>e, <1>f, <1>1, <2>1, <2>2 DEF Moves, ImagesInv, Running
  <2> QED  BY <1>g, <2>2, <2>3, <2>4, <2>5, <2>6, <2>7 DEF TablesInv
<1>2. ASSUME NEW n \in Handles, ParseDynamic(n)  PROVE TablesInv'
  <2>1. \/ Moves(n, h[n].lib, "deps", h[n].mapped, h[n].id, h[n].ref, h[n].room, h[n].deps)
        \/ Moves(n, h[n].lib, "gone", FALSE, h[n].id, h[n].ref, h[n].room, h[n].deps)
    BY <1>a, <1>2, HandleSteps
  <2>2. h[n].at = "dynamic" /\ UNCHANGED <<images, owner, th, strayed, shut>>
    BY <1>2 DEF ParseDynamic
  <2>3. Bound
    BY <1>c, <1>d, <1>e, <2>1, <2>2 DEF Moves, Bound, HandleInv, Before
  <2>4. HandleInv'
    BY <1>c, <1>d, <1>e, <1>2, <2>1, <2>2 DEF Moves, HandleInv, Before, Running, States
  <2>5. IdsInv'
    <3>1. nextId' \in {nextId, nextId + 1}  BY <1>b, <1>2 DEF ParseDynamic
    <3>2. \A m \in Handles : {h'[m].id, h'[m].ref} \subseteq {h[m].id, h[m].ref, None}
      BY <2>1 DEF Moves
    <3> QED  BY <1>i, <3>1, <3>2
  <2>6. OwnerInv'
    <3>1. \A m \in Handles : h'[m].id = h[m].id  BY <2>1 DEF Moves
    <3> QED  BY <1>h, <2>2, <3>1
  <2>7. ImagesInv'
    BY <1>b, <1>e, <1>f, <1>2, <2>1, <2>2 DEF Moves, ImagesInv, Running
  <2> QED  BY <1>g, <2>2, <2>3, <2>4, <2>5, <2>6, <2>7 DEF TablesInv
<1>3. ASSUME NEW n \in Handles, OpenDeps(n)  PROVE TablesInv'
  <2>1. \E found \in SUBSET Deps : Moves(n, h[n].lib, "tls", h[n].mapped, h[n].id, h[n].ref, h[n].room, found)
    <3>1. h[n].lib \in Libs  BY <1>3 DEF OpenDeps, TypeOK
    <3> QED  BY <1>a, <1>3, <3>1, HandleSteps DEF Deps
  <2>2. h[n].at = "deps" /\ UNCHANGED <<images, owner, th, strayed, shut>>
    BY <1>3 DEF OpenDeps
  <2>3. Bound
    BY <1>c, <1>d, <1>e, <2>1, <2>2 DEF Moves, Bound, HandleInv, Before
  <2>4. HandleInv'
    BY <1>c, <1>d, <1>e, <1>3, <2>1, <2>2 DEF Moves, HandleInv, Before, Running, States
  <2>5. IdsInv'
    <3>1. nextId' \in {nextId, nextId + 1}  BY <1>b, <1>3 DEF OpenDeps
    <3>2. \A m \in Handles : {h'[m].id, h'[m].ref} \subseteq {h[m].id, h[m].ref, None}
      BY <2>1 DEF Moves
    <3> QED  BY <1>i, <3>1, <3>2
  <2>6. OwnerInv'
    <3>1. \A m \in Handles : h'[m].id = h[m].id  BY <2>1 DEF Moves
    <3> QED  BY <1>h, <2>2, <3>1
  <2>7. ImagesInv'
    BY <1>b, <1>e, <1>f, <1>3, <2>1, <2>2 DEF Moves, ImagesInv, Running
  <2> QED  BY <1>g, <2>2, <2>3, <2>4, <2>5, <2>6, <2>7 DEF TablesInv
<1>4. ASSUME NEW n \in Handles, RegisterTls(n)  PROVE TablesInv'
  <2>1. Moves(n, h[n].lib, "relocate", h[n].mapped, nextId, h[n].ref, h[n].room, h[n].deps)
    BY <1>a, <1>4, HandleSteps
  <2>2. h[n].at = "tls" /\ UNCHANGED <<images, th, strayed, shut>>
    BY <1>4 DEF RegisterTls
  <2>3. Bound
    BY <1>c, <1>d, <1>e, <2>1, <2>2 DEF Moves, Bound, HandleInv, Before
  <2>4. HandleInv'
    BY <1>c, <1>d, <1>e, <1>4, <2>1, <2>2 DEF Moves, HandleInv, Before, Running, States
  <2>5. IdsInv'
    BY <1>b, <1>c, <1>d, <1>e, <1>4, <2>1, <2>2 DEF Moves, IdsInv, RegisterTls
  <2>6. OwnerInv'
    <3>1. h[n].id = None /\ h'[n].id = nextId /\ \A m \in Handles : m # n => h'[m].id = h[m].id
      BY <1>e, <2>1, <2>2 DEF HandleInv, Before, Moves
    <3>2. nextId \in Ids /\ owner' = [owner EXCEPT ![nextId] = n]
      BY <1>4 DEF RegisterTls
    <3>3. ASSUME NEW id \in Ids, owner'[id] # None  PROVE h'[owner'[id]].id = id
      <4>1. CASE id = nextId  BY <1>b, <3>1, <3>2, <4>1
      <4>2. CASE id # nextId
        <5>1. owner'[id] = owner[id]  BY <1>b, <3>2, <4>2
        <5>2. owner[id] \in Handles /\ h[owner[id]].id = id
          BY <1>b, <1>e, <3>3, <5>1 DEF OwnerInv
        <5> QED  BY <1>d, <3>1, <5>1, <5>2
      <4> QED  BY <4>1, <4>2
    <3>4. ASSUME ~shut, NEW m \in Handles, h'[m].id # None  PROVE owner'[h'[m].id] = m
      <4>1. CASE m = n  BY <1>b, <3>1, <3>2, <4>1
      <4>2. CASE m # n
        <5>1. owner[h[m].id] = m /\ h[m].id \in Ids  BY <1>c, <1>e, <3>1, <3>4, <4>2 DEF OwnerInv
        <5>2. h[m].id # nextId  BY <1>b, <1>e, <5>1 DEF IdsInv
        <5> QED  BY <1>b, <3>1, <3>2, <4>2, <5>1, <5>2
      <4> QED  BY <4>1, <4>2
    <3> QED  BY <2>2, <3>3, <3>4 DEF OwnerInv
  <2>7. ImagesInv'
    BY <1>b, <1>e, <1>f, <1>4, <2>1, <2>2 DEF Moves, ImagesInv, Running
  <2> QED  BY <1>g, <2>2, <2>3, <2>4, <2>5, <2>6, <2>7 DEF TablesInv
<1>5. ASSUME NEW n \in Handles, TlsRefused(n)  PROVE TablesInv'
  <2>1. Moves(n, h[n].lib, "gone", FALSE, h[n].id, h[n].ref, h[n].room, h[n].deps)
    BY <1>a, <1>5, HandleSteps
  <2>2. h[n].at = "tls" /\ UNCHANGED <<images, owner, th, strayed, shut>>
    BY <1>5 DEF TlsRefused
  <2>3. Bound
    BY <1>c, <1>d, <1>e, <2>1, <2>2 DEF Moves, Bound, HandleInv, Before
  <2>4. HandleInv'
    BY <1>c, <1>d, <1>e, <1>5, <2>1, <2>2 DEF Moves, HandleInv, Before, Running, States
  <2>5. IdsInv'
    <3>1. nextId' \in {nextId, nextId + 1}  BY <1>b, <1>5 DEF TlsRefused
    <3>2. \A m \in Handles : {h'[m].id, h'[m].ref} \subseteq {h[m].id, h[m].ref, None}
      BY <2>1 DEF Moves
    <3> QED  BY <1>i, <3>1, <3>2
  <2>6. OwnerInv'
    <3>1. \A m \in Handles : h'[m].id = h[m].id  BY <2>1 DEF Moves
    <3> QED  BY <1>h, <2>2, <3>1
  <2>7. ImagesInv'
    BY <1>b, <1>e, <1>f, <1>5, <2>1, <2>2 DEF Moves, ImagesInv, Running
  <2> QED  BY <1>g, <2>2, <2>3, <2>4, <2>5, <2>6, <2>7 DEF TablesInv
<1>6. ASSUME NEW n \in Handles, NoTls(n)  PROVE TablesInv'
  <2>1. Moves(n, h[n].lib, "relocate", h[n].mapped, h[n].id, h[n].ref, h[n].room, h[n].deps)
    BY <1>a, <1>6, HandleSteps
  <2>2. h[n].at = "tls" /\ UNCHANGED <<images, owner, th, strayed, shut>>
    BY <1>6 DEF NoTls
  <2>3. Bound
    BY <1>c, <1>d, <1>e, <2>1, <2>2 DEF Moves, Bound, HandleInv, Before
  <2>4. HandleInv'
    BY <1>c, <1>d, <1>e, <1>6, <2>1, <2>2 DEF Moves, HandleInv, Before, Running, States
  <2>5. IdsInv'
    <3>1. nextId' \in {nextId, nextId + 1}  BY <1>b, <1>6 DEF NoTls
    <3>2. \A m \in Handles : {h'[m].id, h'[m].ref} \subseteq {h[m].id, h[m].ref, None}
      BY <2>1 DEF Moves
    <3> QED  BY <1>i, <3>1, <3>2
  <2>6. OwnerInv'
    <3>1. \A m \in Handles : h'[m].id = h[m].id  BY <2>1 DEF Moves
    <3> QED  BY <1>h, <2>2, <3>1
  <2>7. ImagesInv'
    BY <1>b, <1>e, <1>f, <1>6, <2>1, <2>2 DEF Moves, ImagesInv, Running
  <2> QED  BY <1>g, <2>2, <2>3, <2>4, <2>5, <2>6, <2>7 DEF TablesInv
<1>7. ASSUME NEW n \in Handles, Relocate(n)  PROVE TablesInv'
  <2>1. \/ Moves(n, h[n].lib, "init", h[n].mapped, h[n].id, h[n].id, (Len(images) < MaxImages), h[n].deps)
        \/ Moves(n, h[n].lib, "gone", FALSE, None, h[n].ref, h[n].room, h[n].deps)
    BY <1>a, <1>7, HandleSteps
  <2>2. h[n].at = "relocate" /\ UNCHANGED <<th, strayed, shut>>
    BY <1>7 DEF Relocate
  <2>3. Bound
    BY <1>c, <1>d, <1>e, <2>1, <2>2 DEF Moves, Bound, HandleInv, Before
  <2>4. HandleInv'
    BY <1>c, <1>d, <1>e, <1>7, <2>1, <2>2 DEF Moves, HandleInv, Before, Running, States
  <2>5. IdsInv'
    <3>1. nextId' \in {nextId, nextId + 1}  BY <1>b, <1>7 DEF Relocate
    <3>2. \A m \in Handles : {h'[m].id, h'[m].ref} \subseteq {h[m].id, h[m].ref, None}
      BY <2>1 DEF Moves
    <3> QED  BY <1>i, <3>1, <3>2
  <2>6. OwnerInv'
    <3>1. CASE UNCHANGED owner /\ h'[n].id = h[n].id
      <4>1. \A m \in Handles : h'[m].id = h[m].id  BY <2>1, <3>1 DEF Moves
      <4> QED  BY <1>h, <2>2, <3>1, <4>1
    <3>2. CASE /\ h'[n].id = None
               /\ owner' = [id \in Ids |-> IF owner[id] = n THEN None ELSE owner[id]]
      <4>1. \A m \in Handles : m # n => h'[m].id = h[m].id  BY <2>1 DEF Moves
      <4> QED  BY <1>b, <1>c, <1>d, <1>e, <2>2, <3>2, <4>1 DEF OwnerInv
    <3>3. \/ h' = Relocated(n) /\ UNCHANGED owner
          \/ /\ h' = [h EXCEPT ![n].mapped = FALSE, ![n].id = None, ![n].at = "gone"]
             /\ owner' = [id \in Ids |-> IF owner[id] = n THEN None ELSE owner[id]]
      BY <1>7, Zenon DEF Relocate
    <3>4. h' = Relocated(n) => h'[n].id = h[n].id
      <4>1. h[n] \in Handle  BY <1>a
      <4> QED  BY <1>a, <4>1 DEF Relocated, Handle
    <3>5. h' = [h EXCEPT ![n].mapped = FALSE, ![n].id = None, ![n].at = "gone"] => h'[n].id = None
      <4>1. h[n] \in Handle  BY <1>a
      <4> QED  BY <1>a, <4>1 DEF Handle
    <3> QED  BY <3>1, <3>2, <3>3, <3>4, <3>5
  <2>7. ImagesInv'
    <3>0. n \notin ToSet(images)
      BY <1>e, <2>2 DEF ImagesInv, Running
    <3>1. CASE UNCHANGED images /\ h'[n].at \in Running /\ ~h'[n].room
      BY <1>e, <1>f, <2>1, <3>0, <3>1 DEF Moves, ImagesInv
    <3>2. CASE UNCHANGED images /\ h'[n].at = "gone"
      BY <1>e, <1>f, <2>1, <3>0, <3>2 DEF Moves, ImagesInv, Running
    <3>3. CASE images' = Append(images, n) /\ h'[n].at \in Running
      <4>1. /\ \A i, j \in DOMAIN images' : images'[i] = images'[j] => i = j
            /\ ToSet(images') = ToSet(images) \cup {n}
        BY <1>b, <1>e, <3>0, <3>3, AppendOnce DEF ImagesInv
      <4>2. \A m \in Handles : m # n => h'[m] = h[m]
        BY <2>1 DEF Moves
      <4> QED  BY <1>e, <1>f, <3>3, <4>1, <4>2 DEF ImagesInv
    <3>4. \/ h' = Relocated(n) /\ images' = Listed(n)
          \/ h' = [h EXCEPT ![n].mapped = FALSE, ![n].id = None, ![n].at = "gone"] /\ UNCHANGED images
      BY <1>7, Zenon DEF Relocate
    <3>5. h' = Relocated(n) => h'[n].at \in Running /\ (h'[n].room <=> Len(images) < MaxImages)
      <4>1. h[n] \in Handle  BY <1>a
      <4> QED  BY <1>a, <4>1 DEF Relocated, Handle, Running
    <3>6. h' = [h EXCEPT ![n].mapped = FALSE, ![n].id = None, ![n].at = "gone"] => h'[n].at = "gone"
      <4>1. h[n] \in Handle  BY <1>a
      <4> QED  BY <1>a, <4>1 DEF Handle
    <3> QED  BY <3>1, <3>2, <3>3, <3>4, <3>5, <3>6 DEF Listed
  <2> QED  BY <1>g, <2>2, <2>3, <2>4, <2>5, <2>6, <2>7 DEF TablesInv
<1>8. ASSUME NEW n \in Handles, Initialised(n)  PROVE TablesInv'
  <2>1. Moves(n, h[n].lib, "open", h[n].mapped, h[n].id, h[n].ref, h[n].room, h[n].deps)
    BY <1>a, <1>8, HandleSteps
  <2>2. h[n].at = "init" /\ UNCHANGED <<images, owner, th, strayed, shut>>
    BY <1>8 DEF Initialised
  <2>3. Bound
    BY <1>c, <1>d, <1>e, <2>1, <2>2 DEF Moves, Bound, HandleInv, Before
  <2>4. HandleInv'
    BY <1>c, <1>d, <1>e, <1>8, <2>1, <2>2 DEF Moves, HandleInv, Before, Running, States
  <2>5. IdsInv'
    <3>1. nextId' \in {nextId, nextId + 1}  BY <1>b, <1>8 DEF Initialised
    <3>2. \A m \in Handles : {h'[m].id, h'[m].ref} \subseteq {h[m].id, h[m].ref, None}
      BY <2>1 DEF Moves
    <3> QED  BY <1>i, <3>1, <3>2
  <2>6. OwnerInv'
    <3>1. \A m \in Handles : h'[m].id = h[m].id  BY <2>1 DEF Moves
    <3> QED  BY <1>h, <2>2, <3>1
  <2>7. ImagesInv'
    BY <1>b, <1>e, <1>f, <1>8, <2>1, <2>2 DEF Moves, ImagesInv, Running
  <2> QED  BY <1>g, <2>2, <2>3, <2>4, <2>5, <2>6, <2>7 DEF TablesInv
<1>9. ASSUME NEW n \in Handles, Close(n)  PROVE TablesInv'
  <2>1. Moves(n, h[n].lib, "fini", h[n].mapped, h[n].id, h[n].ref, h[n].room, h[n].deps)
    BY <1>a, <1>9, HandleSteps
  <2>2. h[n].at = "open" /\ UNCHANGED <<images, owner, th, strayed, shut>>
    BY <1>9 DEF Close
  <2>3. Bound
    BY <1>c, <1>d, <1>e, <2>1, <2>2 DEF Moves, Bound, HandleInv, Before
  <2>4. HandleInv'
    BY <1>c, <1>d, <1>e, <1>9, <2>1, <2>2 DEF Moves, HandleInv, Before, Running, States
  <2>5. IdsInv'
    <3>1. nextId' \in {nextId, nextId + 1}  BY <1>b, <1>9 DEF Close
    <3>2. \A m \in Handles : {h'[m].id, h'[m].ref} \subseteq {h[m].id, h[m].ref, None}
      BY <2>1 DEF Moves
    <3> QED  BY <1>i, <3>1, <3>2
  <2>6. OwnerInv'
    <3>1. \A m \in Handles : h'[m].id = h[m].id  BY <2>1 DEF Moves
    <3> QED  BY <1>h, <2>2, <3>1
  <2>7. ImagesInv'
    BY <1>b, <1>e, <1>f, <1>9, <2>1, <2>2 DEF Moves, ImagesInv, Running
  <2> QED  BY <1>g, <2>2, <2>3, <2>4, <2>5, <2>6, <2>7 DEF TablesInv
<1>10. ASSUME NEW n \in Handles, UnregisterTls(n)  PROVE TablesInv'
  <2>1. Moves(n, h[n].lib, "unlist", h[n].mapped, None, h[n].ref, h[n].room, h[n].deps)
    BY <1>a, <1>10, HandleSteps
  <2>2. h[n].at = "fini" /\ UNCHANGED <<images, th, strayed, shut>>
    BY <1>10 DEF UnregisterTls
  <2>3. Bound
    BY <1>c, <1>d, <1>e, <2>1, <2>2 DEF Moves, Bound, HandleInv, Before
  <2>4. HandleInv'
    BY <1>c, <1>d, <1>e, <1>10, <2>1, <2>2 DEF Moves, HandleInv, Before, Running, States
  <2>5. IdsInv'
    <3>1. nextId' \in {nextId, nextId + 1}  BY <1>b, <1>10 DEF UnregisterTls
    <3>2. \A m \in Handles : {h'[m].id, h'[m].ref} \subseteq {h[m].id, h[m].ref, None}
      BY <2>1 DEF Moves
    <3> QED  BY <1>i, <3>1, <3>2
  <2>6. OwnerInv'
    BY <1>b, <1>c, <1>d, <1>e, <1>10, <2>1, <2>2 DEF Moves, OwnerInv, HandleInv, Before, Running, UnregisterTls
  <2>7. ImagesInv'
    BY <1>b, <1>e, <1>f, <1>10, <2>1, <2>2 DEF Moves, ImagesInv, Running
  <2> QED  BY <1>g, <2>2, <2>3, <2>4, <2>5, <2>6, <2>7 DEF TablesInv
<1>11. ASSUME NEW n \in Handles, Unlist(n)  PROVE TablesInv'
  <2>1. Moves(n, h[n].lib, "drop", h[n].mapped, h[n].id, h[n].ref, h[n].room, h[n].deps)
    BY <1>a, <1>11, HandleSteps
  <2>2. h[n].at = "unlist" /\ UNCHANGED <<owner, th, strayed, shut>>
    BY <1>11 DEF Unlist
  <2>3. Bound
    BY <1>c, <1>d, <1>e, <2>1, <2>2 DEF Moves, Bound, HandleInv, Before
  <2>4. HandleInv'
    BY <1>c, <1>d, <1>e, <1>11, <2>1, <2>2 DEF Moves, HandleInv, Before, Running, States
  <2>5. IdsInv'
    <3>1. nextId' \in {nextId, nextId + 1}  BY <1>b, <1>11 DEF Unlist
    <3>2. \A m \in Handles : {h'[m].id, h'[m].ref} \subseteq {h[m].id, h[m].ref, None}
      BY <2>1 DEF Moves
    <3> QED  BY <1>i, <3>1, <3>2
  <2>6. OwnerInv'
    <3>1. \A m \in Handles : h'[m].id = h[m].id  BY <2>1 DEF Moves
    <3> QED  BY <1>h, <2>2, <3>1
  <2>7. ImagesInv'
    <3>1. /\ \A i, j \in DOMAIN images' : images'[i] = images'[j] => i = j
          /\ ToSet(images') = ToSet(images) \ {n}
      BY <1>b, <1>e, <1>11, RemoveOnce DEF ImagesInv, Unlist
    <3> QED  BY <1>e, <1>f, <2>1, <2>2, <3>1 DEF Moves, ImagesInv, Running
  <2> QED  BY <1>g, <2>2, <2>3, <2>4, <2>5, <2>6, <2>7 DEF TablesInv
<1>12. ASSUME NEW n \in Handles, Unmap(n)  PROVE TablesInv'
  <2>1. /\ \A m \in Handles :
               /\ h'[m].at = IF m = n THEN "gone" ELSE h[m].at
               /\ h'[m].id = h[m].id /\ h'[m].ref = h[m].ref
               /\ h'[m].room = h[m].room /\ h'[m].deps = h[m].deps
        /\ ~strayed' => \A m \in Handles : h'[m].mapped = IF m = n THEN FALSE ELSE h[m].mapped
    BY <1>a, <1>12, UnmapStep
  <2>2. h[n].at = "drop" /\ UNCHANGED <<images, nextId, owner, th, shut>> /\ (strayed => strayed')
    BY <1>12 DEF Unmap
  <2>3. Bound
    BY <2>1 DEF Bound
  <2>4. HandleInv'
    <3>1. \A m \in Handles \ {n} : h'[m].at = h[m].at /\ (~strayed' => h'[m].mapped = h[m].mapped)
      BY <2>1
    <3>2. /\ h[n].id = None /\ h'[n].at = "gone" /\ h'[n].id = None
          /\ ~strayed' => ~h'[n].mapped
      <4>1. h[n].id # None => h[n].at \in Running \cup {"relocate"}  BY <1>e DEF HandleInv
      <4>2. h[n].id = None  BY <2>2, <4>1 DEF Running
      <4> QED  BY <2>1, <4>2
    <3>3. ~strayed' => ~strayed
      BY <2>2
    <3> SUFFICES ASSUME NEW m \in Handles
                 PROVE  /\ h'[m].at \in Before => h'[m].id = None
                        /\ h'[m].at \in Before \cup {"relocate"} => h'[m].ref = None
                        /\ h'[m].at \in {"unused", "dynamic", "deps"} => h'[m].deps = {}
                        /\ h'[m].at \in Running => h'[m].ref = h'[m].id
                        /\ h'[m].id # None => h'[m].at \in Running \cup {"relocate"}
                        /\ ~strayed' => (h'[m].mapped <=> h'[m].at \notin {"unused", "gone"})
      BY DEF HandleInv
    <3>4. CASE m = n
      BY <3>2, <3>4 DEF Before, Running
    <3>5. CASE m # n
      BY <1>e, <2>1, <3>1, <3>3, <3>5 DEF HandleInv
    <3> QED  BY <3>4, <3>5
  <2>5. IdsInv'
    BY <1>e, <2>1, <2>2 DEF IdsInv
  <2>6. OwnerInv'
    BY <1>b, <1>e, <2>1, <2>2 DEF OwnerInv
  <2>7. ImagesInv'
    BY <1>e, <1>f, <2>1, <2>2 DEF ImagesInv, Running
  <2> QED  BY <1>g, <2>2, <2>3, <2>4, <2>5, <2>6, <2>7 DEF TablesInv
<1>13. ASSUME Shutdown  PROVE TablesInv'
  <2>1. UNCHANGED <<h, images, nextId, th, strayed>> /\ shut' /\ owner' = [id \in Ids |-> None]
    BY <1>13 DEF Shutdown
  <2> QED  BY <1>e, <2>1 DEF TablesInv, HandleInv, IdsInv, OwnerInv, ImagesInv, BlocksInv
<1>14. ASSUME UNCHANGED <<linker, shut, strayed>>, BlocksInv'  PROVE TablesInv'
  BY <1>e, <1>14 DEF TablesInv, HandleInv, IdsInv, OwnerInv, ImagesInv
<1>15. ASSUME NEW t \in Threads, GiveBlock(t)  PROVE TablesInv'
  <2> DEFINE n  == th[t].for
             id == h[n].ref
  <2>1. th[t] \in Thread /\ th[t].at = "locked" /\ n \in Handles /\ id \in Ids
    <3>1. th[t].at = "locked"  BY <1>15, Zenon DEF GiveBlock
    <3>2. th[t] \in Thread  BY <1>b
    <3>3. n \in Handles \cup {None}  BY <3>2 DEF Thread
    <3>4. n # None /\ id # None  BY <1>e, <3>1 DEF BlocksInv
    <3> QED  BY <1>c, <3>1, <3>2, <3>3, <3>4
  <2>2. Given(t, id)
    BY <1>b, <1>15, <2>1, ThreadSteps
  <2>3. owner[id] # None => owner[id] = n
    <3> SUFFICES ASSUME owner[id] # None PROVE owner[id] = n
      OBVIOUS
    <3>1. owner[id] \in Handles /\ h[owner[id]].id = id
      BY <1>b, <1>e, <2>1 DEF OwnerInv
    <3> QED  BY <1>e, <2>1, <3>1 DEF IdsInv
  <2>4. UNCHANGED <<linker, shut, strayed>>
    BY <1>15, Zenon DEF GiveBlock
  <2>5. th'[t].at = "out" /\ \A u \in Threads : u # t => th'[u] = th[u]
    BY <2>2 DEF Given, ThreadMoves
  <2>6. \A i \in Ids : th'[t].blocks[i] # None => h[th'[t].blocks[i]].ref = i
    <3>1. CASE th'[t].blocks = th[t].blocks
      BY <1>e, <3>1 DEF BlocksInv
    <3>2. CASE th'[t].blocks = [th[t].blocks EXCEPT ![id] = owner[id]] /\ owner[id] # None
      <4>1. th[t].blocks \in [Ids -> Handles \cup {None}]
        BY <2>1 DEF Thread
      <4> QED  BY <1>e, <2>3, <3>2, <4>1 DEF BlocksInv
    <3> QED  BY <2>2, <3>1, <3>2 DEF Given, ThreadMoves
  <2>7. BlocksInv'
    BY <1>e, <2>4, <2>5, <2>6 DEF BlocksInv
  <2> QED  BY <1>14, <2>4, <2>7
<1>16. ASSUME NEW t \in Threads, ThreadExit(t)  PROVE TablesInv'
  <2>1. UNCHANGED <<linker, shut, strayed>> /\ \A u \in Threads : u # t => th'[u] = th[u]
    BY <1>b, <1>16 DEF ThreadExit
  <2>2. th'[t].at = "out" /\ \A i \in Ids : th'[t].blocks[i] = None
    BY <1>b, <1>16 DEF ThreadExit, Fresh
  <2>3. BlocksInv'
    BY <1>e, <2>1, <2>2 DEF BlocksInv
  <2> QED  BY <1>14, <2>1, <2>3
<1>17. ASSUME NEW t \in Threads, NEW n \in Handles, GetThreadTls(t, n)  PROVE TablesInv'
  <2>1. UNCHANGED <<linker, shut, strayed>> /\ h[n].ref # None
    BY <1>17 DEF GetThreadTls
  <2>2. /\ \A u \in Threads : u # t => th'[u] = th[u]
        /\ th'[t].blocks = th[t].blocks /\ th'[t].for = n
    BY <1>b, <1>17, ThreadSteps DEF ThreadMoves
  <2>3. BlocksInv'
    BY <1>d, <1>e, <2>1, <2>2 DEF BlocksInv
  <2> QED  BY <1>14, <2>1, <2>3
<1>18. CASE UNCHANGED vars
  BY <1>e, <1>18 DEF vars, TablesInv, HandleInv, IdsInv, OwnerInv, ImagesInv, BlocksInv
<1> QED
  BY <1>1, <1>2, <1>3, <1>4, <1>5, <1>6, <1>7, <1>8, <1>9, <1>10, <1>11,
     <1>12, <1>13, <1>15, <1>16, <1>17, <1>18
  DEF Next

\* The images that hold a library are finitely many.
LEMMA HoldersFinite ==
  ASSUME NEW d
  PROVE  IsFiniteSet(HoldersOf(d)) /\ Cardinality(HoldersOf(d)) \in Nat
<1>1. IsFiniteSet(Handles)
  BY FS_Interval DEF Handles
<1>2. HoldersOf(d) \subseteq Handles
  BY DEF HoldersOf
<1> QED  BY <1>1, <1>2, FS_Subset, FS_CardinalityType

\* What the loader counts is never less than the images that count on it: a
\* reference is dropped by the image that holds it, once.
LEMMA RefsStep == TypeOK /\ TablesInv /\ RefsInv /\ [Next]_vars => RefsInv'
<1> SUFFICES ASSUME TypeOK, TablesInv, RefsInv, [Next]_vars, NEW d \in Deps
             PROVE  refs'[d] >= Cardinality(HoldersOf(d)')
  BY DEF RefsInv
<1>a. h \in [Handles -> Handle] /\ refs \in [Deps -> Int]
  BY DEF TypeOK
<1>b. HandleInv
  BY DEF TablesInv
<1>c. refs[d] >= Cardinality(HoldersOf(d)) /\ refs[d] \in Int
  BY <1>a DEF RefsInv
<1>d. IsFiniteSet(HoldersOf(d)) /\ Cardinality(HoldersOf(d)) \in Nat
  BY HoldersFinite
\* A step that gives d to no other image.
<1>e. ASSUME UNCHANGED refs, \A n \in Handles : n \in HoldersOf(d)' => n \in HoldersOf(d)
      PROVE  refs'[d] >= Cardinality(HoldersOf(d)')
  <2>1. HoldersOf(d)' \subseteq HoldersOf(d)
    BY <1>e DEF HoldersOf
  <2>2. Cardinality(HoldersOf(d)') <= Cardinality(HoldersOf(d)) /\ Cardinality(HoldersOf(d)') \in Nat
    BY <1>d, <2>1, FS_Subset, FS_CardinalityType
  <2> QED  BY <1>c, <1>d, <1>e, <2>2
<1>1. ASSUME NEW n \in Handles, Open(n)  PROVE refs'[d] >= Cardinality(HoldersOf(d)')
  <2>1. \E l \in Libs : \/ Moves(n, l, "dynamic", TRUE, None, None, TRUE, {})
                      \/ Moves(n, l, "gone", FALSE, None, None, TRUE, {})
    BY <1>a, <1>1, HandleSteps
  <2>2. h[n].at = "unused" /\ UNCHANGED refs
    BY <1>1 DEF Open
  <2> QED  BY <1>e, <2>1, <2>2 DEF Moves, HoldersOf, Holding
<1>2. ASSUME NEW n \in Handles, ParseDynamic(n)  PROVE refs'[d] >= Cardinality(HoldersOf(d)')
  <2>1. \/ Moves(n, h[n].lib, "deps", h[n].mapped, h[n].id, h[n].ref, h[n].room, h[n].deps)
        \/ Moves(n, h[n].lib, "gone", FALSE, h[n].id, h[n].ref, h[n].room, h[n].deps)
    BY <1>a, <1>2, HandleSteps
  <2>2. h[n].at = "dynamic" /\ UNCHANGED refs
    BY <1>2 DEF ParseDynamic
  <2>3. h[n].deps = {}
    BY <1>b, <2>2 DEF HandleInv
  <2> QED  BY <1>e, <2>1, <2>2, <2>3 DEF Moves, HoldersOf, Holding
<1>3. ASSUME NEW n \in Handles, RegisterTls(n)  PROVE refs'[d] >= Cardinality(HoldersOf(d)')
  <2>1. Moves(n, h[n].lib, "relocate", h[n].mapped, nextId, h[n].ref, h[n].room, h[n].deps)
    BY <1>a, <1>3, HandleSteps
  <2>2. h[n].at = "tls" /\ UNCHANGED refs
    BY <1>3 DEF RegisterTls
  <2> QED  BY <1>e, <2>1, <2>2 DEF Moves, HoldersOf, Holding
<1>4. ASSUME NEW n \in Handles, TlsRefused(n)  PROVE refs'[d] >= Cardinality(HoldersOf(d)')
  <2>1. Moves(n, h[n].lib, "gone", FALSE, h[n].id, h[n].ref, h[n].room, h[n].deps)
    BY <1>a, <1>4, HandleSteps
  <2>2. h[n].at = "tls" /\ UNCHANGED refs
    BY <1>4 DEF TlsRefused
  <2> QED  BY <1>e, <2>1, <2>2 DEF Moves, HoldersOf, Holding
<1>5. ASSUME NEW n \in Handles, NoTls(n)  PROVE refs'[d] >= Cardinality(HoldersOf(d)')
  <2>1. Moves(n, h[n].lib, "relocate", h[n].mapped, h[n].id, h[n].ref, h[n].room, h[n].deps)
    BY <1>a, <1>5, HandleSteps
  <2>2. h[n].at = "tls" /\ UNCHANGED refs
    BY <1>5 DEF NoTls
  <2> QED  BY <1>e, <2>1, <2>2 DEF Moves, HoldersOf, Holding
<1>6. ASSUME NEW n \in Handles, Relocate(n)  PROVE refs'[d] >= Cardinality(HoldersOf(d)')
  <2>1. \/ Moves(n, h[n].lib, "init", h[n].mapped, h[n].id, h[n].id, (Len(images) < MaxImages), h[n].deps)
        \/ Moves(n, h[n].lib, "gone", FALSE, None, h[n].ref, h[n].room, h[n].deps)
    BY <1>a, <1>6, HandleSteps
  <2>2. h[n].at = "relocate" /\ UNCHANGED refs
    BY <1>6 DEF Relocate
  <2> QED  BY <1>e, <2>1, <2>2 DEF Moves, HoldersOf, Holding
<1>7. ASSUME NEW n \in Handles, Initialised(n)  PROVE refs'[d] >= Cardinality(HoldersOf(d)')
  <2>1. Moves(n, h[n].lib, "open", h[n].mapped, h[n].id, h[n].ref, h[n].room, h[n].deps)
    BY <1>a, <1>7, HandleSteps
  <2>2. h[n].at = "init" /\ UNCHANGED refs
    BY <1>7 DEF Initialised
  <2> QED  BY <1>e, <2>1, <2>2 DEF Moves, HoldersOf, Holding
<1>8. ASSUME NEW n \in Handles, Close(n)  PROVE refs'[d] >= Cardinality(HoldersOf(d)')
  <2>1. Moves(n, h[n].lib, "fini", h[n].mapped, h[n].id, h[n].ref, h[n].room, h[n].deps)
    BY <1>a, <1>8, HandleSteps
  <2>2. h[n].at = "open" /\ UNCHANGED refs
    BY <1>8 DEF Close
  <2> QED  BY <1>e, <2>1, <2>2 DEF Moves, HoldersOf, Holding
<1>9. ASSUME NEW n \in Handles, UnregisterTls(n)  PROVE refs'[d] >= Cardinality(HoldersOf(d)')
  <2>1. Moves(n, h[n].lib, "unlist", h[n].mapped, None, h[n].ref, h[n].room, h[n].deps)
    BY <1>a, <1>9, HandleSteps
  <2>2. h[n].at = "fini" /\ UNCHANGED refs
    BY <1>9 DEF UnregisterTls
  <2> QED  BY <1>e, <2>1, <2>2 DEF Moves, HoldersOf, Holding
<1>10. ASSUME NEW n \in Handles, Unlist(n)  PROVE refs'[d] >= Cardinality(HoldersOf(d)')
  <2>1. Moves(n, h[n].lib, "drop", h[n].mapped, h[n].id, h[n].ref, h[n].room, h[n].deps)
    BY <1>a, <1>10, HandleSteps
  <2>2. h[n].at = "unlist" /\ UNCHANGED refs
    BY <1>10 DEF Unlist
  <2> QED  BY <1>e, <2>1, <2>2 DEF Moves, HoldersOf, Holding
<1>11. ASSUME NEW n \in Handles, OpenDeps(n)  PROVE refs'[d] >= Cardinality(HoldersOf(d)')
  <2>1. h[n].at = "deps"
    BY <1>11 DEF OpenDeps
  <2>2. h[n].lib \in Libs
    BY <2>1 DEF TypeOK
  <2>3. PICK found \in SUBSET Needs[h[n].lib] :
           /\ Moves(n, h[n].lib, "tls", h[n].mapped, h[n].id, h[n].ref, h[n].room, found)
           /\ refs' = [e \in Deps |-> refs[e] + (IF e \in found THEN 1 ELSE 0)]
    BY <1>a, <1>11, <2>2, HandleSteps
  <2>4. n \notin HoldersOf(d)
    BY <2>1 DEF HoldersOf, Holding
  <2>5. HoldersOf(d)' = IF d \in found THEN HoldersOf(d) \cup {n} ELSE HoldersOf(d)
    <3>1. \A m \in Handles : m # n => (m \in HoldersOf(d)' <=> m \in HoldersOf(d))
      BY <2>3 DEF Moves, HoldersOf
    <3>2. n \in HoldersOf(d)' <=> d \in found
      BY <2>3 DEF Moves, HoldersOf, Holding
    <3>3. HoldersOf(d) \subseteq Handles /\ HoldersOf(d)' \subseteq Handles
      BY DEF HoldersOf
    <3> QED  BY <2>4, <3>1, <3>2, <3>3
  <2>6. Cardinality(HoldersOf(d) \cup {n}) = Cardinality(HoldersOf(d)) + 1
    BY <1>d, <2>4, FS_AddElement
  <2>7. refs'[d] = refs[d] + (IF d \in found THEN 1 ELSE 0)
    BY <1>a, <2>3
  <2> QED  BY <1>c, <1>d, <2>5, <2>6, <2>7
<1>12. ASSUME NEW n \in Handles, Unmap(n)  PROVE refs'[d] >= Cardinality(HoldersOf(d)')
  <2>1. \A m \in Handles : /\ h'[m].at = IF m = n THEN "gone" ELSE h[m].at
                          /\ h'[m].deps = h[m].deps
    BY <1>a, <1>12, UnmapStep
  <2>2. h[n].at = "drop" /\ refs' = [e \in Deps |-> refs[e] - (IF e \in h[n].deps THEN 1 ELSE 0)]
    BY <1>12 DEF Unmap
  <2>3. HoldersOf(d)' = HoldersOf(d) \ {n}
    BY <2>1, <2>2 DEF HoldersOf, Holding
  <2>4. n \in HoldersOf(d) <=> d \in h[n].deps
    BY <2>2 DEF HoldersOf, Holding
  <2>5. Cardinality(HoldersOf(d) \ {n}) = IF n \in HoldersOf(d) THEN Cardinality(HoldersOf(d)) - 1
                                         ELSE Cardinality(HoldersOf(d))
    BY <1>d, FS_RemoveElement
  <2>6. refs'[d] = refs[d] - (IF d \in h[n].deps THEN 1 ELSE 0)
    BY <1>a, <2>2
  <2> QED  BY <1>c, <1>d, <2>3, <2>4, <2>5, <2>6
<1>13. CASE UNCHANGED <<h, refs>>
  BY <1>e, <1>13 DEF HoldersOf
<1>14. ASSUME Shutdown \/ \E t \in Threads : GiveBlock(t) \/ ThreadExit(t) \/ \E n \in Handles : GetThreadTls(t, n)
       PROVE  UNCHANGED <<h, refs>>
  <2>1. Shutdown => UNCHANGED <<h, refs>>  BY DEF Shutdown
  <2>2. \A t \in Threads : GiveBlock(t) => UNCHANGED <<h, refs>>  BY Zenon DEF GiveBlock, linker
  <2>3. \A t \in Threads : ThreadExit(t) => UNCHANGED <<h, refs>>  BY DEF ThreadExit
  <2>4. \A t \in Threads : \A n \in Handles : GetThreadTls(t, n) => UNCHANGED <<h, refs>>
    BY Zenon DEF GetThreadTls, linker
  <2> QED  BY <1>14, <2>1, <2>2, <2>3, <2>4
<1> QED
  <2>1. UNCHANGED vars => UNCHANGED <<h, refs>>  BY DEF vars
  <2> QED
    BY <1>1, <1>2, <1>3, <1>4, <1>5, <1>6, <1>7, <1>8, <1>9, <1>10, <1>11,
       <1>12, <1>13, <1>14, <2>1
    DEF Next

-----------------------------------------------------------------------------
(* The theorems.                                                            *)

\* The initial state satisfies the invariant.
LEMMA InitOK == Init => IInv
<1> SUFFICES ASSUME Init PROVE IInv
  OBVIOUS
<1>1. /\ h = [n \in Handles |-> Unused]
      /\ images = <<>> /\ nextId = 1 /\ owner = [id \in Ids |-> None]
      /\ refs = [d \in Deps |-> 0]
      /\ shut = FALSE /\ key = "none" /\ th = [t \in Threads |-> Fresh]
      /\ strayed = FALSE /\ faults = 0
  BY DEF Init
<1>2. /\ Unused \in Handle /\ Unused.at = "unused" /\ Unused.mapped = FALSE
      /\ Unused.id = None /\ Unused.ref = None /\ Unused.deps = {}
  BY DEF Unused, Handle, States
<1>3. Fresh \in Thread /\ Fresh.at = "out" /\ Fresh.blocks = [i \in Ids |-> None]
  BY DEF Fresh, Thread
<1>4. None \notin Ids /\ None \notin Handles
  BY DEF None, Ids, Handles
<1> HIDE DEF Unused, Fresh
<1>5. TypeOK
  <2>1. h \in [Handles -> Handle] /\ \A n \in Handles : h[n].at = "unused"
    BY <1>1, <1>2
  <2>2. th \in [Threads -> Thread] /\ owner \in [Ids -> Handles \cup {None}]
    BY <1>1, <1>3
  <2>3. refs \in [Deps -> Int] /\ images \in Seq(Handles)
    BY <1>1
  <2>4. nextId \in Nat \ {0} /\ faults \in Nat
    BY <1>1
  <2>5. key \in {"none", "ready", "failed", "deleted"}
    BY <1>1
  <2>6. shut \in BOOLEAN /\ strayed \in BOOLEAN
    BY <1>1
  <2> QED  BY <2>1, <2>2, <2>3, <2>4, <2>5, <2>6 DEF TypeOK
<1>6. HandleInv /\ IdsInv /\ OwnerInv
  BY <1>1, <1>2, <1>4 DEF HandleInv, IdsInv, OwnerInv, Before, Running
<1>7. ImagesInv
  BY <1>1, <1>2 DEF ImagesInv, Running, ToSet
<1>8. BlocksInv
  BY <1>1, <1>3 DEF BlocksInv
<1>9. RefsInv
  <2> SUFFICES ASSUME NEW d \in Deps PROVE refs[d] >= Cardinality(HoldersOf(d))
    BY DEF RefsInv
  <2>1. HoldersOf(d) = {}
    BY <1>1, <1>2 DEF HoldersOf
  <2> QED  BY <1>1, <2>1, FS_EmptySet
<1> QED  BY <1>5, <1>6, <1>7, <1>8, <1>9 DEF IInv, TablesInv

\* The loader's tables, the handles and the threads' blocks agree in every
\* reachable state (dlopen_memfd, dlclose, custom_tls_get_addr).
THEOREM Invariant == Spec => []IInv
<1>1. IInv /\ [Next]_vars => IInv'
  BY TypeStep, TablesStep, RefsStep DEF IInv, TablesInv
<1> QED  BY InitOK, <1>1, PTL DEF Spec

\* Type correctness.
THEOREM TypeCorrect == Spec => []TypeOK
<1>1. IInv => TypeOK
  BY DEF IInv
<1> QED  BY Invariant, <1>1, PTL

\* The list shown to the modules and the table of thread-local variables lead to
\* mapped images only, whatever is opened, refused and closed, as long as no
\* closing has unmapped what is not its image's (Unmap).
THEOREM TablesMappedHolds == Spec => []TablesMapped
<1>1. IInv => TablesMapped
  <2> SUFFICES ASSUME IInv, ~strayed
               PROVE  /\ \A i \in DOMAIN images : h[images[i]].mapped
                      /\ \A id \in Ids : owner[id] # None => h[owner[id]].mapped
    BY DEF TablesMapped
  <2>1. HandleInv /\ OwnerInv /\ ImagesInv /\ TypeOK
    BY DEF IInv, TablesInv
  <2>2. None \notin Ids
    BY DEF None, Ids
  <2>3. ASSUME NEW i \in DOMAIN images  PROVE h[images[i]].mapped
    <3>1. images[i] \in ToSet(images) /\ images[i] \in Handles
      BY <2>1 DEF TypeOK, ToSet
    <3> QED  BY <2>1, <3>1 DEF ImagesInv, HandleInv, Running
  <2>4. ASSUME NEW id \in Ids, owner[id] # None  PROVE h[owner[id]].mapped
    <3>1. owner[id] \in Handles
      BY <2>1, <2>4 DEF TypeOK
    <3>2. h[owner[id]].id # None
      BY <2>1, <2>2, <2>4 DEF OwnerInv
    <3> QED  BY <2>1, <3>1, <3>2 DEF HandleInv, Running
  <2> QED  BY <2>3, <2>4
<1> QED  BY Invariant, <1>1, PTL

\* Whatever runs of a library, initialisers and finalisers included, is mapped,
\* listed when there was room, and the system's libraries it is bound to are open.
THEOREM RunningIsCompleteHolds == Spec => []RunningIsComplete
<1>1. IInv => RunningIsComplete
  <2> SUFFICES ASSUME IInv, NEW n \in Handles, h[n].at \in Running, ~strayed
               PROVE  /\ h[n].mapped
                      /\ h[n].room => n \in ToSet(images)
                      /\ \A d \in h[n].deps : refs[d] > 0
    BY DEF RunningIsComplete
  <2>1. HandleInv /\ ImagesInv /\ RefsInv /\ TypeOK
    BY DEF IInv, TablesInv
  <2>2. h[n].mapped
    BY <2>1 DEF HandleInv, Running
  <2>3. h[n].room => n \in ToSet(images)
    BY <2>1 DEF ImagesInv
  <2>4. ASSUME NEW d \in h[n].deps  PROVE refs[d] > 0
    <3>1. h[n] \in Handle
      BY <2>1 DEF TypeOK
    <3>2. d \in Deps
      BY <3>1 DEF Handle
    <3>3. n \in HoldersOf(d)
      BY DEF HoldersOf, Holding, Running
    <3>4. IsFiniteSet(HoldersOf(d)) /\ Cardinality(HoldersOf(d)) \in Nat
      BY HoldersFinite
    <3>5. Cardinality(HoldersOf(d)) # 0
      BY <3>3, <3>4, FS_EmptySet
    <3>6. refs[d] \in Int /\ refs[d] >= Cardinality(HoldersOf(d))
      BY <2>1, <3>2 DEF TypeOK, RefsInv
    <3> QED  BY <3>4, <3>5, <3>6
  <2> QED  BY <2>2, <2>3, <2>4
<1> QED  BY Invariant, <1>1, PTL

\* No thread ever gets thread-local variables of another library, whatever was
\* closed and opened before: identifiers are given once, and a block is found
\* under the identifier that the library was bound to.
THEOREM TlsAnsweredHolds == Spec => TlsAnswered
<1>1. IInv /\ [Next]_vars => [Answers]_vars
  <2> SUFFICES ASSUME IInv, Next, NEW t \in Threads, th[t].at = "locked", th'[t].at = "out"
               PROVE  LET n == th[t].for
                      IN  /\ th'[t].got \in {n, None}
                          /\ th'[t].got = None => shut \/ faults' > faults \/ h[n].at \notin Running
    BY DEF Answers
  <2>a. /\ TypeOK /\ HandleInv /\ IdsInv /\ OwnerInv /\ BlocksInv
        /\ th \in [Threads -> Thread] /\ h \in [Handles -> Handle]
        /\ owner \in [Ids -> Handles \cup {None}] /\ faults \in Nat
    BY DEF IInv, TablesInv, TypeOK
  <2>b. th' # th
    OBVIOUS
  <2>1. GiveBlock(t)
    <3>1. ASSUME NEW n \in Handles, Open(n) \/ ParseDynamic(n) \/ OpenDeps(n) \/ RegisterTls(n) \/ TlsRefused(n)
                 \/ NoTls(n) \/ Relocate(n) \/ Initialised(n) \/ Close(n)
                 \/ UnregisterTls(n) \/ Unlist(n) \/ Unmap(n)
          PROVE  UNCHANGED th
      <4>1. Open(n) => UNCHANGED th  BY Zenon DEF Open
      <4>2. ParseDynamic(n) => UNCHANGED th  BY Zenon DEF ParseDynamic
      <4>3. OpenDeps(n) => UNCHANGED th  BY Zenon DEF OpenDeps
      <4>4. RegisterTls(n) => UNCHANGED th  BY DEF RegisterTls
      <4>5. TlsRefused(n) => UNCHANGED th  BY DEF TlsRefused
      <4>6. NoTls(n) => UNCHANGED th  BY DEF NoTls
      <4>7. Relocate(n) => UNCHANGED th  BY DEF Relocate
      <4>8. Initialised(n) => UNCHANGED th  BY DEF Initialised
      <4>9. Close(n) => UNCHANGED th  BY DEF Close
      <4>10. UnregisterTls(n) => UNCHANGED th  BY DEF UnregisterTls
      <4>11. Unlist(n) => UNCHANGED th  BY DEF Unlist
      <4>12. Unmap(n) => UNCHANGED th  BY DEF Unmap
      <4> QED  BY <3>1, <4>1, <4>2, <4>3, <4>4, <4>5, <4>6, <4>7, <4>8, <4>9, <4>10, <4>11, <4>12
    <3>3. Shutdown => UNCHANGED th
      BY DEF Shutdown
    <3>4. ASSUME NEW u \in Threads, ThreadExit(u)  PROVE FALSE
      <4>1. th[u].at = "out" /\ \A w \in Threads : w # u => th'[w] = th[w]
        BY <2>a, <3>4 DEF ThreadExit
      <4> QED  BY <4>1
    <3>5. ASSUME NEW u \in Threads, NEW n \in Handles, GetThreadTls(u, n)  PROVE FALSE
      <4>1. th[u].at = "out" /\ \A w \in Threads : w # u => th'[w] = th[w]
        <5>1. th[u].at = "out"  BY <3>5, Zenon DEF GetThreadTls
        <5> QED  BY <2>a, <3>5, <5>1, ThreadSteps DEF ThreadMoves
      <4> QED  BY <4>1
    <3>6. ASSUME NEW u \in Threads, GiveBlock(u)  PROVE u = t
      <4> DEFINE id == h[th[u].for].ref
      <4>1. th[u] \in Thread /\ th[u].at = "locked"
        BY <2>a, <3>6, Zenon DEF GiveBlock
      <4>2. th[u].for \in Handles /\ id \in Ids
        <5>1. th[u].for \in Handles \cup {None} /\ th[u].for # None /\ id # None
          BY <2>a, <4>1 DEF BlocksInv, Thread
        <5>2. h[th[u].for] \in Handle
          BY <2>a, <5>1
        <5> QED  BY <5>1, <5>2 DEF Handle
      <4>3. Given(u, id)
        BY <2>a, <3>6, <4>2, ThreadSteps
      <4> QED  BY <4>3 DEF Given, ThreadMoves
    <3> QED  BY <2>b, <3>1, <3>3, <3>4, <3>5, <3>6 DEF Next
  <2> DEFINE n  == th[t].for
             id == h[n].ref
  <2>2. th[t] \in Thread /\ n \in Handles /\ id \in Ids
    <3>1. th[t] \in Thread
      BY <2>a
    <3>2. n \in Handles \cup {None} /\ n # None /\ id # None
      BY <2>a, <3>1 DEF BlocksInv, Thread
    <3>3. h[n] \in Handle
      BY <2>a, <3>2
    <3> QED  BY <3>1, <3>2, <3>3 DEF Handle
  <2>3. Given(t, id)
    BY <2>a, <2>1, <2>2, ThreadSteps
  <2>4. owner[id] # None => owner[id] = n
    <3> SUFFICES ASSUME owner[id] # None PROVE owner[id] = n
      OBVIOUS
    <3>1. owner[id] \in Handles /\ h[owner[id]].id = id
      BY <2>a, <2>2 DEF OwnerInv
    <3> QED  BY <2>a, <2>2, <3>1 DEF IdsInv
  <2>5. th[t].blocks[id] # None => th[t].blocks[id] = n
    <3> SUFFICES ASSUME th[t].blocks[id] # None PROVE th[t].blocks[id] = n
      OBVIOUS
    <3>1. th[t].blocks[id] \in Handles /\ h[th[t].blocks[id]].ref = id
      BY <2>a, <2>2 DEF BlocksInv, Thread
    <3> QED  BY <2>a, <2>2, <3>1 DEF IdsInv
  <2>6. ~shut /\ h[n].at \in Running => owner[id] = n
    <3> SUFFICES ASSUME ~shut, h[n].at \in Running PROVE owner[id] = n
      OBVIOUS
    <3>1. h[n].id = id
      BY <2>a, <2>2 DEF HandleInv
    <3>2. h[n].id # None
      BY <2>2, <3>1 DEF None, Ids
    <3> QED  BY <2>a, <2>2, <3>1, <3>2 DEF OwnerInv
  <2>7. None \notin Handles
    BY DEF None, Handles
  <2> HIDE DEF n, id
  <2>8. /\ th'[t].got \in {n, None}
        /\ th'[t].got = None => shut \/ faults' > faults \/ h[n].at \notin Running
    BY <2>2, <2>3, <2>4, <2>5, <2>6, <2>7 DEF Given, ThreadMoves
  <2> QED  BY <2>8 DEF n
<1> QED  BY Invariant, <1>1, PTL DEF Spec, TlsAnswered

=============================================================================

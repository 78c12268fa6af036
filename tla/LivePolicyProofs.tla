-------------------------- MODULE LivePolicyProofs --------------------------
(***************************************************************************)
(* Proofs about LivePolicy for any policy, rule texts, clients and readers. *)
(***************************************************************************)
EXTENDS LivePolicy, FiniteSetTheorems, WellFoundedInduction, TLAPS

-----------------------------------------------------------------------------
(* The invariant.                                                           *)

\* The shape of the variables that the properties speak of.
Fields == {"pc", "kind", "stmts", "old", "new", "count", "answer", "given"}
Record(r) == r = [f \in Fields |-> r[f]]
Reader == [holds : Ids \cup {0}, asks : Queries \cup {None}, got : {None, "yes", "no"}, late : BOOLEAN]

Shape ==
  /\ cl = [c \in Clients |-> cl[c]] /\ \A c \in Clients : Record(cl[c])
  /\ rd \in [Readers -> Reader]
  /\ \A r \in Readers : rd[r].holds # 0 \/ rd[r].got # None => rd[r].asks \in Queries
  /\ cache \in [Queries -> {None, "yes", "no"}]
  /\ mem = [i \in Ids |-> mem[i]] /\ live \in Ids /\ free \subseteq Ids

\* Who edits, publishes and flushes has the mutex.
MutexInv == \A c \in Clients : cl[c].pc \in {"edit", "publish", "sync", "flush"} <=> mutex = c

\* The policy in force, the one that is edited and the one that is to go are
\* three, and the edited one is the one in force with the statements so far.
StoreInv ==
  /\ live \notin free
  /\ \A c \in Clients :
       /\ cl[c].pc \in {"edit", "publish"} =>
            cl[c].old = live /\ cl[c].new \in Ids \ free /\ cl[c].new # live
       /\ cl[c].pc = "edit" => mem[cl[c].new] = mem[live]
       /\ cl[c].pc = "publish" =>
            \E garbage \in Ranges : mem[cl[c].new] = Run(mem[live], cl[c].stmts, garbage).pol
       /\ cl[c].pc = "sync" => cl[c].old \in Ids \ free /\ cl[c].old # live

\* A reader has the policy in force, or the one that the writer waits to free.
ReaderInv ==
  \A r \in Readers : \/ rd[r].holds \in {0, live}
                     \/ \E c \in Clients : cl[c].pc = "sync" /\ rd[r].holds = cl[c].old

\* From the publication to the flush answers may be stale.
Switching == \E c \in Clients : cl[c].pc \in {"sync", "flush"}

CacheInv ==
  ~Switching =>
    /\ \A q \in Queries \ raced : cache[q] # None => (cache[q] = "yes" <=> Allowed(mem[live], q))
    /\ \A r \in Readers : rd[r].got # None /\ ~rd[r].late
          => (rd[r].got = "yes" <=> Allowed(mem[live], rd[r].asks))

IInv == Shape /\ MutexInv /\ StoreInv /\ ReaderInv /\ CacheInv
-----------------------------------------------------------------------------
(* The steps.                                                               *)

USE DEF store, history, bounds

\* What a step makes of its client, the others keep.
Step(c, pc) ==
  /\ cl' = [d \in Clients |-> cl'[d]]
  /\ \A d \in Clients : Record(cl'[d]) /\ (d # c => cl'[d] = cl[d])
  /\ cl'[c].pc = pc

\* A step that sets the record of one client is a step of that client.
LEMMA Stepped ==
  ASSUME Shape, NEW c \in Clients, NEW r, Record(r), cl' = [cl EXCEPT ![c] = r]
  PROVE  Step(c, r.pc) /\ cl'[c] = r
BY DEF Step, Shape

\* A request comes, is refused, lacks nothing or fails before the copy.
LEMMA Requests ==
  ASSUME Shape, NEW c \in Clients,
         LivePatch(c) \/ AskGrant(c) \/ AskRestore(c) \/ Refuse(c)
  PROVE  /\ cl[c].pc \in {"idle", "sent"} /\ (Step(c, "idle") \/ Step(c, "sent"))
         /\ UNCHANGED <<store, mutex, rd, cache, raced>>
<1>1. Record(cl[c])
  BY DEF Shape
<1>2. CASE LivePatch(c)
  <2>1. PICK text \in Texts :
          LET bad == \E i \in DOMAIN text : Unknown(text[i])
              stmts == Statements(text)
          IN cl' = [cl EXCEPT ![c] = IF bad \/ stmts = <<>>
                                     THEN [Idle EXCEPT !.answer = IF bad THEN 1 ELSE 0]
                                     ELSE [Idle EXCEPT !.pc = "sent", !.kind = "batch", !.stmts = stmts]]
    BY <1>2, Zenon DEF LivePatch
  <2>2. PICK stmts, a :
          \/ cl' = [cl EXCEPT ![c] = [Idle EXCEPT !.answer = a]]
          \/ cl' = [cl EXCEPT ![c] = [Idle EXCEPT !.pc = "sent", !.kind = "batch", !.stmts = stmts]]
    BY <2>1, Zenon
  <2> DEFINE q == [Idle EXCEPT !.answer = a]
             r == [Idle EXCEPT !.pc = "sent", !.kind = "batch", !.stmts = stmts]
  <2>3. Record(q) /\ q.pc = "idle" /\ Record(r) /\ r.pc = "sent"
    BY DEF Record, Idle, Fields
  <2>4. cl' = [cl EXCEPT ![c] = q] \/ cl' = [cl EXCEPT ![c] = r]
    BY <2>2
  <2> HIDE DEF q, r
  <2>5. Step(c, "idle") \/ Step(c, "sent")
    BY <2>3, <2>4, Stepped
  <2>6. cl[c].pc = "idle" /\ UNCHANGED <<store, mutex, rd, cache, raced>>
    BY <1>2, Zenon DEF LivePatch
  <2> QED  BY <2>5, <2>6
<1>3. CASE AskGrant(c)
  <2> DEFINE r == [Idle EXCEPT !.pc = "sent", !.kind = "grant"]
  <2>1. Record(r) /\ r.pc = "sent"
    BY DEF Record, Idle, Fields
  <2>2. cl' = [cl EXCEPT ![c] = r]
    BY <1>3 DEF AskGrant
  <2> HIDE DEF r
  <2>3. Step(c, "sent")
    BY <2>1, <2>2, Stepped
  <2>4. cl[c].pc = "idle" /\ UNCHANGED <<store, mutex, rd, cache, raced>>
    BY <1>3, Zenon DEF AskGrant
  <2> QED  BY <2>3, <2>4
<1>4. CASE AskRestore(c)
  <2> DEFINE r == [cl[c] EXCEPT !.pc = "sent", !.kind = "restore"]
  <2>1. Record(r) /\ r.pc = "sent"
    BY <1>1 DEF Record, Fields
  <2>2. cl' = [cl EXCEPT ![c] = r]
    BY <1>4 DEF AskRestore, Shape
  <2> HIDE DEF r
  <2>3. Step(c, "sent")
    BY <2>1, <2>2, Stepped
  <2>4. cl[c].pc = "idle" /\ UNCHANGED <<store, mutex, rd, cache, raced>>
    BY <1>4, Zenon DEF AskRestore
  <2> QED  BY <2>3, <2>4
<1>5. CASE Refuse(c)
  <2> DEFINE r == [Idle EXCEPT !.answer = 1]
  <2>1. Record(r) /\ r.pc = "idle"
    BY DEF Record, Idle, Fields
  <2>2. cl' = [cl EXCEPT ![c] = r]
    BY <1>5 DEF Refuse
  <2> HIDE DEF r
  <2>3. Step(c, "idle")
    BY <2>1, <2>2, Stepped
  <2>4. cl[c].pc = "sent" /\ UNCHANGED <<store, mutex, rd, cache, raced>>
    BY <1>5, Zenon DEF Refuse
  <2> QED  BY <2>3, <2>4
<1> QED  BY <1>2, <1>3, <1>4, <1>5

\* An edit that gives up leaves its client idle, with an error.
LEMMA GaveUpStep ==
  ASSUME Shape, NEW c \in Clients, GaveUp(c)
  PROVE  Step(c, "idle") /\ UNCHANGED raced
<1> DEFINE r == [Idle EXCEPT !.answer = 1]
<1>1. Record(r) /\ r.pc = "idle"
  BY DEF Record, Idle, Fields
<1>2. cl' = [cl EXCEPT ![c] = r] /\ UNCHANGED raced
  BY DEF GaveUp
<1> HIDE DEF r
<1> QED  BY <1>1, <1>2, Stepped

\* Begin: out of memory, or a private copy of the live policy, with the mutex.
LEMMA BeginStep ==
  ASSUME Shape, NEW c \in Clients, Begin(c)
  PROVE  /\ cl[c].pc = "sent" /\ mutex = None /\ UNCHANGED <<live, rd, cache, raced>>
         /\ \/ Step(c, "idle") /\ UNCHANGED <<mem, free, mutex>>
            \/ \E i \in free :
                 /\ Step(c, "edit") /\ cl'[c].old = live /\ cl'[c].new = i
                 /\ mem' = [mem EXCEPT ![i] = mem[live]] /\ free' = free \ {i} /\ mutex' = c
<1>1. Record(cl[c])
  BY DEF Shape
<1>2. /\ cl[c].pc = "sent" /\ mutex = None /\ UNCHANGED <<rd, cache>>
      /\ \/ cl' = [cl EXCEPT ![c] = Idle] /\ UNCHANGED <<store, mutex, history>>
         \/ \E i \in free :
               /\ mem' = [mem EXCEPT ![i] = mem[live]] /\ free' = free \ {i}
               /\ mutex' = c
               /\ cl' = [cl EXCEPT ![c].pc = "edit", ![c].stmts = Wanted(c),
                                   ![c].old = live, ![c].new = i]
               /\ UNCHANGED <<live, history>>
         \/ GaveUp(c) /\ UNCHANGED <<store, mutex>>
  BY Zenon DEF Begin
<1>3. CASE cl' = [cl EXCEPT ![c] = Idle] /\ UNCHANGED <<store, mutex, history>>
  <2>1. Record(Idle) /\ Idle.pc = "idle"
    BY DEF Record, Idle, Fields
  <2> QED  BY <1>2, <1>3, <2>1, Stepped
<1>4. ASSUME NEW i \in free,
             mem' = [mem EXCEPT ![i] = mem[live]], free' = free \ {i}, mutex' = c,
             cl' = [cl EXCEPT ![c].pc = "edit", ![c].stmts = Wanted(c),
                              ![c].old = live, ![c].new = i]
      PROVE  Step(c, "edit") /\ cl'[c].old = live /\ cl'[c].new = i
  <2> PICK w : w = Wanted(c)
    OBVIOUS
  <2> DEFINE r == [cl[c] EXCEPT !.pc = "edit", !.stmts = w, !.old = live, !.new = i]
  <2>1. Record(r) /\ r.pc = "edit" /\ r.old = live /\ r.new = i
    BY <1>1 DEF Record, Fields
  <2>2. cl' = [cl EXCEPT ![c] = r]
    BY <1>4 DEF Shape
  <2> HIDE DEF r
  <2> QED  BY <2>1, <2>2, Stepped
<1> QED  BY <1>2, <1>3, <1>4, GaveUpStep

\* Edit: only the private copy changes, and it is what will be published.
LEMMA EditStep ==
  ASSUME Shape, NEW c \in Clients, Edit(c)
  PROVE  /\ cl[c].pc = "edit" /\ UNCHANGED <<live, free, mutex, rd, cache, raced>>
         /\ Step(c, "publish") /\ cl'[c].old = cl[c].old /\ cl'[c].new = cl[c].new
         /\ cl'[c].stmts = cl[c].stmts
         /\ \E garbage \in Ranges :
               mem' = [mem EXCEPT ![cl[c].new] = Run(mem[cl[c].new], cl[c].stmts, garbage).pol]
<1>1. Record(cl[c])
  BY DEF Shape
<1>2. PICK garbage \in Ranges :
          LET r == Run(mem[cl[c].new], cl[c].stmts, garbage)
          IN /\ mem' = [mem EXCEPT ![cl[c].new] = r.pol]
             /\ cl' = [cl EXCEPT ![c].pc = "publish", ![c].count = r.count]
  BY Zenon DEF Edit
<1>3. cl[c].pc = "edit" /\ UNCHANGED <<live, free, mutex, rd, cache, raced>>
  BY Zenon DEF Edit
<1> PICK n : n = Run(mem[cl[c].new], cl[c].stmts, garbage).count
  OBVIOUS
<1> DEFINE r == [cl[c] EXCEPT !.pc = "publish", !.count = n]
<1>4. Record(r) /\ r.pc = "publish" /\ r.old = cl[c].old /\ r.new = cl[c].new /\ r.stmts = cl[c].stmts
  BY <1>1 DEF Record, Fields
<1>5. cl' = [cl EXCEPT ![c] = r]
  BY <1>2 DEF Shape
<1> HIDE DEF r
<1> QED  BY <1>2, <1>3, <1>4, <1>5, Stepped

\* Drop: the private copy is given back unread, and the mutex with it.
LEMMA DropStep ==
  ASSUME Shape, NEW c \in Clients, Drop(c)
  PROVE  /\ cl[c].pc = "edit" /\ UNCHANGED <<live, rd, cache, raced>>
         /\ Step(c, "idle") /\ mutex' = None
         /\ mem' = [mem EXCEPT ![cl[c].new] = Boot] /\ free' = free \cup {cl[c].new}
<1>1. /\ cl[c].pc = "edit" /\ UNCHANGED <<live, rd, cache>> /\ GaveUp(c) /\ mutex' = None
      /\ mem' = [mem EXCEPT ![cl[c].new] = Boot] /\ free' = free \cup {cl[c].new}
  BY Zenon DEF Drop
<1> QED  BY <1>1, GaveUpStep

\* Publish: the pointer moves to the copy; nothing is freed yet.
LEMMA PublishStep ==
  ASSUME Shape, NEW c \in Clients, Publish(c)
  PROVE  /\ cl[c].pc = "publish" /\ UNCHANGED <<mem, free, mutex, rd, cache, raced>>
         /\ Step(c, "sync") /\ cl'[c].old = cl[c].old /\ cl'[c].new = cl[c].new
         /\ live' = cl[c].new
<1>1. Record(cl[c])
  BY DEF Shape
<1>2. /\ cl[c].pc = "publish" /\ live' = cl[c].new /\ UNCHANGED <<mem, free, mutex, rd, cache, raced>>
  BY Zenon DEF Publish
<1>3. PICK g : cl' = [cl EXCEPT ![c].pc = "sync", ![c].given = g]
  BY Zenon DEF Publish
<1> DEFINE r == [cl[c] EXCEPT !.pc = "sync", !.given = g]
<1>4. Record(r) /\ r.pc = "sync" /\ r.old = cl[c].old /\ r.new = cl[c].new
  BY <1>1 DEF Record, Fields
<1>5. cl' = [cl EXCEPT ![c] = r]
  BY <1>3 DEF Shape
<1> HIDE DEF r
<1> QED  BY <1>2, <1>4, <1>5, Stepped

\* Synchronize: the old policy is freed when no reader holds it.
LEMMA SynchronizeStep ==
  ASSUME Shape, NEW c \in Clients, Synchronize(c)
  PROVE  /\ cl[c].pc = "sync" /\ UNCHANGED <<live, mutex, rd, cache, raced>>
         /\ \A r \in Readers : rd[r].holds # cl[c].old
         /\ Step(c, "flush") /\ mem' = [mem EXCEPT ![cl[c].old] = Boot]
         /\ free' = free \cup {cl[c].old}
<1>1. Record(cl[c])
  BY DEF Shape
<1>2. /\ cl[c].pc = "sync" /\ UNCHANGED <<live, mutex, rd, cache, raced>>
      /\ \A r \in Readers : rd[r].holds # cl[c].old
      /\ mem' = [mem EXCEPT ![cl[c].old] = Boot] /\ free' = free \cup {cl[c].old}
      /\ cl' = [cl EXCEPT ![c].pc = "flush"]
  BY Zenon DEF Synchronize
<1> DEFINE r == [cl[c] EXCEPT !.pc = "flush"]
<1>3. Record(r) /\ r.pc = "flush"
  BY <1>1 DEF Record, Fields
<1>4. cl' = [cl EXCEPT ![c] = r]
  BY <1>2 DEF Shape
<1> HIDE DEF r
<1>5. Step(c, "flush")
  BY <1>3, <1>4, Stepped
<1> QED  BY <1>2, <1>5

\* Flush: the cache is emptied and what is under way in it is late.
LEMMA FlushStep ==
  ASSUME Shape, NEW c \in Clients, Flush(c)
  PROVE  /\ cl[c].pc = "flush" /\ UNCHANGED store /\ Step(c, "idle") /\ mutex' = None
         /\ cache' = [q \in Queries |-> None] /\ raced' = {}
         /\ rd' \in [Readers -> Reader]
         /\ \A r \in Readers : /\ rd'[r].holds = rd[r].holds /\ rd'[r].asks = rd[r].asks
                               /\ rd'[r].got = rd[r].got /\ (rd'[r].got # None => rd'[r].late)
<1>1. Record(cl[c])
  BY DEF Shape
<1>2. /\ cl[c].pc = "flush" /\ UNCHANGED store /\ mutex' = None
      /\ cache' = [q \in Queries |-> None] /\ raced' = {}
      /\ rd' = [r \in Readers |-> [rd[r] EXCEPT !.late = rd[r].got # None]]
  BY Zenon DEF Flush
<1>3. PICK a, g : cl' = [cl EXCEPT ![c] = [Idle EXCEPT !.answer = a, !.given = g]]
  BY Zenon DEF Flush
<1> DEFINE r == [Idle EXCEPT !.answer = a, !.given = g]
<1>4. Record(r) /\ r.pc = "idle"
  BY DEF Record, Idle, Fields
<1>5. cl' = [cl EXCEPT ![c] = r]
  BY <1>3
<1> HIDE DEF r
<1>6. Step(c, "idle")
  BY <1>4, <1>5, Stepped
<1>7. ASSUME NEW x \in Readers
      PROVE  LET y == [rd[x] EXCEPT !.late = rd[x].got # None]
             IN  /\ y \in Reader /\ y.holds = rd[x].holds /\ y.asks = rd[x].asks
                 /\ y.got = rd[x].got /\ (y.got # None => y.late)
  <2>1. rd[x] \in Reader
    BY DEF Shape
  <2> PICK late \in BOOLEAN : late = (rd[x].got # None)
    OBVIOUS
  <2> DEFINE y == [rd[x] EXCEPT !.late = late]
  <2>2. /\ y \in Reader /\ y.holds = rd[x].holds /\ y.asks = rd[x].asks
        /\ y.got = rd[x].got /\ y.late = late
    BY <2>1 DEF Reader
  <2> HIDE DEF y
  <2>3. y.got # None => y.late
    BY <2>2
  <2> QED  BY <2>2, <2>3 DEF y
<1> QED  BY <1>2, <1>6, <1>7

\* What a step of a reader makes of it.
LEMMA ReaderSteps ==
  ASSUME Shape, NEW r \in Readers, Reading(r)
  PROVE  /\ UNCHANGED <<store, mutex, cl>>
         /\ rd' \in [Readers -> Reader] /\ \A x \in Readers : x # r => rd'[x] = rd[x]
         /\ \/ \E q \in Queries : /\ rd'[r].holds = live /\ rd'[r].asks = q /\ rd'[r].got = None
                                  /\ UNCHANGED <<cache, raced>>
            \/ /\ rd[r].holds # 0 /\ UNCHANGED <<cache, raced>>
               /\ rd'[r].holds = 0 /\ rd'[r].asks = rd[r].asks
               /\ rd'[r].got = IF Allowed(mem[rd[r].holds], rd[r].asks) THEN "yes" ELSE "no"
            \/ /\ rd[r].got # None /\ rd'[r].holds = 0 /\ rd'[r].got = None
               /\ cache' = [cache EXCEPT ![rd[r].asks] = rd[r].got]
               /\ raced' = IF rd[r].late THEN raced \cup {rd[r].asks} ELSE raced
<1>1. rd \in [Readers -> Reader] /\ rd[r] \in Reader /\ live \in Ids
  BY DEF Shape
<1>2. Away \in Reader /\ Away.holds = 0 /\ Away.got = None
  BY DEF Away, Reader
<1>3. ASSUME Look(r)
      PROVE  \E q \in Queries : /\ rd' = [rd EXCEPT ![r] = [Away EXCEPT !.holds = live, !.asks = q]]
                                /\ UNCHANGED <<store, mutex, cl, cache, raced>>
  BY <1>3, Zenon DEF Look
<1>4. ASSUME NEW q \in Queries
      PROVE  LET x == [Away EXCEPT !.holds = live, !.asks = q]
             IN  x \in Reader /\ x.holds = live /\ x.asks = q /\ x.got = None
  BY <1>1 DEF Away, Reader
<1>5. CASE Look(r)
  <2> PICK q \in Queries : /\ rd' = [rd EXCEPT ![r] = [Away EXCEPT !.holds = live, !.asks = q]]
                           /\ UNCHANGED <<store, mutex, cl, cache, raced>>
    BY <1>3, <1>5
  <2> DEFINE x == [Away EXCEPT !.holds = live, !.asks = q]
  <2>1. x \in Reader /\ x.holds = live /\ x.asks = q /\ x.got = None
    BY <1>4
  <2>2. rd' = [rd EXCEPT ![r] = x]
    OBVIOUS
  <2> HIDE DEF x
  <2> QED  BY <1>1, <2>1, <2>2
<1>6. CASE Decide(r)
  <2>1. /\ rd[r].holds # 0 /\ UNCHANGED <<store, mutex, cl, cache, raced>>
        /\ rd' = [rd EXCEPT ![r].holds = 0, ![r].late = FALSE,
                        ![r].got = IF Allowed(mem[rd[r].holds], rd[r].asks) THEN "yes" ELSE "no"]
    BY <1>6, Zenon DEF Decide
  <2> PICK a \in {"yes", "no"} : a = IF Allowed(mem[rd[r].holds], rd[r].asks) THEN "yes" ELSE "no"
    OBVIOUS
  <2> DEFINE x == [rd[r] EXCEPT !.holds = 0, !.late = FALSE, !.got = a]
  <2>2. x \in Reader /\ x.holds = 0 /\ x.asks = rd[r].asks /\ x.got = a
    BY <1>1 DEF Reader
  <2>3. rd' = [rd EXCEPT ![r] = x]
    BY <1>1, <2>1
  <2> HIDE DEF x
  <2>4. rd' \in [Readers -> Reader] /\ rd'[r] = x /\ \A y \in Readers : y # r => rd'[y] = rd[y]
    BY <1>1, <2>2, <2>3
  <2>5. UNCHANGED <<store, mutex, cl, cache, raced>> /\ rd[r].holds # 0
    BY <2>1, Zenon
  <2>6. /\ rd'[r].holds = 0 /\ rd'[r].asks = rd[r].asks
        /\ rd'[r].got = IF Allowed(mem[rd[r].holds], rd[r].asks) THEN "yes" ELSE "no"
    BY <2>2, <2>4
  <2> QED  BY <2>4, <2>5, <2>6, Zenon
<1>7. CASE Insert(r)
  <2>1. /\ rd[r].got # None /\ rd' = [rd EXCEPT ![r] = Away] /\ UNCHANGED <<store, mutex, cl>>
        /\ cache' = [cache EXCEPT ![rd[r].asks] = rd[r].got]
        /\ raced' = IF rd[r].late THEN raced \cup {rd[r].asks} ELSE raced
    BY <1>7, Zenon DEF Insert
  <2> QED  BY <1>1, <1>2, <2>1
<1> QED  BY <1>5, <1>6, <1>7 DEF Reading

-----------------------------------------------------------------------------
(* Every step keeps the invariant.                                          *)

\* Requests, and writers that gave up before the mutex, change nothing that the
\* others depend on.
LEMMA RequestsInv ==
  ASSUME IInv, NEW c \in Clients, LivePatch(c) \/ AskGrant(c) \/ AskRestore(c) \/ Refuse(c)
  PROVE  IInv'
<1>1. /\ Shape /\ cl[c].pc \in {"idle", "sent"} /\ (Step(c, "idle") \/ Step(c, "sent"))
      /\ mem' = mem /\ live' = live /\ free' = free /\ mutex' = mutex /\ rd' = rd
      /\ cache' = cache /\ raced' = raced
  BY Requests DEF IInv
<1>2. cl'[c].pc \in {"idle", "sent"} /\ \A d \in Clients \ {c} : cl'[d] = cl[d]
  BY <1>1 DEF Step
<1>3. Shape'
  BY <1>1 DEF Shape, Step
<1>4. MutexInv'
  BY <1>1, <1>2 DEF IInv, MutexInv
<1>5. StoreInv'
  BY <1>1, <1>2 DEF IInv, StoreInv
<1>6. ReaderInv'
  BY <1>1, <1>2 DEF IInv, ReaderInv
<1>7. CacheInv'
  <2>1. Switching' <=> Switching
    BY <1>1, <1>2 DEF Switching
  <2> QED  BY <1>1, <2>1, Zenon DEF IInv, CacheInv
<1> QED  BY <1>3, <1>4, <1>5, <1>6, <1>7 DEF IInv

\* A copy is made of the policy in force, in an allocation nobody uses.
LEMMA BeginInv ==
  ASSUME IInv, NEW c \in Clients, Begin(c)
  PROVE  IInv'
<1>1. /\ Shape /\ cl[c].pc = "sent" /\ mutex = None
      /\ live' = live /\ rd' = rd /\ cache' = cache /\ raced' = raced
      /\ \/ Step(c, "idle") /\ mem' = mem /\ free' = free /\ mutex' = mutex
         \/ \E i \in free :
              /\ Step(c, "edit") /\ cl'[c].old = live /\ cl'[c].new = i
              /\ mem' = [mem EXCEPT ![i] = mem[live]] /\ free' = free \ {i} /\ mutex' = c
  BY BeginStep DEF IInv
<1>2. \A d \in Clients : d # c => cl'[d] = cl[d] /\ cl[d].pc \notin {"edit", "publish", "sync", "flush"}
  BY <1>1, ClientsAssumption DEF IInv, MutexInv, Step
<1>3. cl'[c].pc \in {"idle", "edit"}
  BY <1>1 DEF Step
<1>4. mem'[live] = mem[live]
  BY <1>1 DEF IInv, StoreInv, Shape
<1>5. Shape'
  BY <1>1 DEF Shape, Step
<1>6. MutexInv'
  BY <1>1, <1>2, ClientsAssumption DEF IInv, MutexInv, Step
<1>7. StoreInv'
  <2>1. live' \notin free'
    BY <1>1 DEF IInv, StoreInv
  <2>2. ASSUME NEW d \in Clients
        PROVE  cl'[d].pc \notin {"publish", "sync"} /\ (cl'[d].pc = "edit" => d = c)
    BY <1>2, <1>3
  <2>3. cl'[c].pc = "edit" => /\ cl'[c].old = live' /\ cl'[c].new \in Ids \ free' /\ cl'[c].new # live'
                              /\ mem'[cl'[c].new] = mem'[live']
    <3>1. CASE Step(c, "idle")
      BY <3>1 DEF Step
    <3>2. ASSUME NEW i \in free, cl'[c].old = live, cl'[c].new = i,
                 mem' = [mem EXCEPT ![i] = mem[live]], free' = free \ {i}
          PROVE  /\ cl'[c].old = live' /\ cl'[c].new \in Ids \ free' /\ cl'[c].new # live'
                 /\ mem'[cl'[c].new] = mem'[live']
      BY <1>1, <1>4, <3>2 DEF IInv, StoreInv, Shape
    <3> QED  BY <1>1, <3>1, <3>2
  <2> QED  BY <2>1, <2>2, <2>3 DEF StoreInv
<1>8. ReaderInv'
  <2>1. \A d \in Clients : cl'[d].pc = "sync" <=> cl[d].pc = "sync"
    BY <1>1, <1>2, <1>3
  <2> QED  BY <1>1, <1>2, <1>3, <2>1 DEF IInv, ReaderInv
<1>9. CacheInv'
  <2>1. Switching' <=> Switching
    BY <1>1, <1>2, <1>3 DEF Switching
  <2> QED  BY <1>1, <1>4, <2>1, Zenon DEF IInv, CacheInv
<1> QED  BY <1>5, <1>6, <1>7, <1>8, <1>9 DEF IInv

\* The statements change the copy alone.
LEMMA EditInv ==
  ASSUME IInv, NEW c \in Clients, Edit(c)
  PROVE  IInv'
<1>1. /\ Shape /\ cl[c].pc = "edit" /\ Step(c, "publish")
      /\ cl'[c].old = cl[c].old /\ cl'[c].new = cl[c].new /\ cl'[c].stmts = cl[c].stmts
      /\ live' = live /\ free' = free /\ mutex' = mutex /\ rd' = rd /\ cache' = cache /\ raced' = raced
  BY EditStep DEF IInv
<1>2. PICK garbage \in Ranges :
         mem' = [mem EXCEPT ![cl[c].new] = Run(mem[cl[c].new], cl[c].stmts, garbage).pol]
  BY EditStep DEF IInv
<1> PICK res : res = Run(mem[cl[c].new], cl[c].stmts, garbage).pol
  OBVIOUS
<1>3. \A d \in Clients : d # c => cl'[d] = cl[d] /\ cl[d].pc \notin {"edit", "publish", "sync", "flush"}
  BY <1>1 DEF IInv, MutexInv, Step
<1>4. cl'[c].pc = "publish"
  BY <1>1 DEF Step
<1>5. /\ cl[c].old = live /\ cl[c].new \in Ids \ free /\ cl[c].new # live
      /\ mem[cl[c].new] = mem[live] /\ live \notin free
  BY <1>1 DEF IInv, StoreInv
<1>6. mem'[live] = mem[live] /\ mem'[cl[c].new] = res /\ mem' = [i \in Ids |-> mem'[i]]
  BY <1>1, <1>2, <1>5 DEF Shape
<1>7. Shape'
  BY <1>1, <1>6 DEF Shape, Step
<1>8. MutexInv'
  BY <1>1, <1>3, <1>4 DEF IInv, MutexInv
<1>9. StoreInv'
  <2>1. mem'[cl'[c].new] = Run(mem'[live'], cl'[c].stmts, garbage).pol
    BY <1>1, <1>5, <1>6
  <2>2. \A d \in Clients : cl'[d].pc \notin {"edit", "sync"} /\ (cl'[d].pc = "publish" => d = c)
    BY <1>3, <1>4
  <2>3. cl'[c].old = live' /\ cl'[c].new \in Ids \ free' /\ cl'[c].new # live' /\ live' \notin free'
    BY <1>1, <1>5
  <2> QED  BY <2>1, <2>2, <2>3 DEF StoreInv
<1>10. ReaderInv'
  BY <1>1, <1>3, <1>4 DEF IInv, ReaderInv
<1>11. CacheInv'
  <2>1. Switching' <=> Switching
    BY <1>1, <1>3, <1>4 DEF Switching
  <2> QED  BY <1>1, <1>6, <2>1, Zenon DEF IInv, CacheInv
<1> QED  BY <1>7, <1>8, <1>9, <1>10, <1>11 DEF IInv

\* A copy that is dropped was nobody's policy.
LEMMA DropInv ==
  ASSUME IInv, NEW c \in Clients, Drop(c)
  PROVE  IInv'
<1>1. /\ Shape /\ cl[c].pc = "edit" /\ Step(c, "idle") /\ mutex' = None
      /\ mem' = [mem EXCEPT ![cl[c].new] = Boot] /\ free' = free \cup {cl[c].new}
      /\ live' = live /\ rd' = rd /\ cache' = cache /\ raced' = raced
  BY DropStep DEF IInv
<1>2. \A d \in Clients : d # c => cl'[d] = cl[d] /\ cl[d].pc \notin {"edit", "publish", "sync", "flush"}
  BY <1>1 DEF IInv, MutexInv, Step
<1>3. cl'[c].pc = "idle"
  BY <1>1 DEF Step
<1>4. cl[c].new \in Ids /\ cl[c].new # live /\ live \notin free
  BY <1>1 DEF IInv, StoreInv
<1>5. mem'[live] = mem[live] /\ mem' = [i \in Ids |-> mem'[i]]
  BY <1>1, <1>4 DEF Shape
<1>6. Shape'
  BY <1>1, <1>4, <1>5 DEF Shape, Step
<1>7. MutexInv'
  BY <1>1, <1>2, <1>3, ClientsAssumption DEF IInv, MutexInv
<1>8. StoreInv'
  BY <1>1, <1>2, <1>3, <1>4 DEF StoreInv
<1>9. ReaderInv'
  BY <1>1, <1>2, <1>3 DEF IInv, ReaderInv
<1>10. CacheInv'
  <2>1. Switching' <=> Switching
    BY <1>1, <1>2, <1>3 DEF Switching
  <2> QED  BY <1>1, <1>5, <2>1, Zenon DEF IInv, CacheInv
<1> QED  BY <1>6, <1>7, <1>8, <1>9, <1>10 DEF IInv

\* Readers that have the old policy are those the writer is going to wait for.
LEMMA PublishInv ==
  ASSUME IInv, NEW c \in Clients, Publish(c)
  PROVE  IInv'
<1>1. /\ Shape /\ cl[c].pc = "publish" /\ Step(c, "sync") /\ live' = cl[c].new
      /\ cl'[c].old = cl[c].old /\ cl'[c].new = cl[c].new
      /\ mem' = mem /\ free' = free /\ mutex' = mutex /\ rd' = rd /\ cache' = cache /\ raced' = raced
  BY PublishStep DEF IInv
<1>2. \A d \in Clients : d # c => cl'[d] = cl[d] /\ cl[d].pc \notin {"edit", "publish", "sync", "flush"}
  BY <1>1 DEF IInv, MutexInv, Step
<1>3. cl'[c].pc = "sync"
  BY <1>1 DEF Step
<1>4. cl[c].old = live /\ cl[c].new \in Ids \ free /\ cl[c].new # live /\ live \in Ids \ free
  BY <1>1 DEF IInv, StoreInv, Shape
<1>5. Shape'
  BY <1>1, <1>4 DEF Shape, Step
<1>6. MutexInv'
  BY <1>1, <1>2, <1>3 DEF IInv, MutexInv
<1>7. StoreInv'
  BY <1>1, <1>2, <1>3, <1>4 DEF StoreInv
<1>8. ReaderInv'
  BY <1>1, <1>2, <1>3, <1>4 DEF IInv, ReaderInv
<1>9. CacheInv'
  BY <1>3 DEF CacheInv, Switching
<1> QED  BY <1>5, <1>6, <1>7, <1>8, <1>9 DEF IInv

\* The old policy goes when no reader has it.
LEMMA SynchronizeInv ==
  ASSUME IInv, NEW c \in Clients, Synchronize(c)
  PROVE  IInv'
<1>1. /\ Shape /\ cl[c].pc = "sync" /\ Step(c, "flush")
      /\ \A r \in Readers : rd[r].holds # cl[c].old
      /\ mem' = [mem EXCEPT ![cl[c].old] = Boot] /\ free' = free \cup {cl[c].old}
      /\ live' = live /\ mutex' = mutex /\ rd' = rd /\ cache' = cache /\ raced' = raced
  BY SynchronizeStep DEF IInv
<1>2. \A d \in Clients : d # c => cl'[d] = cl[d] /\ cl[d].pc \notin {"edit", "publish", "sync", "flush"}
  BY <1>1 DEF IInv, MutexInv, Step
<1>3. cl'[c].pc = "flush"
  BY <1>1 DEF Step
<1>4. cl[c].old \in Ids /\ cl[c].old # live /\ live \notin free
  BY <1>1 DEF IInv, StoreInv
<1>5. mem' = [i \in Ids |-> mem'[i]]
  BY <1>1, <1>4 DEF Shape
<1>6. Shape'
  BY <1>1, <1>4, <1>5 DEF Shape, Step
<1>7. MutexInv'
  BY <1>1, <1>2, <1>3 DEF IInv, MutexInv
<1>8. StoreInv'
  BY <1>1, <1>2, <1>3, <1>4 DEF StoreInv
<1>9. ReaderInv'
  BY <1>1, <1>2 DEF IInv, ReaderInv
<1>10. CacheInv'
  BY <1>3 DEF CacheInv, Switching
<1> QED  BY <1>6, <1>7, <1>8, <1>9, <1>10 DEF IInv

\* After the flush no answer is kept, and those under way count as late.
LEMMA FlushInv ==
  ASSUME IInv, NEW c \in Clients, Flush(c)
  PROVE  IInv'
<1>1. /\ Shape /\ cl[c].pc = "flush" /\ Step(c, "idle") /\ mutex' = None
      /\ mem' = mem /\ live' = live /\ free' = free
      /\ cache' = [q \in Queries |-> None] /\ raced' = {}
      /\ rd' \in [Readers -> Reader]
      /\ \A r \in Readers : /\ rd'[r].holds = rd[r].holds /\ rd'[r].asks = rd[r].asks
                            /\ rd'[r].got = rd[r].got /\ (rd'[r].got # None => rd'[r].late)
  BY FlushStep DEF IInv
<1>2. \A d \in Clients : d # c => cl'[d] = cl[d] /\ cl[d].pc \notin {"edit", "publish", "sync", "flush"}
  BY <1>1 DEF IInv, MutexInv, Step
<1>3. cl'[c].pc = "idle"
  BY <1>1 DEF Step
<1>4. cache' \in [Queries -> {None, "yes", "no"}] /\ \A q \in Queries : cache'[q] = None
  BY <1>1
<1>5. Shape'
  BY <1>1, <1>4 DEF Shape, Step
<1>6. MutexInv'
  BY <1>1, <1>2, <1>3, ClientsAssumption DEF IInv, MutexInv
<1>7. StoreInv'
  BY <1>1, <1>2, <1>3 DEF IInv, StoreInv
<1>8. ReaderInv'
  BY <1>1, <1>2, <1>3 DEF IInv, ReaderInv
<1>9. CacheInv'
  BY <1>1, <1>4 DEF CacheInv
<1> QED  BY <1>5, <1>6, <1>7, <1>8, <1>9 DEF IInv

\* A reader takes the policy in force, and what it computes from it agrees with
\* it as long as it stays in force.
LEMMA ReadingInv ==
  ASSUME IInv, NEW r \in Readers, Reading(r)
  PROVE  IInv'
<1>1. /\ Shape /\ mem' = mem /\ live' = live /\ free' = free /\ mutex' = mutex /\ cl' = cl
      /\ rd' \in [Readers -> Reader] /\ \A x \in Readers : x # r => rd'[x] = rd[x]
  BY ReaderSteps DEF IInv
<1>2. \/ \E q \in Queries : /\ rd'[r].holds = live /\ rd'[r].asks = q /\ rd'[r].got = None
                            /\ UNCHANGED <<cache, raced>>
      \/ /\ rd[r].holds # 0 /\ UNCHANGED <<cache, raced>>
         /\ rd'[r].holds = 0 /\ rd'[r].asks = rd[r].asks
         /\ rd'[r].got = IF Allowed(mem[rd[r].holds], rd[r].asks) THEN "yes" ELSE "no"
      \/ /\ rd[r].got # None /\ rd'[r].holds = 0 /\ rd'[r].got = None
         /\ cache' = [cache EXCEPT ![rd[r].asks] = rd[r].got]
         /\ raced' = IF rd[r].late THEN raced \cup {rd[r].asks} ELSE raced
  BY ReaderSteps DEF IInv
<1>3. rd[r].holds # 0 \/ rd[r].got # None => rd[r].asks \in Queries
  BY <1>1 DEF Shape
<1>4. rd[r] \in Reader /\ rd[r].got \in {None, "yes", "no"}
  BY <1>1 DEF Shape, Reader
<1>5. Shape'
  <2>1. cache' \in [Queries -> {None, "yes", "no"}]
    BY <1>1, <1>2, <1>4 DEF Shape
  <2>2. \A x \in Readers : rd'[x].holds # 0 \/ rd'[x].got # None => rd'[x].asks \in Queries
    BY <1>1, <1>2, <1>3 DEF Shape
  <2> QED  BY <1>1, <2>1, <2>2 DEF Shape
<1>6. MutexInv' /\ StoreInv'
  BY <1>1 DEF IInv, MutexInv, StoreInv
<1>7. ReaderInv'
  BY <1>1, <1>2 DEF IInv, ReaderInv
<1>8. CacheInv'
  <2>1. SUFFICES ASSUME ~Switching
                 PROVE  /\ \A q \in Queries \ raced' :
                             cache'[q] # None => (cache'[q] = "yes" <=> Allowed(mem[live], q))
                        /\ \A x \in Readers : rd'[x].got # None /\ ~rd'[x].late
                             => (rd'[x].got = "yes" <=> Allowed(mem[live], rd'[x].asks))
    BY <1>1 DEF CacheInv, Switching
  <2>2. /\ \A q \in Queries \ raced : cache[q] # None => (cache[q] = "yes" <=> Allowed(mem[live], q))
        /\ \A x \in Readers : rd[x].got # None /\ ~rd[x].late
             => (rd[x].got = "yes" <=> Allowed(mem[live], rd[x].asks))
    BY <2>1 DEF IInv, CacheInv
  <2>3. rd[r].holds \in {0, live}
    BY <2>1 DEF IInv, ReaderInv, Switching
  <2>4. CASE \E q \in Queries : rd'[r].got = None /\ UNCHANGED <<cache, raced>>
    BY <1>1, <2>2, <2>4
  <2>5. CASE /\ rd[r].holds # 0 /\ UNCHANGED <<cache, raced>> /\ rd'[r].asks = rd[r].asks
             /\ rd'[r].got = IF Allowed(mem[rd[r].holds], rd[r].asks) THEN "yes" ELSE "no"
    BY <1>1, <2>2, <2>3, <2>5
  <2>6. CASE /\ rd[r].got # None /\ rd'[r].got = None
             /\ cache' = [cache EXCEPT ![rd[r].asks] = rd[r].got]
             /\ raced' = IF rd[r].late THEN raced \cup {rd[r].asks} ELSE raced
    <3>1. rd[r].asks \in Queries /\ cache \in [Queries -> {None, "yes", "no"}]
      BY <1>1, <1>3, <2>6 DEF Shape
    <3>2. ASSUME NEW q \in Queries \ raced', cache'[q] # None
          PROVE  cache'[q] = "yes" <=> Allowed(mem[live], q)
      BY <2>2, <2>6, <3>1, <3>2
    <3> QED  BY <1>1, <2>2, <2>6, <3>2
  <2> QED  BY <1>2, <2>4, <2>5, <2>6
<1> QED  BY <1>5, <1>6, <1>7, <1>8 DEF IInv

\* The invariant holds at the start ...
LEMMA InitOK == Init => IInv
<1> SUFFICES ASSUME Init PROVE IInv
  OBVIOUS
<1>1. /\ mem = [i \in Ids |-> Boot] /\ live = 1 /\ free = Ids \ {1} /\ mutex = None
      /\ cl = [c \in Clients |-> Idle] /\ rd = [r \in Readers |-> Away]
      /\ cache = [q \in Queries |-> None] /\ raced = {}
  BY Zenon DEF Init
<1>2. Record(Idle) /\ Idle.pc = "idle"
  BY DEF Record, Idle, Fields
<1>3. Away \in Reader /\ Away.holds = 0 /\ Away.got = None
  BY DEF Away, Reader
<1>4. Shape
  BY <1>1, <1>2, <1>3 DEF Shape, Ids
<1>5. MutexInv /\ StoreInv /\ ReaderInv
  BY <1>1, <1>2, <1>3, ClientsAssumption DEF MutexInv, StoreInv, ReaderInv
<1>6. CacheInv
  BY <1>1, <1>3 DEF CacheInv
<1> QED  BY <1>4, <1>5, <1>6 DEF IInv

\* ... and every step keeps it.
LEMMA InvStep == IInv /\ [Next]_vars => IInv'
<1> SUFFICES ASSUME IInv, [Next]_vars PROVE IInv'
  OBVIOUS
<1>1. ASSUME NEW c \in Daemons, LivePatch(c)
      PROVE  IInv'
  BY <1>1, RequestsInv DEF Clients
<1>2. ASSUME NEW c \in Targets, AskGrant(c) \/ AskRestore(c)
      PROVE  IInv'
  BY <1>2, RequestsInv DEF Clients
<1>3. ASSUME NEW c \in Clients, Writing(c)
      PROVE  IInv'
  BY <1>3, RequestsInv, BeginInv, EditInv, DropInv, PublishInv, SynchronizeInv, FlushInv DEF Writing
<1>4. ASSUME NEW r \in Readers, Reading(r)
      PROVE  IInv'
  BY <1>4, ReadingInv
<1>5. CASE UNCHANGED vars
  <2>1. /\ mem' = mem /\ live' = live /\ free' = free /\ mutex' = mutex /\ cl' = cl /\ rd' = rd
        /\ cache' = cache /\ raced' = raced
    BY <1>5, Zenon DEF vars
  <2> QED  BY <2>1, Zenon DEF IInv, Shape, MutexInv, StoreInv, ReaderInv, CacheInv, Switching
<1> QED  BY <1>1, <1>2, <1>3, <1>4, <1>5 DEF Next

-----------------------------------------------------------------------------
(* What a batch makes of a policy.                                          *)

\* Every set of numbers that has any has a least one.
LEMMA LeastNumber ==
  ASSUME NEW T \in SUBSET Nat, T # {}
  PROVE  \E x \in T : \A y \in T : x <= y
<1>1. PICK R : R = OpToRel(<, Nat)
  OBVIOUS
<1>2. IsWellFoundedOn(R, Nat)
  BY <1>1, NatLessThanWellFounded
<1>3. PICK x \in T : \A y \in T : <<y, x>> \notin R
  BY <1>2, WFMin
<1>4. R = {pair \in Nat \X Nat : pair[1] < pair[2]}
  BY <1>1 DEF OpToRel
<1>5. ASSUME NEW y \in T, y < x  PROVE FALSE
  <2>1. <<y, x>> \in Nat \X Nat /\ <<y, x>>[1] < <<y, x>>[2]
    BY <1>5
  <2> QED  BY <1>3, <1>4, <2>1
<1> QED  BY <1>5

\* Induction, over the set of the numbers that something holds of.
LEMMA NumbersByInduction ==
  ASSUME NEW P \in SUBSET Nat, 0 \in P, \A n \in P : n + 1 \in P
  PROVE  P = Nat
<1> SUFFICES ASSUME Nat \ P # {}  PROVE FALSE
  OBVIOUS
<1>1. PICK x \in Nat \ P : \A y \in Nat \ P : x <= y
  BY LeastNumber
<1>2. x # 0
  BY <1>1
<1>3. x - 1 \in P
  BY <1>1, <1>2
<1>4. (x - 1) + 1 = x
  BY <1>1
<1> QED  BY <1>1, <1>3, <1>4

Start(pol) == [pol |-> pol, count |-> 0]

\* The function that the loop of handle_sepolicy fills, over the first n
\* statements.
IsRun(f, pol, stmts, garbage, n) ==
    f = [i \in 0..n |-> IF i = 0 THEN Start(pol) ELSE Turn(f[i - 1], stmts[i], garbage)]

\* There is one.
LEMMA RunExists ==
  ASSUME NEW pol, NEW stmts, NEW garbage, NEW N \in Nat
  PROVE  \E f : IsRun(f, pol, stmts, garbage, N)
<1> DEFINE P == {n \in Nat : \E f : IsRun(f, pol, stmts, garbage, n)}
<1>1. 0 \in P
  <2>1. PICK f : f = [i \in 0..0 |-> Start(pol)]
    OBVIOUS
  <2>2. \A i \in 0..0 : i = 0
    OBVIOUS
  <2>3. IsRun(f, pol, stmts, garbage, 0)
    BY <2>1, <2>2 DEF IsRun
  <2> QED  BY <2>3
<1>2. ASSUME NEW n \in P  PROVE n + 1 \in P
  <2>1. PICK f : IsRun(f, pol, stmts, garbage, n)
    OBVIOUS
  <2>2. PICK last : last = Turn(f[n], stmts[n + 1], garbage)
    OBVIOUS
  <2>3. PICK g : g = [i \in 0..n + 1 |-> IF i = n + 1 THEN last ELSE f[i]]
    OBVIOUS
  <2>4. g[n + 1] = last /\ \A i \in 0..n : g[i] = f[i]
    BY <2>3
  <2>5. ASSUME NEW i \in 0..n + 1
        PROVE  g[i] = IF i = 0 THEN Start(pol) ELSE Turn(g[i - 1], stmts[i], garbage)
    <3>1. CASE i = n + 1
      <4>1. i - 1 = n /\ n \in 0..n /\ i # 0  BY <3>1
      <4> QED  BY <2>2, <2>4, <3>1, <4>1
    <3>2. CASE i \in 0..n
      <4>1. f[i] = IF i = 0 THEN Start(pol) ELSE Turn(f[i - 1], stmts[i], garbage)
        BY <2>1, <3>2 DEF IsRun
      <4>2. CASE i = 0
        BY <2>4, <3>2, <4>1, <4>2
      <4>3. CASE i # 0
        <5>1. i - 1 \in 0..n  BY <3>2, <4>3
        <5>2. g[i - 1] = f[i - 1] /\ g[i] = f[i]  BY <2>4, <3>2, <5>1
        <5> QED  BY <4>1, <4>3, <5>2
      <4> QED  BY <4>2, <4>3
    <3> QED  BY <3>1, <3>2
  <2>6. IsRun(g, pol, stmts, garbage, n + 1)
    BY <2>3, <2>5 DEF IsRun
  <2> QED  BY <2>6
<1> HIDE DEF P
<1>3. P = Nat
  <2>1. P \in SUBSET Nat  BY DEF P
  <2> QED  BY <1>1, <1>2, <2>1, NumbersByInduction
<1> QED  BY <1>3 DEF P

\* A batch is its turns, one after another.
Turns(f, pol, stmts, garbage) ==
  /\ f[0] = Start(pol)
  /\ \A i \in 1..Len(stmts) : f[i] = Turn(f[i - 1], stmts[i], garbage)
  /\ Run(pol, stmts, garbage) = f[Len(stmts)]

\* Every batch is.
LEMMA RunTurns ==
  ASSUME NEW pol, NEW stmts, NEW garbage, Len(stmts) \in Nat
  PROVE  Turns(After(pol, stmts, garbage), pol, stmts, garbage)
<1> DEFINE n == Len(stmts)
           f == CHOOSE f : f = [i \in 0..n |-> IF i = 0 THEN Start(pol)
                                               ELSE Turn(f[i - 1], stmts[i], garbage)]
<1>1. f = [i \in 0..n |-> IF i = 0 THEN Start(pol) ELSE Turn(f[i - 1], stmts[i], garbage)]
  BY RunExists DEF IsRun
<1>2. After(pol, stmts, garbage) = f
  BY DEF After, Start
<1> HIDE DEF f
<1>3. f[0] = Start(pol) /\ \A i \in 1..n : f[i] = Turn(f[i - 1], stmts[i], garbage)
  BY <1>1
<1>4. Run(pol, stmts, garbage) = f[n]
  BY <1>2 DEF Run
<1> QED  BY <1>2, <1>3, <1>4 DEF Turns

\* Two policies that differ in the access rules alone, as far as names go: the
\* first may have some of L besides.
Twin(p, q, L) ==
  /\ IsPolicy(p) /\ IsPolicy(q) /\ p.names = q.names /\ p.attrs = q.attrs
  /\ q.allow \subseteq p.allow /\ p.allow \subseteq q.allow \cup L

\* A statement that has nothing to do with the access rules.
Spares(p, q) ==
  /\ IsPolicy(q) /\ q.names = p.names /\ q.attrs = p.attrs /\ q.allow = p.allow

\* Setting another part of a policy is sparing ...
LEMMA Sparing ==
  ASSUME NEW pol, IsPolicy(pol), NEW X
  PROVE  /\ Spares(pol, [pol EXCEPT !.has = X])
         /\ Spares(pol, [pol EXCEPT !.audit = X])
         /\ Spares(pol, [pol EXCEPT !.noaudit = X])
         /\ Spares(pol, [pol EXCEPT !.xperm = X])
         /\ Spares(pol, [pol EXCEPT !.permissive = X])
         /\ Spares(pol, [pol EXCEPT !.trans = X])
         /\ Spares(pol, [pol EXCEPT !.named = X])
BY DEF Spares, IsPolicy, Parts

\* ... and so is doing nothing.
LEMMA SparesItself ==
  ASSUME NEW pol, IsPolicy(pol)
  PROVE  Spares(pol, pol)
BY DEF Spares

\* The two outcomes of a statement.
LEMMA Results ==
  /\ \A pol : Fail(pol).pol = pol /\ Fail(pol).ok = FALSE
  /\ \A pol : Done(pol).pol = pol /\ Done(pol).ok = TRUE
BY DEF Fail, Done

\* add_xperm_rule spares the access rules ...
LEMMA XpermSpares ==
  ASSUME NEW pol, IsPolicy(pol), NEW st, NEW garbage
  PROVE  Spares(pol, AddXperm(pol, st, garbage).pol)
<1>1. PICK X : \/ AddXperm(pol, st, garbage) = Fail(pol)
               \/ AddXperm(pol, st, garbage) = Done([pol EXCEPT !.xperm = X])
  BY Zenon DEF AddXperm
<1>2. Spares(pol, [pol EXCEPT !.xperm = X]) /\ Spares(pol, pol)
  BY Sparing, SparesItself
<1> QED  BY <1>1, <1>2, Results

\* ... and so does add_type_rule ...
LEMMA TypeRuleSpares ==
  ASSUME NEW pol, IsPolicy(pol), NEW st
  PROVE  Spares(pol, AddTypeRule(pol, st).pol)
<1>1. PICK X : \/ AddTypeRule(pol, st) = Fail(pol)
               \/ AddTypeRule(pol, st) = Done([pol EXCEPT !.trans = X])
  BY Zenon DEF AddTypeRule
<1>2. Spares(pol, [pol EXCEPT !.trans = X]) /\ Spares(pol, pol)
  BY Sparing, SparesItself
<1> QED  BY <1>1, <1>2, Results

\* ... add_filename_trans ...
LEMMA FilenameTransSpares ==
  ASSUME NEW pol, IsPolicy(pol), NEW st
  PROVE  Spares(pol, AddFilenameTrans(pol, st).pol)
<1>1. PICK X : \/ AddFilenameTrans(pol, st) = Fail(pol)
               \/ AddFilenameTrans(pol, st) = Done([pol EXCEPT !.named = X])
  BY Zenon DEF AddFilenameTrans
<1>2. Spares(pol, [pol EXCEPT !.named = X]) /\ Spares(pol, pol)
  BY Sparing, SparesItself
<1> QED  BY <1>1, <1>2, Results

\* ... add_typeattribute ...
LEMMA TypeAttributeSpares ==
  ASSUME NEW pol, IsPolicy(pol), NEW st
  PROVE  Spares(pol, AddTypeAttribute(pol, st).pol)
<1>1. PICK X : \/ AddTypeAttribute(pol, st) = Fail(pol)
               \/ AddTypeAttribute(pol, st) = Done([pol EXCEPT !.has = X])
  BY Zenon DEF AddTypeAttribute
<1>2. Spares(pol, [pol EXCEPT !.has = X]) /\ Spares(pol, pol)
  BY Sparing, SparesItself
<1> QED  BY <1>1, <1>2, Results

\* ... and set_type_state.
LEMMA TypeStateSpares ==
  ASSUME NEW pol, IsPolicy(pol), NEW st
  PROVE  Spares(pol, SetTypeState(pol, st).pol)
<1>1. PICK X : \/ SetTypeState(pol, st) = Fail(pol)
               \/ SetTypeState(pol, st) = Done([pol EXCEPT !.permissive = X])
  BY Zenon DEF SetTypeState
<1>2. Spares(pol, [pol EXCEPT !.permissive = X]) /\ Spares(pol, pol)
  BY Sparing, SparesItself
<1> QED  BY <1>1, <1>2, Results

\* What a statement speaks of depends on the names alone.
LEMMA SameTuples ==
  ASSUME NEW p, NEW q, p.names = q.names, p.attrs = q.attrs, NEW st
  PROVE  /\ Tuples(p, st, FALSE) = Tuples(q, st, FALSE)
         /\ Tuples(p, st, TRUE) = Tuples(q, st, TRUE)
         /\ Found(p, st) <=> Found(q, st)
<1>1. Keys(p, st, FALSE) = Keys(q, st, FALSE) /\ Keys(p, st, TRUE) = Keys(q, st, TRUE)
  BY DEF Keys, Over
<1> QED  BY <1>1, Zenon DEF Tuples, Found

\* A statement about access rules that is carried out, and what it makes of them.
RuleOk(pol, st) == Found(pol, st) /\ (st.p = All \/ (st.c # All /\ st.p \in PermsOf[st.c]))

RuleAllow(pol, st, allow) ==
  IF ~RuleOk(pol, st) THEN allow
  ELSE IF st.cmd = "allow" THEN allow \cup Tuples(pol, st, FALSE)
  ELSE IF st.cmd = "deny" THEN allow \ Tuples(pol, st, TRUE)
  ELSE allow

\* An access rule has the same effect on policies with the same names.
LEMMA SameRule ==
  ASSUME NEW p, NEW q, p.names = q.names, p.attrs = q.attrs, NEW st, NEW allow
  PROVE  RuleAllow(p, st, allow) = RuleAllow(q, st, allow)
<1>1. Tuples(p, st, FALSE) = Tuples(q, st, FALSE) /\ Tuples(p, st, TRUE) = Tuples(q, st, TRUE)
  BY SameTuples
<1>2. RuleOk(p, st) <=> RuleOk(q, st)
  BY SameTuples, Zenon DEF RuleOk
<1> QED  BY <1>1, <1>2, Zenon DEF RuleAllow

\* A rule of the access vector table.
LEMMA RuleEffect ==
  ASSUME NEW pol, IsPolicy(pol), NEW st, st.cmd \in AvCmds
  PROVE  LET r == AddRule(pol, st).pol
         IN  /\ IsPolicy(r) /\ r.names = pol.names /\ r.attrs = pol.attrs
             /\ r.allow = RuleAllow(pol, st, pol.allow)
             /\ AddRule(pol, st).ok <=> RuleOk(pol, st)
<1> DEFINE bad == ~Found(pol, st) \/ (st.p # All /\ (st.c = All \/ st.p \notin PermsOf[st.c]))
<1>1. CASE bad
  <2>1. AddRule(pol, st) = Fail(pol)
    BY <1>1, Zenon DEF AddRule
  <2>2. ~RuleOk(pol, st)
    BY <1>1, Zenon DEF RuleOk
  <2> QED  BY <2>1, <2>2, Results DEF RuleAllow
<1>2. CASE ~bad
  <2> PICK A, D, X : A = Tuples(pol, st, FALSE) /\ D = Tuples(pol, st, TRUE)
                     /\ X = {x \in Tuples(pol, st, FALSE) : HasNode(pol, x)}
    OBVIOUS
  <2>1. AddRule(pol, st) =
          Done(CASE st.cmd = "allow"      -> [pol EXCEPT !.allow = pol.allow \cup A]
                 [] st.cmd = "deny"       -> [pol EXCEPT !.allow = pol.allow \ D]
                 [] st.cmd = "auditallow" -> [pol EXCEPT !.audit = pol.audit \cup A]
                 [] st.cmd = "dontaudit"  -> [pol EXCEPT !.noaudit = pol.noaudit \cup X])
    BY <1>2, Zenon DEF AddRule, Cleared
  <2> PICK new : new = CASE st.cmd = "allow"      -> [pol EXCEPT !.allow = pol.allow \cup A]
                         [] st.cmd = "deny"       -> [pol EXCEPT !.allow = pol.allow \ D]
                         [] st.cmd = "auditallow" -> [pol EXCEPT !.audit = pol.audit \cup A]
                         [] st.cmd = "dontaudit"  -> [pol EXCEPT !.noaudit = pol.noaudit \cup X]
    OBVIOUS
  <2>2. AddRule(pol, st) = Done(new)
    BY <2>1, Zenon
  <2>3. AddRule(pol, st).ok /\ AddRule(pol, st).pol = new
    BY <2>2, Results
  <2>4. IsPolicy(new) /\ new.names = pol.names /\ new.attrs = pol.attrs
        /\ new.allow = IF st.cmd = "allow" THEN pol.allow \cup A
                       ELSE IF st.cmd = "deny" THEN pol.allow \ D ELSE pol.allow
    <3>1. CASE st.cmd = "allow"
      <4>1. new = [pol EXCEPT !.allow = pol.allow \cup A]  BY <3>1
      <4> QED  BY <3>1, <4>1 DEF IsPolicy, Parts
    <3>2. CASE st.cmd = "deny"
      <4>1. new = [pol EXCEPT !.allow = pol.allow \ D]  BY <3>2
      <4> QED  BY <3>2, <4>1 DEF IsPolicy, Parts
    <3>3. CASE st.cmd = "auditallow"
      <4>1. new = [pol EXCEPT !.audit = pol.audit \cup A]  BY <3>3
      <4>2. Spares(pol, new)  BY <4>1 DEF Spares, IsPolicy, Parts
      <4> QED  BY <3>3, <4>2 DEF Spares
    <3>4. CASE st.cmd = "dontaudit"
      <4>1. new = [pol EXCEPT !.noaudit = pol.noaudit \cup X]  BY <3>4
      <4>2. Spares(pol, new)  BY <4>1 DEF Spares, IsPolicy, Parts
      <4> QED  BY <3>4, <4>2 DEF Spares
    <3> QED  BY <3>1, <3>2, <3>3, <3>4 DEF AvCmds
  <2>5. RuleOk(pol, st)
    BY <1>2, Zenon DEF RuleOk
  <2>6. new.allow = RuleAllow(pol, st, pol.allow)
    BY <2>4, <2>5, Zenon DEF RuleAllow
  <2> QED  BY <2>3, <2>4, <2>5, <2>6
<1> QED  BY <1>1, <1>2

\* Only an access rule changes the access rules, and only a new name the names.
LEMMA ApplyCases ==
  ASSUME NEW pol, IsPolicy(pol), NEW st, NEW garbage
  PROVE  LET r == Apply(pol, st, garbage).pol
         IN  \/ All \notin Required(st) /\ st.cmd \in AvCmds
                /\ Apply(pol, st, garbage) = AddRule(pol, st)
             \/ All \notin Required(st) /\ st.cmd = "type"
                /\ Apply(pol, st, garbage) = AddTypeAttribute(AddType(pol, st.s, FALSE), st)
             \/ All \notin Required(st) /\ st.cmd = "attribute"
                /\ Apply(pol, st, garbage) = Done(AddType(pol, st.s, TRUE))
             \/ (All \in Required(st) \/ st.cmd \notin AvCmds \cup {"type", "attribute"})
                /\ Spares(pol, r)
<1> DEFINE r == Apply(pol, st, garbage)
<1>1. CASE All \in Required(st)
  <2>1. r = Fail(pol)  BY <1>1, Zenon DEF Apply
  <2> QED  BY <1>1, <2>1, Results, SparesItself
<1>2. CASE All \notin Required(st)
  <2> PICK a, b, c, d, e, f, g, h :
         /\ a = AddRule(pol, st) /\ b = AddXperm(pol, st, garbage) /\ c = AddFilenameTrans(pol, st)
         /\ d = AddTypeRule(pol, st) /\ e = AddTypeAttribute(AddType(pol, st.s, FALSE), st)
         /\ f = Done(AddType(pol, st.s, TRUE)) /\ g = AddTypeAttribute(pol, st)
         /\ h = SetTypeState(pol, st)
    OBVIOUS
  <2>1. r = CASE st.cmd \in AvCmds -> a
             [] st.cmd \in XpermCmds -> b
             [] st.cmd = "type_transition" /\ st.o # All -> c
             [] st.cmd \in TransCmds /\ (st.cmd # "type_transition" \/ st.o = All) -> d
             [] st.cmd = "type" -> e
             [] st.cmd = "attribute" -> f
             [] st.cmd = "typeattribute" -> g
             [] st.cmd \in {"permissive", "enforce"} -> h
             [] OTHER -> Fail(pol)
    BY <1>2, Zenon DEF Apply
  <2> HIDE DEF r
  <2>2. \/ st.cmd \in AvCmds /\ r = a
        \/ st.cmd = "type" /\ r = e
        \/ st.cmd = "attribute" /\ r = f
        \/ st.cmd \notin AvCmds \cup {"type", "attribute"} /\ r \in {b, c, d, g, h, Fail(pol)}
    BY <2>1 DEF AvCmds, XpermCmds, TransCmds
  <2>3. /\ Spares(pol, b.pol) /\ Spares(pol, c.pol) /\ Spares(pol, d.pol) /\ Spares(pol, g.pol)
        /\ Spares(pol, h.pol) /\ Spares(pol, Fail(pol).pol)
    BY XpermSpares, FilenameTransSpares, TypeRuleSpares, TypeAttributeSpares, TypeStateSpares,
       SparesItself, Results
  <2> QED  BY <1>2, <2>2, <2>3 DEF r
<1> QED  BY <1>1, <1>2

\* A new name.
LEMMA NameTwin ==
  ASSUME NEW p, NEW q, NEW L, Twin(p, q, L), NEW n
  PROVE  Twin(AddType(p, n, TRUE), AddType(q, n, TRUE), L)
         /\ Twin(AddType(p, n, FALSE), AddType(q, n, FALSE), L)
<1>1. CASE n \in p.names
  BY <1>1 DEF AddType, Twin
<1>2. ASSUME NEW pol, pol \in {p, q}, n \notin p.names
      PROVE  /\ AddType(pol, n, TRUE) = [pol EXCEPT !.names = pol.names \cup {n}, !.attrs = pol.attrs \cup {n}]
             /\ AddType(pol, n, FALSE) = [pol EXCEPT !.names = pol.names \cup {n}, !.attrs = pol.attrs]
  BY <1>2 DEF AddType, Twin, IsPolicy, Parts
<1>3. ASSUME NEW A, NEW B
      PROVE  Twin([p EXCEPT !.names = A, !.attrs = B], [q EXCEPT !.names = A, !.attrs = B], L)
  BY DEF Twin, IsPolicy, Parts
<1>4. CASE n \notin p.names
  <2> PICK A, B, C : A = p.names \cup {n} /\ B = p.attrs \cup {n} /\ C = p.attrs
    OBVIOUS
  <2>1. A = q.names \cup {n} /\ B = q.attrs \cup {n} /\ C = q.attrs
    BY DEF Twin
  <2>2. /\ AddType(p, n, TRUE) = [p EXCEPT !.names = A, !.attrs = B]
        /\ AddType(p, n, FALSE) = [p EXCEPT !.names = A, !.attrs = C]
    BY <1>2, <1>4
  <2>3. /\ AddType(q, n, TRUE) = [q EXCEPT !.names = A, !.attrs = B]
        /\ AddType(q, n, FALSE) = [q EXCEPT !.names = A, !.attrs = C]
    BY <1>2, <1>4, <2>1
  <2>4. /\ Twin([p EXCEPT !.names = A, !.attrs = B], [q EXCEPT !.names = A, !.attrs = B], L)
        /\ Twin([p EXCEPT !.names = A, !.attrs = C], [q EXCEPT !.names = A, !.attrs = C], L)
    BY <1>3
  <2> QED  BY <2>2, <2>3, <2>4
<1> QED  BY <1>1, <1>4

\* A statement leaves twins twins, whatever garbage each of them is given.
LEMMA ApplyTwin ==
  ASSUME NEW p, NEW q, NEW L, Twin(p, q, L), NEW st, NEW g, NEW h
  PROVE  Twin(Apply(p, st, g).pol, Apply(q, st, h).pol, L)
<1> DEFINE x == Apply(p, st, g).pol
           y == Apply(q, st, h).pol
<1>1. IsPolicy(p) /\ IsPolicy(q) /\ p.names = q.names /\ p.attrs = q.attrs
      /\ q.allow \subseteq p.allow /\ p.allow \subseteq q.allow \cup L
  BY DEF Twin
<1>2. CASE All \notin Required(st) /\ st.cmd \in AvCmds
  <2>1. Apply(p, st, g) = AddRule(p, st) /\ Apply(q, st, h) = AddRule(q, st)
    BY <1>1, <1>2, ApplyCases DEF AvCmds
  <2>2. /\ IsPolicy(x) /\ x.names = p.names /\ x.attrs = p.attrs
        /\ x.allow = RuleAllow(p, st, p.allow)
    BY <1>1, <1>2, <2>1, RuleEffect
  <2>3. /\ IsPolicy(y) /\ y.names = q.names /\ y.attrs = q.attrs
        /\ y.allow = RuleAllow(p, st, q.allow)
    <3>1. RuleAllow(p, st, q.allow) = RuleAllow(q, st, q.allow)
      BY <1>1, SameRule
    <3> QED  BY <1>1, <1>2, <2>1, <3>1, RuleEffect
  <2>4. /\ RuleAllow(p, st, q.allow) \subseteq RuleAllow(p, st, p.allow)
        /\ RuleAllow(p, st, p.allow) \subseteq RuleAllow(p, st, q.allow) \cup L
    <3> PICK A, D : A = Tuples(p, st, FALSE) /\ D = Tuples(p, st, TRUE)
      OBVIOUS
    <3>1. ASSUME NEW allow
          PROVE  RuleAllow(p, st, allow) = IF ~RuleOk(p, st) THEN allow
                                           ELSE IF st.cmd = "allow" THEN allow \cup A
                                           ELSE IF st.cmd = "deny" THEN allow \ D ELSE allow
      BY Zenon DEF RuleAllow
    <3> QED  BY <1>1, <3>1
  <2> HIDE DEF x, y
  <2>5. Twin(x, y, L)
    BY <1>1, <2>2, <2>3, <2>4 DEF Twin
  <2> QED  BY <2>5 DEF x, y
<1>3. CASE All \notin Required(st) /\ st.cmd = "attribute"
  <2> PICK u, v : u = AddType(p, st.s, TRUE) /\ v = AddType(q, st.s, TRUE)
    OBVIOUS
  <2>1. Twin(u, v, L)
    BY NameTwin
  <2>2. Apply(p, st, g) = Done(u) /\ Apply(q, st, h) = Done(v)
    BY <1>1, <1>3, ApplyCases DEF AvCmds
  <2> QED  BY <2>1, <2>2, Results
<1>4. CASE All \notin Required(st) /\ st.cmd = "type"
  <2> PICK u, v : u = AddType(p, st.s, FALSE) /\ v = AddType(q, st.s, FALSE)
    OBVIOUS
  <2>1. Twin(u, v, L)
    BY NameTwin
  <2>2. Apply(p, st, g) = AddTypeAttribute(u, st) /\ Apply(q, st, h) = AddTypeAttribute(v, st)
    BY <1>1, <1>4, ApplyCases DEF AvCmds
  <2>3. Spares(u, x) /\ Spares(v, y)
    BY <2>1, <2>2, TypeAttributeSpares DEF Twin
  <2> HIDE DEF x, y
  <2>4. Twin(x, y, L)
    BY <2>1, <2>3 DEF Twin, Spares
  <2> QED  BY <2>4 DEF x, y
<1>5. CASE All \in Required(st) \/ st.cmd \notin AvCmds \cup {"type", "attribute"}
  <2>1. Spares(p, x) /\ Spares(q, y)
    BY <1>1, <1>5, ApplyCases DEF AvCmds
  <2> HIDE DEF x, y
  <2>2. Twin(x, y, L)
    BY <1>1, <2>1 DEF Twin, Spares
  <2> QED  BY <2>2 DEF x, y
<1> QED  BY <1>2, <1>3, <1>4, <1>5

\* A batch leaves twins twins.
LEMMA RunTwin ==
  ASSUME NEW p, NEW q, NEW L, Twin(p, q, L), NEW stmts, Len(stmts) \in Nat, NEW g, NEW h
  PROVE  Twin(Run(p, stmts, g).pol, Run(q, stmts, h).pol, L)
<1>1. PICK f : Turns(f, p, stmts, g)
  BY RunTurns
<1>2. PICK k : Turns(k, q, stmts, h)
  BY RunTurns
<1> DEFINE P == {n \in Nat : n <= Len(stmts) => Twin(f[n].pol, k[n].pol, L)}
<1>3. 0 \in P
  BY <1>1, <1>2 DEF Start, Turns
<1>4. ASSUME NEW n \in P  PROVE n + 1 \in P
  <2> SUFFICES ASSUME n + 1 <= Len(stmts)  PROVE Twin(f[n + 1].pol, k[n + 1].pol, L)
    OBVIOUS
  <2>1. Twin(f[n].pol, k[n].pol, L)
    OBVIOUS
  <2>2. n + 1 \in 1..Len(stmts) /\ (n + 1) - 1 = n
    OBVIOUS
  <2>3. f[n + 1] = Turn(f[n], stmts[n + 1], g) /\ k[n + 1] = Turn(k[n], stmts[n + 1], h)
    BY <1>1, <1>2, <2>2 DEF Turns
  <2>4. /\ f[n + 1].pol = Apply(f[n].pol, stmts[n + 1], g).pol
        /\ k[n + 1].pol = Apply(k[n].pol, stmts[n + 1], h).pol
    BY <2>3 DEF Turn
  <2> QED  BY <2>1, <2>4, ApplyTwin
<1> HIDE DEF P
<1>5. P = Nat
  <2>1. P \in SUBSET Nat  BY DEF P
  <2> QED  BY <1>3, <1>4, <2>1, NumbersByInduction
<1>6. Len(stmts) \in P
  BY <1>5
<1>7. Twin(f[Len(stmts)].pol, k[Len(stmts)].pol, L)
  BY <1>6 DEF P
<1> QED  BY <1>1, <1>2, <1>7 DEF Turns

\* A batch makes a policy of a policy.
LEMMA RunPolicy ==
  ASSUME NEW p, IsPolicy(p), NEW stmts, Len(stmts) \in Nat, NEW g
  PROVE  IsPolicy(Run(p, stmts, g).pol)
<1>1. Twin(p, p, {})
  BY DEF Twin
<1>2. Twin(Run(p, stmts, g).pol, Run(p, stmts, g).pol, {})
  BY <1>1, RunTwin
<1> QED  BY <1>2 DEF Twin

Rules == Names \X Names \X Classes \X Perms

\* What a target's statements make of the access rules.
Changed(cmd, allow, S) == IF cmd = "allow" THEN allow \cup S ELSE allow \ S

RuleStatement(cmd, x) == Statement(cmd, x[1], x[2], x[3], x[4], All)

\* A turn that succeeds has dealt with the one rule.
Took(r, acc, cmd, x) ==
  /\ IsPolicy(r.pol) /\ r.count \in {acc.count, acc.count + 1}
  /\ r.count = acc.count + 1 => r.pol.allow = Changed(cmd, acc.pol.allow, {x})

\* A rule that is named in full is added or taken away, and nothing else.
LEMMA RuleTurn ==
  ASSUME NEW acc, IsPolicy(acc.pol), acc.count \in Nat, NEW cmd \in {"allow", "deny"}, NEW x \in Rules,
         NEW g
  PROVE  Took(Turn(acc, RuleStatement(cmd, x), g), acc, cmd, x)
<1> DEFINE st == RuleStatement(cmd, x)
           pol == acc.pol
           r == Turn(acc, st, g)
<1>1. /\ x = <<x[1], x[2], x[3], x[4]>> /\ x[1] \in Names /\ x[2] \in Names /\ x[3] \in Classes
      /\ x[4] \in Perms
  BY DEF Rules
<1>2. All \notin {x[1], x[2], x[3], x[4]}
  BY <1>1, PolicyAssumption
<1>3. st.cmd = cmd /\ st.s = x[1] /\ st.t = x[2] /\ st.c = x[3] /\ st.p = x[4]
  BY DEF RuleStatement, Statement
<1> HIDE DEF st
<1>4. Required(st) = {} /\ st.cmd \in AvCmds
  BY <1>3 DEF Required, AvCmds, XpermCmds, TransCmds
<1>5. Apply(pol, st, g) = AddRule(pol, st)
  BY <1>4, ApplyCases DEF AvCmds
<1>6. ASSUME NEW strip
      PROVE  Tuples(pol, st, strip) = {x}
  <2>1. Over(pol, st.s, strip) = {x[1]} /\ Over(pol, st.t, strip) = {x[2]} /\ ClassesOf(st) = {x[3]}
    BY <1>2, <1>3 DEF Over, ClassesOf
  <2>2. Keys(pol, st, strip) = {x[1]} \X {x[2]} \X {x[3]}
    BY <2>1 DEF Keys
  <2>3. Keys(pol, st, strip) = {<<x[1], x[2], x[3]>>}
    BY <2>2
  <2> PICK key : key = <<x[1], x[2], x[3]>>
    OBVIOUS
  <2>4. Tuples(pol, st, strip) =
           UNION {{<<k[1], k[2], k[3], p>> : p \in IF st.p = All THEN PermsOf[k[3]] ELSE {st.p}} :
                  k \in {key}}
    BY <2>3, Zenon DEF Tuples
  <2>5. Tuples(pol, st, strip) = {<<key[1], key[2], key[3], x[4]>>}
    BY <1>2, <1>3, <2>4
  <2> QED  BY <1>1, <2>5
<1>7. RuleOk(pol, st) => RuleAllow(pol, st, pol.allow) = Changed(cmd, pol.allow, {x})
  <2>1. Tuples(pol, st, FALSE) = {x} /\ Tuples(pol, st, TRUE) = {x}
    BY <1>6
  <2> QED  BY <1>3, <2>1 DEF RuleAllow, Changed
<1>8. LET a == AddRule(pol, st).pol
      IN  /\ IsPolicy(a) /\ a.allow = RuleAllow(pol, st, pol.allow)
          /\ AddRule(pol, st).ok <=> RuleOk(pol, st)
  BY <1>4, RuleEffect
<1>9. r.pol = AddRule(pol, st).pol /\ r.count = acc.count + (IF AddRule(pol, st).ok THEN 1 ELSE 0)
  BY <1>5 DEF Turn
<1> HIDE DEF r, pol
<1>10. /\ IsPolicy(r.pol) /\ r.count \in {acc.count, acc.count + 1}
       /\ r.count = acc.count + 1 => r.pol.allow = Changed(cmd, pol.allow, {x})
  BY <1>7, <1>8, <1>9
<1> QED  BY <1>10 DEF r, st, pol, Took

\* The elements of a finite set one after another.
LEMMA SetAsSequence ==
  ASSUME NEW S, IsFiniteSet(S)
  PROVE  LET s == SetToSeq(S)
             n == Cardinality(S)
         IN  /\ n \in Nat /\ s \in [1..n -> S] /\ Len(s) = n
             /\ \A x \in S : \E i \in 1..n : s[i] = x
             /\ n = 0 <=> S = {}
<1> DEFINE n == Cardinality(S)
<1>1. n \in Nat /\ ExistsBijection(1..n, S)
  BY FS_CardinalityType
<1>2. \E f \in [1..n -> S] : IsInjective(f)
  BY <1>1 DEF ExistsBijection, Bijection, Injection
<1> PICK s : s = SetToSeq(S)
  OBVIOUS
<1>3. s \in [1..n -> S] /\ IsInjective(s)
  BY <1>2 DEF SetToSeq
<1>4. Len(s) = n
  BY <1>1, <1>3
<1>5. s \in Injection(1..n, S)
  BY <1>3 DEF Injection
<1>6. IsFiniteSet(1..n) /\ Cardinality(1..n) = n
  BY <1>1, FS_Interval
<1>7. s \in Surjection(1..n, S)
  BY <1>5, <1>6, FS_Injection
<1>8. \A x \in S : \E i \in 1..n : s[i] = x
  BY <1>7 DEF Surjection
<1>9. n = 0 <=> S = {}
  BY FS_EmptySet
<1> QED  BY <1>1, <1>3, <1>4, <1>8, <1>9

\* The statements of a grant or a restore: one for each rule.
LEMMA RuleSequence ==
  ASSUME NEW S \in SUBSET Rules, IsFiniteSet(S), NEW cmd
  PROVE  LET s == RuleStatements(cmd, S)
             r == SetToSeq(S)
         IN  /\ Len(s) \in Nat /\ r \in [1..Len(s) -> S]
             /\ \A x \in S : \E i \in 1..Len(s) : r[i] = x
             /\ \A i \in 1..Len(s) : s[i] = RuleStatement(cmd, r[i])
             /\ s = <<>> => S = {}
<1> DEFINE s == RuleStatements(cmd, S)
<1> PICK r, n : r = SetToSeq(S) /\ n = Cardinality(S)
  OBVIOUS
<1>1. /\ n \in Nat /\ r \in [1..n -> S] /\ Len(r) = n
      /\ \A x \in S : \E i \in 1..n : r[i] = x
      /\ n = 0 <=> S = {}
  BY SetAsSequence
<1>2. s = [i \in 1..n |-> RuleStatement(cmd, r[i])]
  BY <1>1 DEF RuleStatements, RuleStatement
<1> HIDE DEF s
<1>3. Len(s) = n
  BY <1>1, <1>2
<1>4. s = <<>> => n = 0
  BY <1>1, <1>3
<1>5. /\ Len(s) \in Nat /\ r \in [1..Len(s) -> S]
      /\ \A x \in S : \E i \in 1..Len(s) : r[i] = x
      /\ \A i \in 1..Len(s) : s[i] = RuleStatement(cmd, r[i])
      /\ s = <<>> => S = {}
  BY <1>1, <1>2, <1>3, <1>4
<1> QED  BY <1>5 DEF s

\* When all of them succeed, these rules are added or taken away, and no other.
LEMMA RulesRun ==
  ASSUME NEW pol, IsPolicy(pol), NEW S \in SUBSET Rules, IsFiniteSet(S),
         NEW cmd \in {"allow", "deny"}, NEW g,
         Run(pol, RuleStatements(cmd, S), g).count = Len(RuleStatements(cmd, S))
  PROVE  Run(pol, RuleStatements(cmd, S), g).pol.allow = Changed(cmd, pol.allow, S)
<1> PICK s, r, m : s = RuleStatements(cmd, S) /\ r = SetToSeq(S) /\ m = Len(s)
  OBVIOUS
<1>1. /\ m \in Nat /\ r \in [1..m -> S]
      /\ \A x \in S : \E i \in 1..m : r[i] = x
      /\ \A i \in 1..m : s[i] = RuleStatement(cmd, r[i])
  BY RuleSequence
<1>2. PICK f : Turns(f, pol, s, g)
  BY <1>1, RunTurns
<1>3. f[0] = Start(pol) /\ Run(pol, s, g) = f[m] /\ \A i \in 1..m : f[i] = Turn(f[i - 1], s[i], g)
  BY <1>2 DEF Turns
<1> DEFINE Upto(n) == {r[i] : i \in 1..n}
           P == {n \in Nat : n <= m =>
                    /\ IsPolicy(f[n].pol) /\ f[n].count \in 0..n
                    /\ f[n].count = n => f[n].pol.allow = Changed(cmd, pol.allow, Upto(n))}
<1>4. 0 \in P
  <2>1. f[0].pol = pol /\ f[0].count = 0
    BY <1>3 DEF Start
  <2>2. Upto(0) = {}
    OBVIOUS
  <2>3. Changed(cmd, pol.allow, {}) = pol.allow
    BY DEF Changed
  <2>4. IsPolicy(f[0].pol) /\ f[0].count \in 0..0 /\ f[0].pol.allow = Changed(cmd, pol.allow, Upto(0))
    <3> HIDE DEF Upto
    <3>1. f[0].count \in 0..0 /\ IsPolicy(f[0].pol)  BY <2>1
    <3>2. f[0].pol.allow = Changed(cmd, pol.allow, Upto(0))  BY <2>1, <2>2, <2>3, Zenon
    <3> QED  BY <3>1, <3>2
  <2> HIDE DEF Upto
  <2> QED  BY <2>4
<1>5. ASSUME NEW n \in P  PROVE n + 1 \in P
  <2> SUFFICES ASSUME n + 1 <= m
               PROVE  /\ IsPolicy(f[n + 1].pol) /\ f[n + 1].count \in 0..(n + 1)
                      /\ f[n + 1].count = n + 1 =>
                           f[n + 1].pol.allow = Changed(cmd, pol.allow, Upto(n + 1))
    OBVIOUS
  <2>1. /\ IsPolicy(f[n].pol) /\ f[n].count \in 0..n
        /\ f[n].count = n => f[n].pol.allow = Changed(cmd, pol.allow, Upto(n))
    BY <1>1
  <2>2. n \in Nat /\ n + 1 \in 1..m /\ (n + 1) - 1 = n
    BY <1>1
  <2>3. f[n + 1] = Turn(f[n], RuleStatement(cmd, r[n + 1]), g) /\ r[n + 1] \in Rules
    BY <1>1, <1>3, <2>2
  <2>4. Upto(n + 1) = Upto(n) \cup {r[n + 1]}
    BY <2>2
  <2> HIDE DEF Upto
  <2>5. /\ IsPolicy(f[n + 1].pol) /\ f[n + 1].count \in {f[n].count, f[n].count + 1}
        /\ f[n + 1].count = f[n].count + 1 =>
             f[n + 1].pol.allow = Changed(cmd, f[n].pol.allow, {r[n + 1]})
    <3> PICK acc, x : acc = f[n] /\ x = r[n + 1]
      OBVIOUS
    <3>1. IsPolicy(acc.pol) /\ acc.count \in Nat /\ x \in Rules
      BY <2>1, <2>2, <2>3
    <3>2. Took(Turn(acc, RuleStatement(cmd, x), g), acc, cmd, x)
      BY <3>1, RuleTurn
    <3> QED  BY <2>3, <3>2 DEF Took
  <2>6. ASSUME f[n + 1].count = n + 1
        PROVE  f[n + 1].pol.allow = Changed(cmd, pol.allow, Upto(n + 1))
    <3>1. f[n].count = n
      BY <2>1, <2>2, <2>5, <2>6
    <3>2. /\ f[n].pol.allow = Changed(cmd, pol.allow, Upto(n))
          /\ f[n + 1].pol.allow = Changed(cmd, f[n].pol.allow, {r[n + 1]})
      BY <2>1, <2>5, <2>6, <3>1
    <3> QED  BY <2>4, <3>2 DEF Changed
  <2> QED  BY <2>1, <2>2, <2>5, <2>6
<1> HIDE DEF P
<1>6. P = Nat
  <2>1. P \in SUBSET Nat  BY DEF P
  <2> QED  BY <1>4, <1>5, <2>1, NumbersByInduction
<1>7. m \in P
  BY <1>1, <1>6
<1>8. f[m].count = m
  BY <1>3
<1>9. f[m].pol.allow = Changed(cmd, pol.allow, Upto(m))
  BY <1>1, <1>7, <1>8 DEF P
<1>10. Upto(m) = S
  BY <1>1
<1> QED  BY <1>3, <1>9, <1>10

-----------------------------------------------------------------------------
(* What is on loan.                                                        *)

\* What a client has been given and is about to do to the access rules.
Loan(c) ==
  /\ cl[c].given \in SUBSET Rules /\ IsFiniteSet(cl[c].given)
  /\ c \notin Targets => cl[c].given = {}
  /\ cl[c].pc # "idle" => \/ cl[c].kind = "batch" /\ c \notin Targets
                          \/ cl[c].kind \in {"grant", "restore"} /\ c \in Targets
  /\ cl[c].pc \in {"sent", "edit", "publish"} /\ cl[c].kind = "grant" => cl[c].given = {}
  /\ cl[c].pc \in {"edit", "publish"} => Len(cl[c].stmts) \in Nat
  /\ cl[c].pc = "edit" /\ cl[c].kind = "grant" =>
       cl[c].stmts = RuleStatements("allow", LoadRules[c] \ mem[live].allow)
  /\ cl[c].pc = "edit" /\ cl[c].kind = "restore" => cl[c].stmts = RuleStatements("deny", cl[c].given)
  /\ cl[c].pc = "publish" /\ cl[c].kind = "grant" =>
       mem[cl[c].new].allow = mem[live].allow \cup LoadRules[c]
  /\ cl[c].pc = "publish" /\ cl[c].kind = "restore" =>
       mem[cl[c].new].allow = mem[live].allow \ cl[c].given

\* The access rules are those there to stay and those on loan; nothing is both.
Accounted(allow, stay, loans) ==
  stay \subseteq allow /\ allow \subseteq stay \cup loans /\ stay \cap loans = {}

LoanInv ==
  /\ \A i \in Ids : IsPolicy(mem[i])
  /\ \A c \in Clients : Loan(c)
  /\ clash \in BOOLEAN
  /\ ~clash => Accounted(mem[live].allow, lasting, Loans(Targets))

\* The loans after a step that leaves what each target has been given.
LEMMA LoansStay ==
  ASSUME \A d \in Targets : cl'[d].given = cl[d].given
  PROVE  Loans(Targets)' = Loans(Targets)
BY DEF Loans

\* A step of one target changes what that target has on loan and no more.
LEMMA LoansChange ==
  ASSUME NEW c \in Targets, \A d \in Clients : d # c => cl'[d] = cl[d]
  PROVE  /\ Loans(Targets) = cl[c].given \cup Loans(Targets \ {c})
         /\ Loans(Targets)' = cl'[c].given \cup Loans(Targets \ {c})
BY DEF Loans, Clients

\* A client is not concerned by what others do, while it has no copy or they
\* leave the policies alone.
LEMMA LoanKept ==
  ASSUME NEW d, Loan(d), cl'[d] = cl[d],
         (mem' = mem /\ live' = live) \/ cl[d].pc \notin {"edit", "publish"}
  PROVE  Loan(d)'
BY DEF Loan

\* A step that leaves the access rules in force and what is on loan.
LEMMA FrameStep ==
  ASSUME LoanInv, NEW c \in Clients, \A d \in Clients : d # c => cl'[d] = cl[d], Loan(c)',
         c \in Targets => cl'[c].given = cl[c].given,
         live' = live, mem'[live] = mem[live], lasting' = lasting, clash' = clash,
         \A i \in Ids : IsPolicy(mem'[i]),
         mem' = mem \/ \A d \in Clients : d # c => cl[d].pc \notin {"edit", "publish"}
  PROVE  LoanInv'
<1>1. \A d \in Clients : Loan(d)'
  <2> SUFFICES ASSUME NEW d \in Clients, d # c  PROVE Loan(d)'
    OBVIOUS
  <2>1. Loan(d)  BY DEF LoanInv
  <2> QED  BY <2>1, LoanKept
<1>2. \A d \in Targets : cl'[d].given = cl[d].given
  BY DEF Clients
<1>3. Loans(Targets)' = Loans(Targets)
  BY <1>2, LoansStay
<1>4. clash' \in BOOLEAN /\ (~clash' => Accounted(mem'[live'].allow, lasting', Loans(Targets)'))
  BY <1>3, Zenon DEF LoanInv
<1> QED  BY <1>1, <1>4 DEF LoanInv

\* A step that gives up: what is on loan is so no more, but stays.
LEMMA GaveUpLoan ==
  ASSUME Shape, LoanInv, NEW c \in Clients, GaveUp(c), live' = live, mem'[live] = mem[live],
         \A i \in Ids : IsPolicy(mem'[i]),
         mem' = mem \/ \A d \in Clients : d # c => cl[d].pc \notin {"edit", "publish"}
  PROVE  LoanInv'
<1> DEFINE r == [Idle EXCEPT !.answer = 1]
<1>1. r.pc = "idle" /\ r.given = {}
  BY DEF Idle
<1>2. /\ cl' = [cl EXCEPT ![c] = r]
      /\ lasting' = lasting \cup (cl[c].given \cap mem[live].allow)
      /\ clash' = (clash \/ cl[c].given \cap Loans(Targets \ {c}) # {})
  BY Zenon DEF GaveUp
<1> HIDE DEF r
<1>3. cl'[c] = r /\ \A d \in Clients : d # c => cl'[d] = cl[d]
  BY <1>2 DEF Shape
<1>4. \A d \in Clients : Loan(d)'
  <2>1. Loan(c)'
    BY <1>1, <1>3, FS_EmptySet DEF Loan
  <2>2. ASSUME NEW d \in Clients, d # c  PROVE Loan(d)'
    <3>1. Loan(d)  BY DEF LoanInv
    <3> QED  BY <1>3, <2>2, <3>1, LoanKept
  <2> QED  BY <2>1, <2>2
<1>5. clash' \in BOOLEAN
  BY <1>2, Zenon DEF LoanInv
<1>6. ASSUME ~clash'
      PROVE  Accounted(mem'[live'].allow, lasting', Loans(Targets)')
  <2>1. ~clash /\ cl[c].given \cap Loans(Targets \ {c}) = {}
    BY <1>2, <1>6, Zenon
  <2>2. Accounted(mem[live].allow, lasting, Loans(Targets))
    BY <2>1 DEF LoanInv
  <2>3. CASE c \in Targets
    <3>1. /\ Loans(Targets) = cl[c].given \cup Loans(Targets \ {c})
          /\ Loans(Targets)' = cl'[c].given \cup Loans(Targets \ {c})
      BY <1>3, <2>3, LoansChange
    <3> PICK R : R = Loans(Targets \ {c})
      OBVIOUS
    <3>2. Loans(Targets) = cl[c].given \cup R /\ Loans(Targets)' = R /\ cl[c].given \cap R = {}
      BY <1>1, <1>3, <2>1, <3>1
    <3> QED  BY <1>2, <2>2, <3>2 DEF Accounted
  <2>4. CASE c \notin Targets
    <3>1. cl[c].given = {}
      BY <2>4 DEF LoanInv, Loan
    <3>2. \A d \in Targets : cl'[d].given = cl[d].given
      BY <1>3, <2>4 DEF Clients
    <3>3. Loans(Targets)' = Loans(Targets)
      BY <3>2, LoansStay
    <3> QED  BY <1>2, <2>2, <3>1, <3>3 DEF Accounted
  <2> QED  BY <2>3, <2>4
<1> QED  BY <1>4, <1>5, <1>6 DEF LoanInv

\* Requests, and batches that are refused: nothing is lent by them.
LEMMA RequestsLoan ==
  ASSUME Shape, LoanInv, NEW c \in Clients,
         \/ LivePatch(c) /\ c \in Daemons
         \/ (AskGrant(c) \/ AskRestore(c)) /\ c \in Targets
         \/ Refuse(c)
  PROVE  LoanInv'
<1>1. Loan(c) /\ Record(cl[c]) /\ \A i \in Ids : IsPolicy(mem[i])
  BY DEF LoanInv, Shape
<1>2. /\ mem' = mem /\ live' = live /\ lasting' = lasting /\ clash' = clash
  <2>1. LivePatch(c) => UNCHANGED <<mem, live, lasting, clash>>  BY Zenon DEF LivePatch
  <2>2. AskGrant(c) => UNCHANGED <<mem, live, lasting, clash>>  BY Zenon DEF AskGrant
  <2>3. AskRestore(c) => UNCHANGED <<mem, live, lasting, clash>>  BY Zenon DEF AskRestore
  <2>4. Refuse(c) => UNCHANGED <<mem, live, lasting, clash>>  BY Zenon DEF Refuse
  <2> QED  BY <2>1, <2>2, <2>3, <2>4
<1>3. ASSUME NEW r, cl' = [cl EXCEPT ![c] = r], r.given = cl[c].given,
             r.pc \in {"idle", "sent"}, r.pc = "sent" => \/ r.kind = "batch" /\ c \notin Targets
                                                         \/ r.kind \in {"grant", "restore"} /\ c \in Targets,
             r.kind = "grant" => r.given = {}
      PROVE  LoanInv'
  <2>1. cl'[c] = r /\ \A d \in Clients : d # c => cl'[d] = cl[d]
    BY <1>3 DEF Shape
  <2>2. Loan(c)'
    BY <1>1, <1>3, <2>1 DEF Loan
  <2> QED  BY <1>1, <1>2, <1>3, <2>1, <2>2, FrameStep
<1>4. CASE LivePatch(c) /\ c \in Daemons
  <2>1. c \notin Targets /\ cl[c].given = {}
    BY <1>1, <1>4, ClientsAssumption DEF Loan
  <2>2. PICK stmts, a :
          \/ cl' = [cl EXCEPT ![c] = [Idle EXCEPT !.answer = a]]
          \/ cl' = [cl EXCEPT ![c] = [Idle EXCEPT !.pc = "sent", !.kind = "batch", !.stmts = stmts]]
    <3>1. PICK text \in Texts :
          LET bad == \E i \in DOMAIN text : Unknown(text[i])
              stmts == Statements(text)
          IN cl' = [cl EXCEPT ![c] = IF bad \/ stmts = <<>>
                                     THEN [Idle EXCEPT !.answer = IF bad THEN 1 ELSE 0]
                                     ELSE [Idle EXCEPT !.pc = "sent", !.kind = "batch", !.stmts = stmts]]
      BY <1>4, Zenon DEF LivePatch
    <3> QED  BY <3>1, Zenon
  <2> DEFINE q == [Idle EXCEPT !.answer = a]
             r == [Idle EXCEPT !.pc = "sent", !.kind = "batch", !.stmts = stmts]
  <2>3. /\ q.pc = "idle" /\ q.given = {} /\ q.kind = None
        /\ r.pc = "sent" /\ r.given = {} /\ r.kind = "batch"
    BY DEF Idle
  <2>4. cl' = [cl EXCEPT ![c] = q] \/ cl' = [cl EXCEPT ![c] = r]
    BY <2>2
  <2> HIDE DEF q, r
  <2> QED  BY <1>3, <2>1, <2>3, <2>4
<1>5. CASE AskGrant(c) /\ c \in Targets
  <2> DEFINE r == [Idle EXCEPT !.pc = "sent", !.kind = "grant"]
  <2>1. r.pc = "sent" /\ r.given = {} /\ r.kind = "grant"
    BY DEF Idle
  <2>2. cl' = [cl EXCEPT ![c] = r] /\ cl[c].given = {}
    BY <1>5, Zenon DEF AskGrant
  <2> HIDE DEF r
  <2> QED  BY <1>3, <1>5, <2>1, <2>2
<1>6. CASE AskRestore(c) /\ c \in Targets
  <2> DEFINE r == [cl[c] EXCEPT !.pc = "sent", !.kind = "restore"]
  <2>1. r.pc = "sent" /\ r.given = cl[c].given /\ r.kind = "restore"
    BY <1>1 DEF Record, Fields
  <2>2. cl' = [cl EXCEPT ![c] = r]
    BY <1>6 DEF AskRestore, Shape
  <2> HIDE DEF r
  <2> QED  BY <1>3, <1>6, <2>1, <2>2
<1>7. CASE Refuse(c)
  <2>1. /\ cl[c].pc = "sent" /\ cl[c].kind = "batch"
        /\ cl' = [cl EXCEPT ![c] = [Idle EXCEPT !.answer = 1]]
    BY <1>7, Zenon DEF Refuse
  <2>2. cl[c].given = {}
    BY <1>1, <2>1 DEF Loan
  <2> DEFINE r == [Idle EXCEPT !.answer = 1]
  <2>3. r.pc = "idle" /\ r.given = {} /\ r.kind = None
    BY DEF Idle
  <2>4. cl' = [cl EXCEPT ![c] = r]
    BY <2>1
  <2> HIDE DEF r
  <2> QED  BY <1>3, <2>2, <2>3, <2>4
<1> QED  BY <1>4, <1>5, <1>6, <1>7

\* The rules a target lacks, or has been given, are named in full.
LEMMA Named ==
  ASSUME LoanInv, NEW c \in Targets
  PROVE  /\ LoadRules[c] \in SUBSET Rules /\ IsFiniteSet(LoadRules[c])
         /\ LoadRules[c] \ mem[live].allow \in SUBSET Rules
         /\ IsFiniteSet(LoadRules[c] \ mem[live].allow)
<1>1. LoadRules[c] \in SUBSET Rules /\ IsFiniteSet(LoadRules[c])
  BY NeedsAssumption DEF Rules
<1> QED  BY <1>1, FS_Subset

\* A copy is made for the statements of a request, or there is nothing to do.
LEMMA BeginLoan ==
  ASSUME IInv, LoanInv, NEW c \in Clients, Begin(c)
  PROVE  LoanInv'
<1>1. /\ Shape /\ Loan(c) /\ Record(cl[c]) /\ (\A i \in Ids : IsPolicy(mem[i])) /\ live \in Ids
      /\ live \notin free /\ free \subseteq Ids
  BY DEF IInv, LoanInv, Shape, StoreInv
<1>2. /\ cl[c].pc = "sent" /\ mutex = None /\ Len(cl[c].stmts) \in 0..MaxStmts
      /\ \/ /\ Wanted(c) = <<>> /\ cl' = [cl EXCEPT ![c] = Idle]
            /\ UNCHANGED <<store, mutex, history>>
         \/ \E i \in free :
               /\ mem' = [mem EXCEPT ![i] = mem[live]]
               /\ cl' = [cl EXCEPT ![c].pc = "edit", ![c].stmts = Wanted(c),
                                   ![c].old = live, ![c].new = i]
               /\ UNCHANGED <<live, history>>
         \/ GaveUp(c) /\ UNCHANGED <<store, mutex>>
  BY Zenon DEF Begin
<1>3. /\ cl[c].kind = "batch" /\ c \notin Targets /\ Wanted(c) = cl[c].stmts
      \/ /\ cl[c].kind = "grant" /\ c \in Targets /\ cl[c].given = {}
         /\ Wanted(c) = RuleStatements("allow", LoadRules[c] \ mem[live].allow)
      \/ /\ cl[c].kind = "restore" /\ c \in Targets /\ Wanted(c) = RuleStatements("deny", cl[c].given)
  <2>1. \/ cl[c].kind = "batch" /\ c \notin Targets
        \/ cl[c].kind = "grant" /\ c \in Targets /\ cl[c].given = {}
        \/ cl[c].kind = "restore" /\ c \in Targets
    BY <1>1, <1>2 DEF Loan
  <2> QED  BY <2>1 DEF Wanted
<1>4. Len(Wanted(c)) \in Nat
  <2>1. CASE cl[c].kind = "batch"
    BY <1>2, <1>3, <2>1, BoundsAssumption
  <2>2. CASE cl[c].kind = "grant"
    BY <1>3, <2>2, Named, RuleSequence
  <2>3. CASE cl[c].kind = "restore"
    BY <1>1, <1>3, <2>3, RuleSequence DEF Loan
  <2> QED  BY <1>3, <2>1, <2>2, <2>3
<1>5. CASE Wanted(c) = <<>> /\ cl' = [cl EXCEPT ![c] = Idle] /\ UNCHANGED <<store, mutex, history>>
  <2>1. cl[c].given = {}
    BY <1>1, <1>3, <1>5, RuleSequence DEF Loan
  <2>2. Idle.given = {} /\ Idle.pc = "idle"
    BY DEF Idle
  <2>3. cl'[c] = Idle /\ \A d \in Clients : d # c => cl'[d] = cl[d]
    BY <1>1, <1>5 DEF Shape
  <2>4. Loan(c)'
    BY <2>2, <2>3, FS_EmptySet DEF Loan
  <2>5. mem' = mem /\ live' = live /\ lasting' = lasting /\ clash' = clash
    BY <1>5
  <2>6. \A i \in Ids : IsPolicy(mem'[i])
    BY <1>1, <2>5
  <2> QED  BY <2>1, <2>2, <2>3, <2>4, <2>5, <2>6, FrameStep
<1>6. ASSUME NEW i \in free, mem' = [mem EXCEPT ![i] = mem[live]],
             cl' = [cl EXCEPT ![c].pc = "edit", ![c].stmts = Wanted(c),
                              ![c].old = live, ![c].new = i],
             UNCHANGED <<live, history>>
      PROVE  LoanInv'
  <2> PICK w : w = Wanted(c)
    OBVIOUS
  <2> DEFINE r == [cl[c] EXCEPT !.pc = "edit", !.stmts = w, !.old = live, !.new = i]
  <2>1. r.pc = "edit" /\ r.stmts = w /\ r.given = cl[c].given /\ r.kind = cl[c].kind
    BY <1>1 DEF Record, Fields
  <2>2. cl' = [cl EXCEPT ![c] = r]
    BY <1>6 DEF Shape
  <2> HIDE DEF r
  <2>3. cl'[c] = r /\ \A d \in Clients : d # c => cl'[d] = cl[d]
    BY <1>1, <2>2 DEF Shape
  <2>4. /\ mem'[live] = mem[live] /\ live' = live /\ lasting' = lasting /\ clash' = clash
        /\ \A k \in Ids : IsPolicy(mem'[k])
    <3>1. live' = live /\ lasting' = lasting /\ clash' = clash
      BY <1>6
    <3>2. i \in Ids /\ \A k \in Ids : mem'[k] = IF k = i THEN mem[live] ELSE mem[k]
      BY <1>1, <1>6 DEF Shape
    <3> QED  BY <1>1, <3>1, <3>2
  <2>5. Loan(c)'
    BY <1>1, <1>2, <1>3, <1>4, <2>1, <2>3, <2>4 DEF Loan
  <2>6. \A d \in Clients : d # c => cl[d].pc \notin {"edit", "publish"}
    BY <1>2, ClientsAssumption DEF IInv, MutexInv
  <2> QED  BY <2>1, <2>3, <2>4, <2>5, <2>6, FrameStep
<1>7. CASE GaveUp(c) /\ UNCHANGED <<store, mutex>>
  <2>1. mem' = mem /\ live' = live
    BY <1>7
  <2>2. \A i \in Ids : IsPolicy(mem'[i])
    BY <1>1, <2>1
  <2> QED  BY <1>1, <1>7, <2>1, <2>2, GaveUpLoan
<1> QED  BY <1>2, <1>5, <1>6, <1>7

\* The policy the module leaves at boot.
LEMMA BootPolicy == IsPolicy(Boot)
<1>1. Len(TamisuRules) \in Nat
  BY DEF TamisuRules
<1> QED  BY <1>1, RunPolicy, StockAssumption DEF Boot

\* Nobody but the writer that has the mutex has a copy.
LEMMA OneWriter ==
  ASSUME IInv, NEW c \in Clients, cl[c].pc \in {"edit", "publish", "sync", "flush"}
  PROVE  \A d \in Clients : d # c => cl[d].pc \notin {"edit", "publish"}
BY DEF IInv, MutexInv

\* The statements are carried out on the copy: a grant's and a restore's all, or
\* it is not published.
LEMMA EditLoan ==
  ASSUME IInv, LoanInv, NEW c \in Clients, Edit(c)
  PROVE  LoanInv'
<1>1. /\ Shape /\ Loan(c) /\ Record(cl[c]) /\ (\A i \in Ids : IsPolicy(mem[i])) /\ live \in Ids
      /\ cl[c].pc = "edit"
  BY Zenon DEF IInv, LoanInv, Shape, Edit
<1>2. cl[c].new \in Ids /\ cl[c].new # live /\ mem[cl[c].new] = mem[live]
  BY <1>1 DEF IInv, StoreInv
<1> PICK id, stmts, kind, pol :
      id = cl[c].new /\ stmts = cl[c].stmts /\ kind = cl[c].kind /\ pol = mem[live]
  OBVIOUS
<1>3. PICK garbage \in Ranges :
         LET r == Run(mem[id], stmts, garbage)
         IN /\ kind = "batch" \/ r.count = Len(stmts)
            /\ mem' = [mem EXCEPT ![id] = r.pol]
            /\ cl' = [cl EXCEPT ![c].pc = "publish", ![c].count = r.count]
  BY Zenon DEF Edit
<1> PICK res : res = Run(pol, stmts, garbage)
  OBVIOUS
<1>4. /\ kind = "batch" \/ res.count = Len(stmts)
      /\ mem' = [mem EXCEPT ![id] = res.pol]
      /\ cl' = [cl EXCEPT ![c].pc = "publish", ![c].count = res.count]
  BY <1>2, <1>3
<1>5. live' = live /\ lasting' = lasting /\ clash' = clash
  BY Zenon DEF Edit
<1> DEFINE r == [cl[c] EXCEPT !.pc = "publish", !.count = res.count]
<1>6. /\ r.pc = "publish" /\ r.stmts = stmts /\ r.given = cl[c].given /\ r.kind = kind /\ r.new = id
  BY <1>1 DEF Record, Fields
<1>7. cl' = [cl EXCEPT ![c] = r]
  BY <1>1, <1>4 DEF Shape
<1> HIDE DEF r
<1>8. cl'[c] = r /\ \A d \in Clients : d # c => cl'[d] = cl[d]
  BY <1>1, <1>7 DEF Shape
<1>9. IsPolicy(res.pol)
  BY <1>1, RunPolicy DEF Loan
<1>10. mem'[id] = res.pol /\ \A i \in Ids : i # id => mem'[i] = mem[i]
  BY <1>1, <1>2, <1>4 DEF Shape
<1>11. \A i \in Ids : IsPolicy(mem'[i])
  BY <1>1, <1>9, <1>10
<1>12. ASSUME kind = "grant"
       PROVE  res.pol.allow = pol.allow \cup LoadRules[c]
  <2>1. c \in Targets
    BY <1>1, <1>12 DEF Loan
  <2> PICK S : S = LoadRules[c] \ mem[live].allow
    OBVIOUS
  <2>2. S \in SUBSET Rules /\ IsFiniteSet(S) /\ stmts = RuleStatements("allow", S)
    BY <1>1, <1>12, <2>1, Named DEF Loan
  <2>3. res.count = Len(stmts) /\ IsPolicy(pol)
    BY <1>1, <1>4, <1>12
  <2>4. res.pol.allow = Changed("allow", pol.allow, S)
    BY <2>2, <2>3, RulesRun
  <2> QED  BY <2>4 DEF Changed
<1>13. ASSUME kind = "restore"
       PROVE  res.pol.allow = pol.allow \ cl[c].given
  <2> PICK S : S = cl[c].given
    OBVIOUS
  <2>1. S \in SUBSET Rules /\ IsFiniteSet(S) /\ stmts = RuleStatements("deny", S)
    BY <1>1, <1>13 DEF Loan
  <2>2. res.count = Len(stmts) /\ IsPolicy(pol)
    BY <1>1, <1>4, <1>13
  <2>3. res.pol.allow = Changed("deny", pol.allow, S)
    BY <2>1, <2>2, RulesRun
  <2> QED  BY <2>3 DEF Changed
<1>14. Loan(c)'
  BY <1>1, <1>2, <1>5, <1>6, <1>8, <1>10, <1>12, <1>13 DEF Loan
<1>15. mem'[live] = mem[live]
  BY <1>1, <1>2, <1>10
<1> QED  BY <1>1, <1>5, <1>6, <1>8, <1>11, <1>14, <1>15, OneWriter, FrameStep

\* The copy is dropped and the request given up.
LEMMA DropLoan ==
  ASSUME IInv, LoanInv, NEW c \in Clients, Drop(c)
  PROVE  LoanInv'
<1>1. /\ cl[c].pc = "edit" /\ GaveUp(c) /\ live' = live
      /\ mem' = [mem EXCEPT ![cl[c].new] = Boot]
  BY Zenon DEF Drop
<1>2. /\ Shape /\ cl[c].new \in Ids /\ cl[c].new # live /\ live \in Ids
      /\ \A i \in Ids : IsPolicy(mem[i])
  BY <1>1 DEF IInv, StoreInv, LoanInv, Shape
<1>3. mem'[live] = mem[live] /\ \A i \in Ids : IsPolicy(mem'[i])
  BY <1>1, <1>2, BootPolicy DEF Shape
<1> QED  BY <1>1, <1>2, <1>3, OneWriter, GaveUpLoan

\* The old policy goes, which no loan is about.
LEMMA SynchronizeLoan ==
  ASSUME IInv, LoanInv, NEW c \in Clients, Synchronize(c)
  PROVE  LoanInv'
<1>1. /\ cl[c].pc = "sync" /\ live' = live /\ lasting' = lasting /\ clash' = clash
      /\ mem' = [mem EXCEPT ![cl[c].old] = Boot] /\ cl' = [cl EXCEPT ![c].pc = "flush"]
  BY Zenon DEF Synchronize
<1>2. /\ Shape /\ Loan(c) /\ Record(cl[c]) /\ cl[c].old \in Ids /\ cl[c].old # live /\ live \in Ids
      /\ \A i \in Ids : IsPolicy(mem[i])
  BY <1>1 DEF IInv, StoreInv, LoanInv, Shape
<1>3. mem'[live] = mem[live] /\ \A i \in Ids : IsPolicy(mem'[i])
  BY <1>1, <1>2, BootPolicy DEF Shape
<1> DEFINE r == [cl[c] EXCEPT !.pc = "flush"]
<1>4. r.pc = "flush" /\ r.given = cl[c].given /\ r.kind = cl[c].kind
  BY <1>2 DEF Record, Fields
<1>5. cl' = [cl EXCEPT ![c] = r]
  BY <1>1, <1>2 DEF Shape
<1> HIDE DEF r
<1>6. cl'[c] = r /\ \A d \in Clients : d # c => cl'[d] = cl[d]
  BY <1>2, <1>5 DEF Shape
<1>7. Loan(c)'
  BY <1>1, <1>2, <1>4, <1>6 DEF Loan
<1> QED  BY <1>1, <1>3, <1>4, <1>6, <1>7, OneWriter, FrameStep

\* The answer: what was given is kept.
LEMMA FlushLoan ==
  ASSUME IInv, LoanInv, NEW c \in Clients, Flush(c)
  PROVE  LoanInv'
<1>1. /\ cl[c].pc = "flush" /\ UNCHANGED <<mem, live, lasting, clash>>
      /\ cl' = [cl EXCEPT ![c] = [Idle EXCEPT
                  !.answer = IF cl[c].count < Len(cl[c].stmts) THEN 1 ELSE 0,
                  !.given = cl[c].given]]
  BY Zenon DEF Flush
<1>2. /\ Shape /\ Loan(c) /\ \A i \in Ids : IsPolicy(mem[i])
  BY DEF IInv, LoanInv
<1> PICK a, g : a = (IF cl[c].count < Len(cl[c].stmts) THEN 1 ELSE 0) /\ g = cl[c].given
  OBVIOUS
<1> DEFINE r == [Idle EXCEPT !.answer = a, !.given = g]
<1>3. r.pc = "idle" /\ r.given = cl[c].given
  BY DEF Idle
<1>4. cl' = [cl EXCEPT ![c] = r]
  BY <1>1
<1> HIDE DEF r
<1>5. cl'[c] = r /\ \A d \in Clients : d # c => cl'[d] = cl[d]
  BY <1>2, <1>4 DEF Shape
<1>6. Loan(c)'
  BY <1>2, <1>3, <1>5 DEF Loan
<1>7. \A i \in Ids : IsPolicy(mem'[i])
  BY <1>1, <1>2
<1> QED  BY <1>1, <1>3, <1>5, <1>6, <1>7, FrameStep

\* The rules left by a batch alone, and by the same batch with the loans.
Within(full, alone, loans) == alone \subseteq full /\ full \subseteq alone \cup loans

\* A batch alone, on the rules there to stay, leaves of them what it leaves in
\* the policy with the loans.
LEMMA BatchAlone ==
  ASSUME NEW pol, IsPolicy(pol), NEW stay, NEW loans, stay \subseteq pol.allow,
         pol.allow \subseteq stay \cup loans, NEW stmts, Len(stmts) \in Nat, NEW g, NEW h
  PROVE  Within(Run(pol, stmts, g).pol.allow, Run([pol EXCEPT !.allow = stay], stmts, h).pol.allow, loans)
<1> PICK q : q = [pol EXCEPT !.allow = stay]
  OBVIOUS
<1>1. Twin(pol, q, loans)
  BY DEF Twin, IsPolicy, Parts
<1>2. Twin(Run(pol, stmts, g).pol, Run(q, stmts, h).pol, loans)
  BY <1>1, RunTwin
<1> QED  BY <1>2 DEF Twin, Within

\* A grant adds what it lends, a restore takes back what it lent, and a batch
\* changes what stays.
LEMMA PublishLoan ==
  ASSUME IInv, LoanInv, NEW c \in Clients, Publish(c)
  PROVE  LoanInv'
<1>1. /\ Shape /\ Loan(c) /\ Record(cl[c]) /\ (\A i \in Ids : IsPolicy(mem[i])) /\ live \in Ids
      /\ cl[c].pc = "publish"
  BY Zenon DEF IInv, LoanInv, Shape, Publish
<1> PICK id, stmts, kind, pol :
      id = cl[c].new /\ stmts = cl[c].stmts /\ kind = cl[c].kind /\ pol = mem[live]
  OBVIOUS
<1>2. /\ id \in Ids /\ id # live /\ IsPolicy(pol)
      /\ \E garbage \in Ranges : mem[id] = Run(pol, stmts, garbage).pol
  BY <1>1 DEF IInv, StoreInv
<1> PICK given, alone :
      /\ given = IF kind = "grant" THEN LoadRules[c] \ pol.allow ELSE {}
      /\ alone = Run([pol EXCEPT !.allow = lasting], stmts, "all").pol.allow
  OBVIOUS
<1>3. /\ live' = id /\ mem' = mem
      /\ cl' = [cl EXCEPT ![c].pc = "sync", ![c].given = given]
      /\ kind = "batch" => /\ lasting' = alone
                           /\ clash' = (clash \/ Loans(Targets) \cap (alone \ lasting) # {})
      /\ kind # "batch" => lasting' = lasting /\ clash' = clash
  BY Zenon DEF Publish
<1> DEFINE r == [cl[c] EXCEPT !.pc = "sync", !.given = given]
<1>4. r.pc = "sync" /\ r.given = given /\ r.kind = kind
  BY <1>1 DEF Record, Fields
<1>5. cl' = [cl EXCEPT ![c] = r]
  BY <1>1, <1>3 DEF Shape
<1> HIDE DEF r
<1>6. cl'[c] = r /\ \A d \in Clients : d # c => cl'[d] = cl[d]
  BY <1>1, <1>5 DEF Shape
<1>7. \/ kind = "batch" /\ c \notin Targets /\ cl[c].given = {} /\ given = {}
      \/ kind = "grant" /\ c \in Targets /\ cl[c].given = {} /\ given = LoadRules[c] \ pol.allow
      \/ kind = "restore" /\ c \in Targets /\ given = {}
  BY <1>1 DEF Loan
<1>8. given \in SUBSET Rules /\ IsFiniteSet(given)
  BY <1>7, Named, FS_EmptySet
<1>9. \A d \in Clients : Loan(d)'
  <2>1. Loan(c)'
    BY <1>4, <1>6, <1>7, <1>8 DEF Loan
  <2>2. ASSUME NEW d \in Clients, d # c  PROVE Loan(d)'
    <3>1. Loan(d) /\ cl[d].pc \notin {"edit", "publish"}
      BY <1>1, <2>2, OneWriter DEF LoanInv
    <3> QED  BY <1>6, <2>2, <3>1, LoanKept
  <2> QED  BY <2>1, <2>2
<1>10. clash' \in BOOLEAN
  BY <1>3, Zenon DEF LoanInv
<1>11. ASSUME ~clash'
       PROVE  Accounted(mem'[live'].allow, lasting', Loans(Targets)')
  <2>1. ~clash /\ (kind = "batch" => Loans(Targets) \cap (alone \ lasting) = {})
    <3>1. CASE kind = "batch"
      <4> PICK X : X = Loans(Targets) \cap (alone \ lasting)
        OBVIOUS
      <4>1. clash' = (clash \/ X # {})
        BY <1>3, <3>1, Zenon
      <4> QED  BY <1>11, <4>1, Zenon
    <3>2. CASE kind # "batch"
      <4>1. clash' = clash
        BY <1>3, <3>2, Zenon
      <4> QED  BY <1>11, <3>2, <4>1, Zenon
    <3> QED  BY <3>1, <3>2, Zenon
  <2>2. Accounted(pol.allow, lasting, Loans(Targets))
    BY <2>1 DEF LoanInv
  <2>3. mem'[live'] = mem[id]
    BY <1>3
  <2>4. CASE kind = "batch"
    <3>1. \A d \in Targets : cl'[d].given = cl[d].given
      BY <1>6, <1>7, <2>4 DEF Clients
    <3>2. Loans(Targets)' = Loans(Targets)
      BY <3>1, LoansStay
    <3> PICK L : L = Loans(Targets)
      OBVIOUS
    <3>3. /\ lasting \subseteq pol.allow /\ pol.allow \subseteq lasting \cup L /\ lasting \cap L = {}
          /\ L \cap (alone \ lasting) = {}
      BY <2>1, <2>2, <2>4 DEF Accounted
    <3>4. Len(stmts) \in Nat
      BY <1>1 DEF Loan
    <3>5. alone \subseteq mem[id].allow /\ mem[id].allow \subseteq alone \cup L
      <4> PICK garbage \in Ranges : mem[id] = Run(pol, stmts, garbage).pol
        BY <1>2
      <4>1. Within(Run(pol, stmts, garbage).pol.allow,
                   Run([pol EXCEPT !.allow = lasting], stmts, "all").pol.allow, L)
        BY <1>2, <3>3, <3>4, BatchAlone
      <4>2. Within(mem[id].allow, alone, L)
        BY <4>1, Zenon
      <4> QED  BY <4>2 DEF Within
    <3>6. alone \cap L = {}
      BY <3>3
    <3> QED  BY <1>3, <2>3, <2>4, <3>2, <3>5, <3>6 DEF Accounted
  <2>5. CASE kind # "batch"
    <3>1. c \in Targets
      BY <1>7, <2>5
    <3> PICK R : R = Loans(Targets \ {c})
      OBVIOUS
    <3>2. Loans(Targets) = cl[c].given \cup R /\ Loans(Targets)' = given \cup R
      BY <1>4, <1>6, <3>1, LoansChange
    <3>3. CASE kind = "grant"
      <4>1. mem[id].allow = pol.allow \cup LoadRules[c]
        BY <1>1, <3>3 DEF Loan
      <4> QED  BY <1>3, <1>7, <2>2, <2>3, <3>2, <3>3, <4>1 DEF Accounted
    <3>4. CASE kind = "restore"
      <4>1. mem[id].allow = pol.allow \ cl[c].given
        BY <1>1, <3>4 DEF Loan
      <4> QED  BY <1>3, <1>7, <2>2, <2>3, <3>2, <3>4, <4>1 DEF Accounted
    <3> QED  BY <1>7, <2>5, <3>3, <3>4
  <2> QED  BY <2>4, <2>5
<1> QED  BY <1>1, <1>3, <1>9, <1>10, <1>11 DEF LoanInv

\* Nothing is lent at the start ...
LEMMA InitLoan == Init => LoanInv
<1> SUFFICES ASSUME Init PROVE LoanInv
  OBVIOUS
<1>1. /\ mem = [i \in Ids |-> Boot] /\ live = 1 /\ cl = [c \in Clients |-> Idle]
      /\ lasting = Boot.allow /\ clash = FALSE
  BY Zenon DEF Init
<1>2. Idle.pc = "idle" /\ Idle.given = {}
  BY DEF Idle
<1>3. \A c \in Clients : Loan(c)
  BY <1>1, <1>2, FS_EmptySet DEF Loan
<1>4. Loans(Targets) = {}
  BY <1>1, <1>2 DEF Loans, Clients
<1>5. mem[live] = Boot /\ \A i \in Ids : IsPolicy(mem[i])
  BY <1>1, BootPolicy DEF Ids
<1>6. Accounted(mem[live].allow, lasting, Loans(Targets))
  BY <1>1, <1>4, <1>5 DEF Accounted
<1> QED  BY <1>1, <1>3, <1>5, <1>6 DEF LoanInv

\* ... and the loans are accounted for after every step.
LEMMA LoanStep == IInv /\ LoanInv /\ [Next]_vars => LoanInv'
<1> SUFFICES ASSUME IInv, LoanInv, [Next]_vars PROVE LoanInv'
  OBVIOUS
<1>1. ASSUME NEW c \in Daemons, LivePatch(c)
      PROVE  LoanInv'
  BY <1>1, RequestsLoan DEF Clients, IInv
<1>2. ASSUME NEW c \in Targets, AskGrant(c) \/ AskRestore(c)
      PROVE  LoanInv'
  BY <1>2, RequestsLoan DEF Clients, IInv
<1>3. ASSUME NEW c \in Clients, Writing(c)
      PROVE  LoanInv'
  BY <1>3, RequestsLoan, BeginLoan, EditLoan, DropLoan, PublishLoan, SynchronizeLoan, FlushLoan
     DEF Writing, IInv
<1>4. ASSUME mem' = mem, live' = live, cl' = cl, lasting' = lasting, clash' = clash
      PROVE  LoanInv'
  <2>1. \A c \in Clients : Loan(c)'
    BY <1>4, LoanKept DEF LoanInv
  <2>2. \A d \in Targets : cl'[d].given = cl[d].given
    BY <1>4
  <2>3. Loans(Targets)' = Loans(Targets)
    BY <2>2, LoansStay
  <2>4. \A i \in Ids : IsPolicy(mem'[i])
    BY <1>4 DEF LoanInv
  <2>5. clash' \in BOOLEAN /\ (~clash' => Accounted(mem'[live'].allow, lasting', Loans(Targets)'))
    BY <1>4, <2>3, Zenon DEF LoanInv
  <2> QED  BY <2>1, <2>4, <2>5 DEF LoanInv
<1>5. ASSUME NEW r \in Readers, Reading(r)
      PROVE  mem' = mem /\ live' = live /\ cl' = cl /\ lasting' = lasting /\ clash' = clash
  <2>1. Look(r) => UNCHANGED <<mem, live, cl, lasting, clash>>  BY Zenon DEF Look
  <2>2. Decide(r) => UNCHANGED <<mem, live, cl, lasting, clash>>  BY Zenon DEF Decide
  <2>3. Insert(r) => UNCHANGED <<mem, live, cl, lasting, clash>>  BY Zenon DEF Insert
  <2> QED  BY <1>5, <2>1, <2>2, <2>3 DEF Reading
<1>6. CASE UNCHANGED vars
  BY <1>4, <1>6, Zenon DEF vars
<1> QED  BY <1>1, <1>2, <1>3, <1>4, <1>5, <1>6 DEF Next

-----------------------------------------------------------------------------
(* What a success means.                                                    *)

NewNames == {"type", "attribute", "typeattribute"}

\* The unnamed and the named type rules.
Plain(st) == st.cmd \in TransCmds /\ (st.cmd # "type_transition" \/ st.o = All)
NamedRule(st) == st.cmd = "type_transition" /\ st.o # All
Key(st) == <<st.t, st.c, st.o>>

\* What a statement may do to a policy.
Moved(p, q, st) ==
  /\ p.has \subseteq q.has /\ p.attrs \subseteq q.attrs /\ p.audit \subseteq q.audit
  /\ p.noaudit \subseteq q.noaudit /\ p.xperm \subseteq q.xperm
  /\ st.cmd \notin NewNames => q.names = p.names /\ q.attrs = p.attrs /\ q.has = p.has
  /\ st.cmd # "deny" => p.allow \subseteq q.allow
  /\ st.cmd # "allow" => q.allow \subseteq p.allow
  /\ st.cmd # "enforce" => p.permissive \subseteq q.permissive
  /\ st.cmd # "permissive" => q.permissive \subseteq p.permissive
  /\ \A x \in p.trans : ~(Plain(st) /\ SubSeq(x, 1, 4) = <<st.cmd, st.s, st.t, st.c>>) => x \in q.trans
  /\ \A key : ~(NamedRule(st) /\ key = Key(st)) => NamedList(q, key) = NamedList(p, key)

Known == AvCmds \cup XpermCmds \cup TransCmds \cup NewNames \cup {"permissive", "enforce"}

\* What a policy is like in which a statement is in force.
Carried(pol, st) ==
  /\ st.cmd \in Known
  /\ st.cmd = "allow" =>
       /\ Tuples(pol, st, FALSE) \subseteq pol.allow
       /\ All \in {st.s, st.t} => \A n \in pol.names \ pol.attrs : Reach(pol, n) # {n}
  /\ st.cmd = "deny" => Tuples(pol, st, TRUE) \cap pol.allow = {}
  /\ st.cmd = "auditallow" => Tuples(pol, st, FALSE) \subseteq pol.audit
  /\ st.cmd = "dontaudit" => Tuples(pol, st, FALSE) \subseteq pol.noaudit
  /\ st.cmd \in XpermCmds =>
       \A k \in Keys(pol, st, FALSE) : <<st.cmd, k[1], k[2], k[3], st.p>> \in pol.xperm
  /\ NamedRule(st) => NamedDefault(pol, st) = {st.p}
  /\ Plain(st) => <<st.cmd, st.s, st.t, st.c, st.p>> \in pol.trans
  /\ st.cmd \in {"type", "typeattribute"} => <<st.s, st.t>> \in pol.has
  /\ st.cmd = "attribute" => st.s \in pol.attrs
  /\ st.cmd = "permissive" => st.s \in pol.permissive
  /\ st.cmd = "enforce" => st.s \notin pol.permissive

\* Nothing moves when nothing changes.
LEMMA MovedNot ==
  ASSUME NEW p, NEW st
  PROVE  Moved(p, p, st)
BY DEF Moved

\* A part that is set moves as far as its command may.
LEMMA MovedPart ==
  ASSUME NEW p, IsPolicy(p), NEW st, NEW X
  PROVE  /\ st.cmd = "allow" /\ p.allow \subseteq X => Moved(p, [p EXCEPT !.allow = X], st)
         /\ st.cmd = "deny" /\ X \subseteq p.allow => Moved(p, [p EXCEPT !.allow = X], st)
         /\ p.audit \subseteq X => Moved(p, [p EXCEPT !.audit = X], st)
         /\ p.noaudit \subseteq X => Moved(p, [p EXCEPT !.noaudit = X], st)
         /\ p.xperm \subseteq X => Moved(p, [p EXCEPT !.xperm = X], st)
         /\ st.cmd = "permissive" /\ p.permissive \subseteq X => Moved(p, [p EXCEPT !.permissive = X], st)
         /\ st.cmd = "enforce" /\ X \subseteq p.permissive => Moved(p, [p EXCEPT !.permissive = X], st)
         /\ st.cmd \in NewNames /\ p.has \subseteq X => Moved(p, [p EXCEPT !.has = X], st)
<1>1. st.cmd = "allow" /\ p.allow \subseteq X => Moved(p, [p EXCEPT !.allow = X], st)
  BY DEF Moved, IsPolicy, Parts, NamedList, NewNames
<1>2. st.cmd = "deny" /\ X \subseteq p.allow => Moved(p, [p EXCEPT !.allow = X], st)
  BY DEF Moved, IsPolicy, Parts, NamedList, NewNames
<1>3. p.audit \subseteq X => Moved(p, [p EXCEPT !.audit = X], st)
  BY DEF Moved, IsPolicy, Parts, NamedList, NewNames
<1>4. p.noaudit \subseteq X => Moved(p, [p EXCEPT !.noaudit = X], st)
  BY DEF Moved, IsPolicy, Parts, NamedList, NewNames
<1>5. p.xperm \subseteq X => Moved(p, [p EXCEPT !.xperm = X], st)
  BY DEF Moved, IsPolicy, Parts, NamedList, NewNames
<1>6. st.cmd = "permissive" /\ p.permissive \subseteq X => Moved(p, [p EXCEPT !.permissive = X], st)
  BY DEF Moved, IsPolicy, Parts, NamedList, NewNames
<1>7. st.cmd = "enforce" /\ X \subseteq p.permissive => Moved(p, [p EXCEPT !.permissive = X], st)
  BY DEF Moved, IsPolicy, Parts, NamedList, NewNames
<1>8. st.cmd \in NewNames /\ p.has \subseteq X => Moved(p, [p EXCEPT !.has = X], st)
  BY DEF Moved, IsPolicy, Parts, NamedList, NewNames
<1> QED  BY <1>1, <1>2, <1>3, <1>4, <1>5, <1>6, <1>7, <1>8

\* What is asked of a policy does not depend on parts that are not about names.
LEMMA SameNames ==
  ASSUME NEW p, NEW q, p.names = q.names, p.attrs = q.attrs, p.has = q.has, NEW st
  PROVE  /\ Tuples(p, st, FALSE) = Tuples(q, st, FALSE) /\ Tuples(p, st, TRUE) = Tuples(q, st, TRUE)
         /\ Keys(p, st, FALSE) = Keys(q, st, FALSE)
         /\ \A n : Reach(p, n) = Reach(q, n)
<1>1. Keys(p, st, FALSE) = Keys(q, st, FALSE)
  BY DEF Keys, Over
<1>2. \A n : Reach(p, n) = Reach(q, n)
  BY DEF Reach
<1> QED  BY <1>1, <1>2, SameTuples

\* What there is to say of a statement that is not silent.
LEMMA Spoken ==
  ASSUME NEW pol, NEW st, ~Silent(pol, st)
  PROVE  /\ st.cmd = "allow" /\ All \in {st.s, st.t} => \A n \in pol.names \ pol.attrs : Reach(pol, n) # {n}
         /\ st.cmd = "dontaudit" => \A x \in Tuples(pol, st, FALSE) : HasNode(pol, x)
         /\ st.cmd \in XpermCmds =>
              /\ st.p # Braced
              /\ \A k \in Keys(pol, st, FALSE) : ~SameDriver(pol, <<st.cmd, k[1], k[2], k[3], st.p>>)
         /\ NamedRule(st) => NamedList(pol, Key(st)) = <<>>
         /\ st.cmd = "attribute" => st.s \notin pol.names \ pol.attrs
<1>1. st.cmd = "dontaudit" => \A x \in Tuples(pol, st, FALSE) : HasNode(pol, x)
  BY Zenon DEF Silent
<1>2. st.cmd \in XpermCmds =>
        \A k \in Keys(pol, st, FALSE) : ~SameDriver(pol, <<st.cmd, k[1], k[2], k[3], st.p>>)
  BY Zenon DEF Silent
<1>3. st.cmd = "allow" /\ All \in {st.s, st.t} => \A n \in pol.names \ pol.attrs : Reach(pol, n) # {n}
  BY Zenon DEF Silent
<1> QED  BY <1>1, <1>2, <1>3 DEF Silent, NamedRule, Key

\* A statement that is carried out is in force in what it leaves, or silent.
Lands(p, r, st) == Moved(p, r.pol, st) /\ (r.ok /\ ~Silent(p, st) => Carried(r.pol, st))

\* A statement that fails has changed nothing.
LEMMA FailLands ==
  ASSUME NEW p, NEW st
  PROVE  Lands(p, Fail(p), st)
BY MovedNot, Results DEF Lands

\* A rule of the access vector table lands ...
LEMMA RuleLands ==
  ASSUME NEW p, IsPolicy(p), NEW st, st.cmd \in AvCmds
  PROVE  Lands(p, AddRule(p, st), st)
<1> DEFINE bad == ~Found(p, st) \/ (st.p # All /\ (st.c = All \/ st.p \notin PermsOf[st.c]))
<1>1. CASE bad
  <2>1. AddRule(p, st) = Fail(p)
    BY <1>1, Zenon DEF AddRule
  <2> QED  BY <2>1, FailLands
<1>2. CASE ~bad
  <2> PICK A, D, X : A = Tuples(p, st, FALSE) /\ D = Tuples(p, st, TRUE)
                     /\ X = {x \in Tuples(p, st, FALSE) : HasNode(p, x)}
    OBVIOUS
  <2> PICK new : new = CASE st.cmd = "allow"      -> [p EXCEPT !.allow = p.allow \cup A]
                         [] st.cmd = "deny"       -> [p EXCEPT !.allow = p.allow \ D]
                         [] st.cmd = "auditallow" -> [p EXCEPT !.audit = p.audit \cup A]
                         [] st.cmd = "dontaudit"  -> [p EXCEPT !.noaudit = p.noaudit \cup X]
    OBVIOUS
  <2>1. AddRule(p, st) = Done(new)
    BY <1>2, Zenon DEF AddRule, Cleared
  <2>2. AddRule(p, st).ok /\ AddRule(p, st).pol = new
    BY <2>1, Results
  <2>3. st.cmd \in Known /\ ~NamedRule(st) /\ ~Plain(st) /\ st.cmd \notin XpermCmds
    BY DEF Known, NamedRule, Plain, AvCmds, XpermCmds, TransCmds
  <2>4. CASE st.cmd = "allow"
    <3> PICK Y : Y = p.allow \cup A
      OBVIOUS
    <3>1. new = [p EXCEPT !.allow = Y]
      BY <2>4
    <3>2. Moved(p, new, st)
      <4>1. p.allow \subseteq Y
        OBVIOUS
      <4>2. Moved(p, [p EXCEPT !.allow = Y], st)
        BY <2>4, <4>1, MovedPart
      <4> QED  BY <3>1, <4>2
    <3>3. new.allow = Y /\ new.names = p.names /\ new.attrs = p.attrs /\ new.has = p.has
      BY <3>1 DEF IsPolicy, Parts
    <3>4. Tuples(new, st, FALSE) = A /\ \A n : Reach(new, n) = Reach(p, n)
      BY <3>3, SameNames
    <3>5. ~Silent(p, st) => Carried(new, st)
      BY <2>3, <2>4, <3>3, <3>4, Spoken DEF Carried
    <3> QED  BY <2>2, <3>2, <3>5 DEF Lands
  <2>5. CASE st.cmd = "deny"
    <3> PICK Y : Y = p.allow \ D
      OBVIOUS
    <3>1. new = [p EXCEPT !.allow = Y]
      BY <2>5
    <3>2. Moved(p, new, st)
      <4>1. Y \subseteq p.allow
        OBVIOUS
      <4>2. Moved(p, [p EXCEPT !.allow = Y], st)
        BY <2>5, <4>1, MovedPart
      <4> QED  BY <3>1, <4>2
    <3>3. new.allow = Y /\ new.names = p.names /\ new.attrs = p.attrs /\ new.has = p.has
      BY <3>1 DEF IsPolicy, Parts
    <3>4. Tuples(new, st, TRUE) = D
      BY <3>3, SameNames
    <3>5. Carried(new, st)
      BY <2>3, <2>5, <3>3, <3>4 DEF Carried
    <3> QED  BY <2>2, <3>2, <3>5 DEF Lands
  <2>6. CASE st.cmd = "auditallow"
    <3> PICK Y : Y = p.audit \cup A
      OBVIOUS
    <3>1. new = [p EXCEPT !.audit = Y]
      BY <2>6
    <3>2. Moved(p, new, st)
      <4>1. p.audit \subseteq Y
        OBVIOUS
      <4>2. Moved(p, [p EXCEPT !.audit = Y], st)
        BY <4>1, MovedPart
      <4> QED  BY <3>1, <4>2
    <3>3. new.audit = Y /\ new.names = p.names /\ new.attrs = p.attrs /\ new.has = p.has
      BY <3>1 DEF IsPolicy, Parts
    <3>4. Tuples(new, st, FALSE) = A
      BY <3>3, SameNames
    <3>5. Carried(new, st)
      BY <2>3, <2>6, <3>3, <3>4 DEF Carried
    <3> QED  BY <2>2, <3>2, <3>5 DEF Lands
  <2>7. CASE st.cmd = "dontaudit"
    <3> PICK Y : Y = p.noaudit \cup X
      OBVIOUS
    <3>1. new = [p EXCEPT !.noaudit = Y]
      BY <2>7
    <3>2. Moved(p, new, st)
      <4>1. p.noaudit \subseteq Y
        OBVIOUS
      <4>2. Moved(p, [p EXCEPT !.noaudit = Y], st)
        BY <4>1, MovedPart
      <4> QED  BY <3>1, <4>2
    <3>3. new.noaudit = Y /\ new.names = p.names /\ new.attrs = p.attrs /\ new.has = p.has
      BY <3>1 DEF IsPolicy, Parts
    <3>4. Tuples(new, st, FALSE) = A
      BY <3>3, SameNames
    <3>5. ~Silent(p, st) => A \subseteq X
      BY <2>7, Spoken
    <3>6. ~Silent(p, st) => Carried(new, st)
      BY <2>3, <2>7, <3>3, <3>4, <3>5 DEF Carried
    <3> QED  BY <2>2, <3>2, <3>6 DEF Lands
  <2> QED  BY <2>4, <2>5, <2>6, <2>7 DEF AvCmds
<1> QED  BY <1>1, <1>2

\* ... and so does one of extended permissions, whatever was on the stack ...
LEMMA XpermLands ==
  ASSUME NEW p, IsPolicy(p), NEW st, st.cmd \in XpermCmds, NEW garbage
  PROVE  Lands(p, AddXperm(p, st, garbage), st)
<1>1. CASE ~Found(p, st)
  <2>1. AddXperm(p, st, garbage) = Fail(p)
    BY <1>1, Zenon DEF AddXperm
  <2> QED  BY <2>1, FailLands
<1>2. CASE Found(p, st)
  <2> PICK new : new = {<<st.cmd, k[1], k[2], k[3], IF st.p = Braced THEN garbage ELSE st.p>> :
                        k \in Keys(p, st, FALSE)}
    OBVIOUS
  <2> PICK Y : Y = p.xperm \cup {x \in new : ~SameDriver(p, x)}
    OBVIOUS
  <2> PICK q : q = [p EXCEPT !.xperm = Y]
    OBVIOUS
  <2>1. AddXperm(p, st, garbage) = Done(q)
    BY <1>2, Zenon DEF AddXperm
  <2>2. Moved(p, q, st)
    BY MovedPart
  <2>3. q.xperm = Y /\ q.names = p.names /\ q.attrs = p.attrs /\ q.has = p.has
    BY DEF IsPolicy, Parts
  <2>4. Keys(q, st, FALSE) = Keys(p, st, FALSE)
    BY <2>3, SameNames
  <2>5. ASSUME ~Silent(p, st), NEW k \in Keys(p, st, FALSE)
        PROVE  <<st.cmd, k[1], k[2], k[3], st.p>> \in Y
    <3> PICK x : x = <<st.cmd, k[1], k[2], k[3], st.p>>
      OBVIOUS
    <3>1. st.p # Braced /\ ~SameDriver(p, x)
      BY <2>5, Spoken
    <3>2. x \in new
      BY <3>1
    <3> QED  BY <3>1, <3>2
  <2>6. st.cmd \in Known /\ ~NamedRule(st) /\ ~Plain(st) /\ st.cmd \notin AvCmds
        /\ st.cmd \notin NewNames \cup {"permissive", "enforce"}
    BY DEF Known, NamedRule, Plain, AvCmds, XpermCmds, TransCmds, NewNames
  <2>7. ~Silent(p, st) => Carried(q, st)
    BY <2>3, <2>4, <2>5, <2>6 DEF Carried, AvCmds, NewNames
  <2> QED  BY <2>1, <2>2, <2>7, Results DEF Lands
<1> QED  BY <1>1, <1>2

\* ... a type rule, which replaces the one of its key ...
LEMMA TypeRuleLands ==
  ASSUME NEW p, IsPolicy(p), NEW st, Plain(st)
  PROVE  Lands(p, AddTypeRule(p, st), st)
<1> DEFINE bad == ~Found(p, st) \/ st.p \notin p.names
<1>1. CASE bad
  <2>1. AddTypeRule(p, st) = Fail(p)
    BY <1>1, Zenon DEF AddTypeRule
  <2> QED  BY <2>1, FailLands
<1>2. CASE ~bad
  <2> PICK y, Y : y = <<st.cmd, st.s, st.t, st.c, st.p>> /\
                  Y = {x \in p.trans : SubSeq(x, 1, 4) # <<st.cmd, st.s, st.t, st.c>>} \cup {y}
    OBVIOUS
  <2> PICK q : q = [p EXCEPT !.trans = Y]
    OBVIOUS
  <2>1. AddTypeRule(p, st) = Done(q)
    BY <1>2, Zenon DEF AddTypeRule
  <2>2. /\ q.trans = Y /\ q.names = p.names /\ q.attrs = p.attrs /\ q.has = p.has /\ q.allow = p.allow
        /\ q.audit = p.audit /\ q.noaudit = p.noaudit /\ q.xperm = p.xperm
        /\ q.permissive = p.permissive /\ q.named = p.named
    BY DEF IsPolicy, Parts
  <2>3. \A key : NamedList(q, key) = NamedList(p, key)
    BY <2>2 DEF NamedList
  <2>4. Moved(p, q, st)
    BY <2>2, <2>3 DEF Moved
  <2>5. st.cmd \in Known /\ ~NamedRule(st) /\ st.cmd \notin AvCmds
        /\ st.cmd \notin XpermCmds /\ st.cmd \notin NewNames \cup {"permissive", "enforce"}
    BY DEF Known, NamedRule, Plain, AvCmds, XpermCmds, TransCmds, NewNames
  <2>6. Carried(q, st)
    BY <2>2, <2>5 DEF Carried, AvCmds, NewNames
  <2> QED  BY <2>1, <2>4, <2>6, Results DEF Lands
<1> QED  BY <1>1, <1>2

\* ... a named one, where there was none for its key ...
LEMMA FilenameTransLands ==
  ASSUME NEW p, IsPolicy(p), NEW st, NamedRule(st)
  PROVE  Lands(p, AddFilenameTrans(p, st), st)
<1> DEFINE bad == ~Found(p, st) \/ st.p \notin p.names
<1>1. CASE bad
  <2>1. AddFilenameTrans(p, st) = Fail(p)
    BY <1>1, Zenon DEF AddFilenameTrans
  <2> QED  BY <2>1, FailLands
<1>2. CASE ~bad
  <2> DEFINE key == <<st.t, st.c, st.o>>
  <2> PICK first : first = <<[from |-> {st.s}, to |-> st.p]>>
    OBVIOUS
  <2>1. PICK new : /\ NamedList(p, key) = <<>> => new = first
                   /\ AddFilenameTrans(p, st) =
                        Done([p EXCEPT !.named = [k \in DOMAIN p.named \cup {key} |->
                                                    IF k = key THEN new ELSE p.named[k]]])
    <3> DEFINE list == NamedList(p, key)
               hits == {i \in DOMAIN list : st.s \in list[i].from \/ list[i].to = st.p}
               i == CHOOSE m \in hits : \A n \in hits : m <= n
               new == IF list = <<>> THEN <<[from |-> {st.s}, to |-> st.p]>>
                      ELSE IF hits = {} THEN list
                      ELSE IF st.s \in list[i].from THEN [list EXCEPT ![i].to = st.p]
                      ELSE [list EXCEPT ![i].from = list[i].from \cup {st.s}]
    <3>1. AddFilenameTrans(p, st) =
            Done([p EXCEPT !.named = [k \in DOMAIN p.named \cup {key} |->
                                        IF k = key THEN new ELSE p.named[k]]])
      BY <1>2, Zenon DEF AddFilenameTrans
    <3>2. NamedList(p, key) = <<>> => new = first
      BY Zenon
    <3> HIDE DEF new
    <3> QED  BY <3>1, <3>2
  <2> PICK Y : Y = [k \in DOMAIN p.named \cup {key} |-> IF k = key THEN new ELSE p.named[k]]
    OBVIOUS
  <2> PICK q : q = [p EXCEPT !.named = Y]
    OBVIOUS
  <2>2. /\ q.named = Y /\ q.names = p.names /\ q.attrs = p.attrs /\ q.has = p.has /\ q.allow = p.allow
        /\ q.audit = p.audit /\ q.noaudit = p.noaudit /\ q.xperm = p.xperm
        /\ q.permissive = p.permissive /\ q.trans = p.trans
    BY DEF IsPolicy, Parts
  <2>3. NamedList(q, key) = new /\ \A k : k # key => NamedList(q, k) = NamedList(p, k)
    BY <2>2 DEF NamedList
  <2>4. Moved(p, q, st)
    BY <2>2, <2>3 DEF Moved, Key
  <2>5. /\ st.cmd \in Known /\ ~Plain(st) /\ st.cmd \notin AvCmds
        /\ st.cmd \notin XpermCmds /\ st.cmd \notin NewNames \cup {"permissive", "enforce"}
    BY DEF Known, NamedRule, Plain, AvCmds, XpermCmds, TransCmds, NewNames
  <2>6. ASSUME ~Silent(p, st)
        PROVE  NamedDefault(q, st) = {st.p}
    <3> DEFINE list == NamedList(q, key)
               hits == {i \in DOMAIN list : st.s \in list[i].from}
               least == CHOOSE i \in hits : \A j \in hits : i <= j
    <3>1. list = first
      BY <2>1, <2>3, <2>6, Spoken DEF Key
    <3>2. /\ DOMAIN first = {1} /\ first[1] = [from |-> {st.s}, to |-> st.p]
          /\ first[1].from = {st.s} /\ first[1].to = st.p
      OBVIOUS
    <3>3. NamedDefault(q, st) = {list[least].to : h \in hits}
      BY Zenon DEF NamedDefault
    <3> HIDE DEF list
    <3>4. hits = {1}
      BY <3>1, <3>2
    <3> HIDE DEF hits
    <3>5. least = 1
      <4>1. \E i \in hits : \A j \in hits : i <= j
        BY <3>4
      <4>2. least \in hits
        BY <4>1
      <4> QED  BY <3>4, <4>2
    <3> HIDE DEF least
    <3> QED  BY <3>1, <3>2, <3>3, <3>4, <3>5
  <2>7. ~Silent(p, st) => Carried(q, st)
    BY <2>2, <2>5, <2>6 DEF Carried, AvCmds, NewNames
  <2> QED  BY <2>1, <2>4, <2>7, Results DEF Lands
<1> QED  BY <1>1, <1>2

\* A new name moves nothing but names.
LEMMA NameMoves ==
  ASSUME NEW p, IsPolicy(p), NEW st, st.cmd \in NewNames, NEW n, NEW attr \in BOOLEAN,
         NEW q, q = AddType(p, n, attr)
  PROVE  IsPolicy(q) /\ Moved(p, q, st) /\ (attr /\ n \notin p.names \ p.attrs => n \in q.attrs)
<1>1. CASE n \in p.names
  <2>1. q = p
    BY <1>1 DEF AddType
  <2> QED  BY <1>1, <2>1, MovedNot
<1>2. CASE n \notin p.names
  <2> PICK A, B : A = p.names \cup {n} /\ B = IF attr THEN p.attrs \cup {n} ELSE p.attrs
    OBVIOUS
  <2>1. q = [p EXCEPT !.names = A, !.attrs = B]
    BY <1>2 DEF AddType, IsPolicy, Parts
  <2>2. /\ q.named = p.named /\ q.names = A /\ q.attrs = B /\ q.has = p.has /\ q.allow = p.allow
        /\ q.audit = p.audit /\ q.noaudit = p.noaudit /\ q.xperm = p.xperm
        /\ q.permissive = p.permissive /\ q.trans = p.trans /\ IsPolicy(q)
    BY <2>1 DEF IsPolicy, Parts
  <2>3. \A key : NamedList(q, key) = NamedList(p, key)
    BY <2>2 DEF NamedList
  <2>4. p.attrs \subseteq B /\ (attr => n \in B)
    OBVIOUS
  <2>5. Moved(p, q, st)
    BY <2>2, <2>3, <2>4 DEF Moved
  <2> QED  BY <2>2, <2>4, <2>5
<1> QED  BY <1>1, <1>2

\* ... an attribute given to a type ...
LEMMA TypeAttributeLands ==
  ASSUME NEW p, IsPolicy(p), NEW st, st.cmd \in {"type", "typeattribute"}
  PROVE  Lands(p, AddTypeAttribute(p, st), st)
<1> PICK Y : Y = p.has \cup {<<st.s, st.t>>}
  OBVIOUS
<1> PICK q : q = [p EXCEPT !.has = Y]
  OBVIOUS
<1>1. AddTypeAttribute(p, st) = Done(q) \/ AddTypeAttribute(p, st) = Fail(p)
  BY Zenon DEF AddTypeAttribute
<1>2. Moved(p, q, st)
  <2>1. p.has \subseteq Y /\ st.cmd \in NewNames
    BY DEF NewNames
  <2>2. Moved(p, [p EXCEPT !.has = Y], st)
    BY <2>1, MovedPart
  <2> QED  BY <2>2
<1>3. q.has = Y
  BY DEF IsPolicy, Parts
<1>4. Carried(q, st)
  BY <1>3 DEF Carried, Known, NamedRule, Plain, AvCmds, XpermCmds, TransCmds, NewNames
<1>5. Lands(p, Done(q), st)
  BY <1>2, <1>4, Results DEF Lands
<1> QED  BY <1>1, <1>5, FailLands

\* ... a type declared with an attribute ...
LEMMA TypeLands ==
  ASSUME NEW p, IsPolicy(p), NEW st, st.cmd = "type"
  PROVE  Lands(p, AddTypeAttribute(AddType(p, st.s, FALSE), st), st)
<1>0. ASSUME NEW v, IsPolicy(v)
      PROVE  Lands(v, AddTypeAttribute(v, st), st)
  BY <1>0, TypeAttributeLands
<1> PICK u : u = AddType(p, st.s, FALSE)
  OBVIOUS
<1> PICK e : e = AddTypeAttribute(u, st)
  OBVIOUS
<1>1. IsPolicy(u) /\ Moved(p, u, st)
  <2>1. st.cmd \in NewNames
    BY DEF NewNames
  <2> PICK attr \in BOOLEAN : attr = FALSE
    OBVIOUS
  <2>2. u = AddType(p, st.s, attr)
    BY Zenon
  <2> QED  BY <2>1, <2>2, NameMoves
<1>2. Lands(u, e, st)
  <2>1. IsPolicy(u)
    BY <1>1
  <2>2. Lands(u, AddTypeAttribute(u, st), st)
    BY <1>0, <2>1
  <2> QED  BY <2>2, Zenon
<1>3. Moved(u, e.pol, st) /\ (e.ok => Carried(e.pol, st))
  <2>1. ~Silent(u, st)
    BY DEF Silent, XpermCmds
  <2> QED  BY <1>2, <2>1, Zenon DEF Lands
<1> PICK q : q = e.pol
  OBVIOUS
<1>4. \A key : ~(NamedRule(st) /\ key = Key(st)) => NamedList(q, key) = NamedList(p, key)
  BY <1>1, <1>3 DEF Moved
<1>5. \A x \in p.trans : ~(Plain(st) /\ SubSeq(x, 1, 4) = <<st.cmd, st.s, st.t, st.c>>) => x \in q.trans
  BY <1>1, <1>3 DEF Moved
<1>6. Moved(p, q, st)
  BY <1>1, <1>3, <1>4, <1>5 DEF Moved, NewNames
<1>7. Lands(p, e, st)
  BY <1>3, <1>6 DEF Lands
<1> QED  BY <1>7, Zenon

\* ... and a domain made permissive or not.
LEMMA TypeStateLands ==
  ASSUME NEW p, IsPolicy(p), NEW st, st.cmd \in {"permissive", "enforce"}
  PROVE  Lands(p, SetTypeState(p, st), st)
<1>1. CASE st.s \notin p.names
  <2>1. SetTypeState(p, st) = Fail(p)
    BY <1>1, Zenon DEF SetTypeState
  <2> QED  BY <2>1, FailLands
<1>2. CASE st.s \in p.names
  <2> PICK Y : Y = IF st.cmd = "permissive" THEN p.permissive \cup {st.s} ELSE p.permissive \ {st.s}
    OBVIOUS
  <2> PICK q : q = [p EXCEPT !.permissive = Y]
    OBVIOUS
  <2>1. SetTypeState(p, st) = Done(q)
    BY <1>2, Zenon DEF SetTypeState
  <2>2. q.permissive = Y
    BY DEF IsPolicy, Parts
  <2>3. Moved(p, q, st)
    <3>1. /\ st.cmd = "permissive" => p.permissive \subseteq Y
          /\ st.cmd = "enforce" => Y \subseteq p.permissive
      OBVIOUS
    <3>2. Moved(p, [p EXCEPT !.permissive = Y], st)
      BY <3>1, MovedPart
    <3> QED  BY <3>2
  <2>4. Carried(q, st)
    <3>1. (st.cmd = "permissive" => st.s \in Y) /\ (st.cmd = "enforce" => st.s \notin Y)
      OBVIOUS
    <3>2. ~NamedRule(st) /\ ~Plain(st) /\ st.cmd \notin AvCmds \cup XpermCmds \cup NewNames /\ st.cmd \in Known
      BY DEF Known, NamedRule, Plain, AvCmds, XpermCmds, TransCmds, NewNames
    <3> QED  BY <2>2, <3>1, <3>2 DEF Carried, AvCmds, NewNames
  <2> QED  BY <2>1, <2>3, <2>4, Results DEF Lands
<1> QED  BY <1>1, <1>2

\* So does every statement, and nobody is ever named All.
LEMMA ApplyLands ==
  ASSUME NEW p, IsPolicy(p), NEW st, NEW garbage
  PROVE  Lands(p, Apply(p, st, garbage), st)
<1> DEFINE r == Apply(p, st, garbage)
<1>1. CASE All \in Required(st)
  <2>1. r = Fail(p)  BY <1>1, Zenon DEF Apply
  <2> QED  BY <2>1, FailLands
<1>2. CASE All \notin Required(st)
  <2> PICK a, b, c, d, e, f, g, h :
         /\ a = AddRule(p, st) /\ b = AddXperm(p, st, garbage) /\ c = AddFilenameTrans(p, st)
         /\ d = AddTypeRule(p, st) /\ e = AddTypeAttribute(AddType(p, st.s, FALSE), st)
         /\ f = Done(AddType(p, st.s, TRUE)) /\ g = AddTypeAttribute(p, st)
         /\ h = SetTypeState(p, st)
    OBVIOUS
  <2>1. r = CASE st.cmd \in AvCmds -> a
             [] st.cmd \in XpermCmds -> b
             [] st.cmd = "type_transition" /\ st.o # All -> c
             [] st.cmd \in TransCmds /\ (st.cmd # "type_transition" \/ st.o = All) -> d
             [] st.cmd = "type" -> e
             [] st.cmd = "attribute" -> f
             [] st.cmd = "typeattribute" -> g
             [] st.cmd \in {"permissive", "enforce"} -> h
             [] OTHER -> Fail(p)
    BY <1>2, Zenon DEF Apply
  <2> HIDE DEF r
  <2>2. \/ st.cmd \in AvCmds /\ r = a
        \/ st.cmd \in XpermCmds /\ r = b
        \/ NamedRule(st) /\ r = c
        \/ Plain(st) /\ r = d
        \/ st.cmd = "type" /\ r = e
        \/ st.cmd = "attribute" /\ r = f
        \/ st.cmd = "typeattribute" /\ r = g
        \/ st.cmd \in {"permissive", "enforce"} /\ r = h
        \/ r = Fail(p)
    BY <2>1 DEF AvCmds, XpermCmds, TransCmds, NamedRule, Plain
  <2>3. st.cmd = "type" => Lands(p, e, st)
    BY TypeLands
  <2>4. ASSUME st.cmd = "attribute"
        PROVE  Lands(p, f, st)
    <3> PICK q : q = AddType(p, st.s, TRUE)
      OBVIOUS
    <3>1. Moved(p, q, st) /\ (st.s \notin p.names \ p.attrs => st.s \in q.attrs)
      <4>1. st.cmd \in NewNames
        BY <2>4 DEF NewNames
      <4> PICK attr \in BOOLEAN : attr = TRUE
        OBVIOUS
      <4>2. q = AddType(p, st.s, attr)
        BY Zenon
      <4> QED  BY <4>1, <4>2, NameMoves
    <3>2. ~Silent(p, st) => Carried(q, st)
      BY <2>4, <3>1, Spoken
         DEF Carried, Known, NamedRule, Plain, AvCmds, XpermCmds, TransCmds, NewNames
    <3> QED  BY <3>1, <3>2, Results DEF Lands
  <2>5. st.cmd = "typeattribute" => Lands(p, g, st)
    BY TypeAttributeLands
  <2>6. /\ st.cmd \in AvCmds => Lands(p, a, st)
        /\ st.cmd \in XpermCmds => Lands(p, b, st)
        /\ NamedRule(st) => Lands(p, c, st)
        /\ Plain(st) => Lands(p, d, st)
        /\ st.cmd \in {"permissive", "enforce"} => Lands(p, h, st)
        /\ Lands(p, Fail(p), st)
    BY RuleLands, XpermLands, FilenameTransLands, TypeRuleLands, TypeStateLands, FailLands
  <2> QED  BY <2>2, <2>3, <2>4, <2>5, <2>6 DEF r
<1> QED  BY <1>1, <1>2

\* What is in force stays so under a statement that does not override it.
LEMMA CarriedStays ==
  ASSUME NEW p, NEW q, NEW st, NEW b, Carried(p, st), Moved(p, q, b), ~Overrides(b, st)
  PROVE  Carried(q, st)
<1>1. /\ p.has \subseteq q.has /\ p.attrs \subseteq q.attrs /\ p.audit \subseteq q.audit
      /\ p.noaudit \subseteq q.noaudit /\ p.xperm \subseteq q.xperm
      /\ b.cmd \notin NewNames => q.names = p.names /\ q.attrs = p.attrs /\ q.has = p.has
      /\ b.cmd # "deny" => p.allow \subseteq q.allow
      /\ b.cmd # "allow" => q.allow \subseteq p.allow
      /\ b.cmd # "enforce" => p.permissive \subseteq q.permissive
      /\ b.cmd # "permissive" => q.permissive \subseteq p.permissive
  BY DEF Moved
<1>2. /\ st.cmd = "allow" => b.cmd # "deny"
      /\ st.cmd = "deny" => b.cmd # "allow"
      /\ st.cmd = "permissive" => b.cmd # "enforce"
      /\ st.cmd = "enforce" => b.cmd # "permissive"
      /\ st.cmd \in AvCmds \cup XpermCmds /\ All \in {st.s, st.t} => b.cmd \notin NewNames
  BY DEF Overrides, NewNames
<1>3. ASSUME st.cmd \in AvCmds \cup XpermCmds
      PROVE  /\ Tuples(p, st, FALSE) = Tuples(q, st, FALSE)
             /\ Tuples(p, st, TRUE) = Tuples(q, st, TRUE)
             /\ Keys(p, st, FALSE) = Keys(q, st, FALSE)
  <2>1. CASE All \in {st.s, st.t}
    BY <1>1, <1>2, <1>3, <2>1, SameNames
  <2>2. CASE All \notin {st.s, st.t}
    <3>1. Keys(p, st, FALSE) = Keys(q, st, FALSE) /\ Keys(p, st, TRUE) = Keys(q, st, TRUE)
      BY <2>2 DEF Keys, Over
    <3> QED  BY <3>1, Zenon DEF Tuples
  <2> QED  BY <2>1, <2>2
<1>4. ASSUME st.cmd = "allow", All \in {st.s, st.t}, NEW n \in q.names \ q.attrs
      PROVE  Reach(q, n) # {n}
  <2>1. q.names = p.names /\ q.attrs = p.attrs /\ q.has = p.has
    BY <1>1, <1>2, <1>4 DEF AvCmds
  <2>2. Reach(q, n) = Reach(p, n)
    BY <2>1, SameNames
  <2> QED  BY <1>4, <2>1, <2>2 DEF Carried
<1>5. ASSUME NamedRule(st)
      PROVE  NamedDefault(q, st) = {st.p}
  <2>1. ~(NamedRule(b) /\ Key(st) = Key(b))
    BY <1>5 DEF Overrides, NamedRule, Key, TransCmds
  <2>2. NamedList(q, <<st.t, st.c, st.o>>) = NamedList(p, <<st.t, st.c, st.o>>)
    BY <2>1 DEF Moved, Key
  <2>3. NamedDefault(q, st) = NamedDefault(p, st)
    BY <2>2, Zenon DEF NamedDefault
  <2> QED  BY <1>5, <2>3 DEF Carried
<1>6. ASSUME Plain(st)
      PROVE  <<st.cmd, st.s, st.t, st.c, st.p>> \in q.trans
  <2> PICK x, y : x = <<st.cmd, st.s, st.t, st.c, st.p>> /\ y = <<b.cmd, b.s, b.t, b.c>>
    OBVIOUS
  <2>1. ASSUME SubSeq(x, 1, 4) = y
        PROVE  st.cmd = b.cmd /\ st.s = b.s /\ st.t = b.t /\ st.c = b.c
    <3> PICK z : z = SubSeq(x, 1, 4)
      OBVIOUS
    <3>1. z = [i \in 1..4 |-> x[i]]
      OBVIOUS
    <3>2. z[1] = x[1] /\ z[2] = x[2] /\ z[3] = x[3] /\ z[4] = x[4]
      BY <3>1
    <3>3. y = z
      BY <2>1
    <3>4. y[1] = x[1] /\ y[2] = x[2] /\ y[3] = x[3] /\ y[4] = x[4]
      BY <3>2, <3>3, Zenon
    <3> QED  BY <3>4
  <2>2. ~(Plain(b) /\ SubSeq(x, 1, 4) = y)
    BY <1>6, <2>1 DEF Overrides, Plain
  <2> QED  BY <1>6, <2>2 DEF Moved, Carried
<1>7. /\ st.cmd = "allow" => Tuples(q, st, FALSE) \subseteq q.allow
      /\ st.cmd = "deny" => Tuples(q, st, TRUE) \cap q.allow = {}
      /\ st.cmd = "auditallow" => Tuples(q, st, FALSE) \subseteq q.audit
      /\ st.cmd = "dontaudit" => Tuples(q, st, FALSE) \subseteq q.noaudit
      /\ st.cmd \in XpermCmds =>
           \A k \in Keys(q, st, FALSE) : <<st.cmd, k[1], k[2], k[3], st.p>> \in q.xperm
  <2>1. st.cmd = "allow" => Tuples(q, st, FALSE) \subseteq q.allow
    BY <1>1, <1>2, <1>3 DEF Carried, AvCmds
  <2>2. st.cmd = "deny" => Tuples(q, st, TRUE) \cap q.allow = {}
    BY <1>1, <1>2, <1>3 DEF Carried, AvCmds
  <2>3. st.cmd = "auditallow" => Tuples(q, st, FALSE) \subseteq q.audit
    BY <1>1, <1>3 DEF Carried, AvCmds
  <2>4. st.cmd = "dontaudit" => Tuples(q, st, FALSE) \subseteq q.noaudit
    BY <1>1, <1>3 DEF Carried, AvCmds
  <2>5. st.cmd \in XpermCmds =>
           \A k \in Keys(q, st, FALSE) : <<st.cmd, k[1], k[2], k[3], st.p>> \in q.xperm
    BY <1>1, <1>3 DEF Carried
  <2> QED  BY <2>1, <2>2, <2>3, <2>4, <2>5
<1>8. /\ st.cmd \in {"type", "typeattribute"} => <<st.s, st.t>> \in q.has
      /\ st.cmd = "attribute" => st.s \in q.attrs
      /\ st.cmd = "permissive" => st.s \in q.permissive
      /\ st.cmd = "enforce" => st.s \notin q.permissive
      /\ st.cmd \in Known
  BY <1>1, <1>2 DEF Carried
<1> QED  BY <1>4, <1>5, <1>6, <1>7, <1>8 DEF Carried

\* The permissions a statement speaks of in a class.
PermsIn(st, c) == IF st.p = All THEN PermsOf[c] ELSE {st.p}

IsTuple(pol, st, strip, x) ==
  \E k \in Keys(pol, st, strip) : \E p : p \in PermsIn(st, k[3]) /\ x = <<k[1], k[2], k[3], p>>

\* The tuples of a statement are those of its names, its classes and its
\* permissions.
LEMMA WhatTuples ==
  ASSUME NEW pol, NEW st, NEW strip, NEW x
  PROVE  x \in Tuples(pol, st, strip) <=> IsTuple(pol, st, strip, x)
<1>1. Tuples(pol, st, strip) =
        UNION {{<<k[1], k[2], k[3], p>> : p \in PermsIn(st, k[3])} : k \in Keys(pol, st, strip)}
  BY Zenon DEF Tuples, PermsIn
<1> QED  BY <1>1 DEF IsTuple

\* A type that a name speaks of has a name the rules were added under.
LEMMA MemberReaches ==
  ASSUME NEW pol, All \notin pol.names, NEW n,
         n = All => \A m \in pol.names \ pol.attrs : Reach(pol, m) # {m},
         NEW m \in Members(pol, n)
  PROVE  m # All /\ \E a \in Reach(pol, m) : a \in Over(pol, n, FALSE)
<1>1. CASE n = All
  <2>1. m \in pol.names \ pol.attrs
    BY <1>1 DEF Members
  <2>2. Reach(pol, m) # {m} /\ m \in Reach(pol, m)
    BY <1>1, <2>1 DEF Reach
  <2>3. PICK a \in Reach(pol, m) : a # m
    BY <2>2
  <2>4. a \in pol.attrs
    BY <2>3 DEF Reach
  <2> QED  BY <1>1, <2>1, <2>4 DEF Over
<1>2. CASE n # All /\ n \in pol.attrs
  <2>1. m \in pol.names /\ <<m, n>> \in pol.has
    BY <1>2 DEF Members
  <2>2. n \in Reach(pol, m)
    BY <1>2, <2>1 DEF Reach
  <2> QED  BY <1>2, <2>1, <2>2 DEF Over
<1>3. CASE n # All /\ n \notin pol.attrs
  <2>1. m = n
    BY <1>3 DEF Members
  <2> QED  BY <1>3, <2>1 DEF Reach, Over
<1> QED  BY <1>1, <1>2, <1>3

\* So the policy allows what an allow statement in force says ...
LEMMA AllowSays ==
  ASSUME NEW pol, All \notin pol.names, NEW st, st.cmd = "allow", Carried(pol, st)
  PROVE  Says(pol, st)
<1>1. Tuples(pol, st, FALSE) \subseteq pol.allow
  BY DEF Carried
<1>2. All \in {st.s, st.t} => \A n \in pol.names \ pol.attrs : Reach(pol, n) # {n}
  BY DEF Carried
<1>3. ASSUME NEW s \in Members(pol, st.s), NEW t \in Members(pol, st.t), NEW b,
             b = Statement("allow", s, t, st.c, st.p, st.o), NEW x \in Tuples(pol, b, FALSE)
      PROVE  InForce(pol, pol.allow, x)
  <2>1. s # All /\ \E a \in Reach(pol, s) : a \in Over(pol, st.s, FALSE)
    BY <1>2, MemberReaches
  <2>2. t # All /\ \E a \in Reach(pol, t) : a \in Over(pol, st.t, FALSE)
    BY <1>2, MemberReaches
  <2>3. PICK a \in Reach(pol, s) : a \in Over(pol, st.s, FALSE)
    BY <2>1
  <2>4. PICK d \in Reach(pol, t) : d \in Over(pol, st.t, FALSE)
    BY <2>2
  <2>5. b.s = s /\ b.t = t /\ b.c = st.c /\ b.p = st.p
    BY <1>3 DEF Statement
  <2>12. PICK k \in Keys(pol, b, FALSE) : \E p : p \in PermsIn(b, k[3]) /\ x = <<k[1], k[2], k[3], p>>
    <3>1. IsTuple(pol, b, FALSE, x)
      BY WhatTuples, Zenon
    <3> QED  BY <3>1, Zenon DEF IsTuple
  <2>6. PICK p : p \in PermsIn(b, k[3]) /\ x = <<k[1], k[2], k[3], p>>
    BY <2>12
  <2>7. k[1] = s /\ k[2] = t /\ k[3] \in ClassesOf(st)
    BY <2>1, <2>2, <2>5 DEF Keys, Over, ClassesOf
  <2> PICK key : key = <<a, d, k[3]>>
    OBVIOUS
  <2>8. key \in Keys(pol, st, FALSE) /\ key[1] = a /\ key[2] = d /\ key[3] = k[3]
    BY <2>3, <2>4, <2>7 DEF Keys
  <2>9. p \in PermsIn(st, key[3])
    BY <2>5, <2>6, <2>8 DEF PermsIn
  <2>10. <<key[1], key[2], key[3], p>> \in Tuples(pol, st, FALSE)
    BY <2>8, <2>9, WhatTuples DEF IsTuple
  <2>11. <<a, d, x[3], x[4]>> \in pol.allow /\ x[1] = s /\ x[2] = t
    BY <1>1, <2>6, <2>7, <2>8, <2>10
  <2> QED  BY <2>3, <2>4, <2>11 DEF InForce
<1>4. Permits(pol, st)
  BY <1>3 DEF Permits
<1> QED  BY <1>4 DEF Says

\* ... and whatever is in force, the policy says.
LEMMA CarriedSays ==
  ASSUME NEW pol, All \notin pol.names, NEW st, Carried(pol, st)
  PROVE  Says(pol, st)
<1>1. CASE st.cmd = "allow"
  BY <1>1, AllowSays
<1>2. CASE st.cmd \in {"deny", "auditallow", "dontaudit"}
  BY <1>2 DEF Carried, Says, XpermCmds, TransCmds
<1>3. CASE st.cmd \in XpermCmds
  <2>1. InXperm(pol, st)
    BY <1>3 DEF Carried, InXperm
  <2> QED  BY <1>3, <2>1 DEF Says
<1>4. CASE st.cmd \in TransCmds
  BY <1>4 DEF Carried, Says, XpermCmds, TransCmds, NamedRule, Plain
<1>5. CASE st.cmd \in NewNames \cup {"permissive", "enforce"}
  BY <1>5 DEF Carried, Says, XpermCmds, TransCmds, NewNames
<1> QED  BY <1>1, <1>2, <1>3, <1>4, <1>5 DEF Carried, Known, AvCmds

\* A policy in which no name is All.
Clean(pol) == IsPolicy(pol) /\ All \notin pol.names

\* No statement names a type All ...
LEMMA ApplyClean ==
  ASSUME NEW p, Clean(p), NEW st, NEW g
  PROVE  Clean(Apply(p, st, g).pol)
<1> PICK q : q = Apply(p, st, g).pol
  OBVIOUS
<1>1. IsPolicy(p) /\ All \notin p.names
  BY DEF Clean
<1>2. IsPolicy(q)
  <2>1. Twin(p, p, {})
    BY <1>1 DEF Twin
  <2>2. Twin(Apply(p, st, g).pol, Apply(p, st, g).pol, {})
    BY <2>1, ApplyTwin
  <2> QED  BY <2>2 DEF Twin
<1>3. CASE st.cmd \notin NewNames
  <2>1. Lands(p, Apply(p, st, g), st)
    BY <1>1, ApplyLands
  <2>2. q.names = p.names
    BY <1>3, <2>1 DEF Lands, Moved
  <2> QED  BY <1>1, <1>2, <2>2 DEF Clean
<1>4. CASE st.cmd \in NewNames
  <2>1. \/ All \notin Required(st) /\ Apply(p, st, g) = AddTypeAttribute(AddType(p, st.s, FALSE), st)
        \/ All \notin Required(st) /\ Apply(p, st, g) = Done(AddType(p, st.s, TRUE))
        \/ Spares(p, q)
    BY <1>1, <1>4, ApplyCases, Zenon DEF NewNames, AvCmds
  <2>2. All \notin Required(st) => st.s # All
    BY <1>4 DEF Required, NewNames, AvCmds, XpermCmds, TransCmds
  <2>3. Spares(p, q) => q.names = p.names
    BY DEF Spares
  <2>4. ASSUME NEW attr \in BOOLEAN, NEW n, n # All
        PROVE  IsPolicy(AddType(p, n, attr)) /\ All \notin AddType(p, n, attr).names
    BY <1>1, <2>4 DEF AddType, IsPolicy, Parts
  <2>5. ASSUME NEW u, IsPolicy(u)
        PROVE  AddTypeAttribute(u, st).pol.names = u.names
    <3>1. Spares(u, AddTypeAttribute(u, st).pol)
      BY <2>5, TypeAttributeSpares
    <3> QED  BY <3>1 DEF Spares
  <2>6. CASE All \notin Required(st) /\ Apply(p, st, g) = AddTypeAttribute(AddType(p, st.s, FALSE), st)
    BY <1>2, <2>2, <2>4, <2>5, <2>6 DEF Clean
  <2>7. CASE All \notin Required(st) /\ Apply(p, st, g) = Done(AddType(p, st.s, TRUE))
    BY <1>2, <2>2, <2>4, <2>7, Results DEF Clean
  <2> QED  BY <1>1, <1>2, <2>1, <2>3, <2>6, <2>7 DEF Clean
<1> QED  BY <1>3, <1>4

\* ... nor does any turn of a batch.
LEMMA TurnsClean ==
  ASSUME NEW p, Clean(p), NEW stmts, Len(stmts) \in Nat, NEW g, NEW f, Turns(f, p, stmts, g)
  PROVE  \A n \in 0..Len(stmts) : Clean(f[n].pol)
<1> DEFINE P == {n \in Nat : n <= Len(stmts) => Clean(f[n].pol)}
<1>1. 0 \in P
  BY DEF Start, Turns
<1>2. ASSUME NEW n \in P  PROVE n + 1 \in P
  <2> SUFFICES ASSUME n + 1 <= Len(stmts)  PROVE Clean(f[n + 1].pol)
    OBVIOUS
  <2>1. Clean(f[n].pol)
    OBVIOUS
  <2>2. n + 1 \in 1..Len(stmts) /\ (n + 1) - 1 = n
    OBVIOUS
  <2>3. f[n + 1] = Turn(f[n], stmts[n + 1], g)
    BY <2>2 DEF Turns
  <2>4. f[n + 1].pol = Apply(f[n].pol, stmts[n + 1], g).pol
    BY <2>3 DEF Turn
  <2> QED  BY <2>1, <2>4, ApplyClean
<1> HIDE DEF P
<1>3. P = Nat
  <2>1. P \in SUBSET Nat  BY DEF P
  <2> QED  BY <1>1, <1>2, <2>1, NumbersByInduction
<1> QED  BY <1>3 DEF P

\* A batch makes a clean policy of a clean one.
LEMMA RunClean ==
  ASSUME NEW p, Clean(p), NEW stmts, Len(stmts) \in Nat, NEW g
  PROVE  Clean(Run(p, stmts, g).pol)
<1>1. PICK f : Turns(f, p, stmts, g)
  BY RunTurns
<1>2. Clean(f[Len(stmts)].pol)
  BY <1>1, TurnsClean
<1> QED  BY <1>1, <1>2 DEF Turns

AllOk(f, stmts, g, n) == \A i \in 1..n : Apply(f[i - 1].pol, stmts[i], g).ok

\* A batch that counted every statement met none that failed.
LEMMA CountedAll ==
  ASSUME NEW p, NEW stmts, Len(stmts) \in Nat, NEW g, NEW f, Turns(f, p, stmts, g),
         f[Len(stmts)].count = Len(stmts)
  PROVE  AllOk(f, stmts, g, Len(stmts))
<1> DEFINE P == {n \in Nat : n <= Len(stmts) =>
                   f[n].count \in 0..n /\ (f[n].count = n => AllOk(f, stmts, g, n))}
<1>1. 0 \in P
  BY DEF Start, Turns, AllOk
<1>2. ASSUME NEW n \in P  PROVE n + 1 \in P
  <2> SUFFICES ASSUME n + 1 <= Len(stmts)
               PROVE  /\ f[n + 1].count \in 0..(n + 1)
                      /\ f[n + 1].count = n + 1 => AllOk(f, stmts, g, n + 1)
    OBVIOUS
  <2>1. f[n].count \in 0..n /\ (f[n].count = n => AllOk(f, stmts, g, n))
    OBVIOUS
  <2>2. n + 1 \in 1..Len(stmts) /\ (n + 1) - 1 = n
    OBVIOUS
  <2>3. f[n + 1] = Turn(f[n], stmts[n + 1], g)
    BY <2>2 DEF Turns
  <2>4. f[n + 1].count = f[n].count + (IF Apply(f[n].pol, stmts[n + 1], g).ok THEN 1 ELSE 0)
    BY <2>3 DEF Turn
  <2>5. ASSUME f[n + 1].count = n + 1
        PROVE  AllOk(f, stmts, g, n + 1)
    <3>1. Apply(f[n].pol, stmts[n + 1], g).ok /\ AllOk(f, stmts, g, n)
      BY <2>1, <2>4, <2>5
    <3>2. \A i \in 1..(n + 1) : i \in 1..n \/ i = n + 1
      OBVIOUS
    <3> QED  BY <2>2, <3>1, <3>2 DEF AllOk
  <2> QED  BY <2>1, <2>4, <2>5
<1> HIDE DEF P
<1>3. P = Nat
  <2>1. P \in SUBSET Nat  BY DEF P
  <2> QED  BY <1>1, <1>2, <2>1, NumbersByInduction
<1>4. Len(stmts) \in P
  BY <1>3
<1> QED  BY <1>4 DEF P

\* What the statements of such a batch have become at its end.
Spoke(f, stmts, i) ==
  \/ Silent(f[i - 1].pol, stmts[i])
  \/ \E j \in (i + 1)..Len(stmts) : Overrides(stmts[j], stmts[i])
  \/ Says(f[Len(stmts)].pol, stmts[i])

\* Each was silent, is overridden, or is said by the policy it leaves.
LEMMA RunSays ==
  ASSUME NEW p, Clean(p), NEW stmts, Len(stmts) \in Nat, NEW g, NEW f, Turns(f, p, stmts, g),
         f[Len(stmts)].count = Len(stmts), NEW i \in 1..Len(stmts)
  PROVE  Spoke(f, stmts, i)
<1> SUFFICES ASSUME ~Silent(f[i - 1].pol, stmts[i]),
                    \A j \in (i + 1)..Len(stmts) : ~Overrides(stmts[j], stmts[i])
             PROVE  Says(f[Len(stmts)].pol, stmts[i])
  BY Zenon DEF Spoke
<1>1. \A n \in 0..Len(stmts) : Clean(f[n].pol)
  BY TurnsClean
<1>2. AllOk(f, stmts, g, Len(stmts))
  BY CountedAll
<1>3. ASSUME NEW m \in 1..Len(stmts)
      PROVE  /\ Lands(f[m - 1].pol, Apply(f[m - 1].pol, stmts[m], g), stmts[m])
             /\ f[m].pol = Apply(f[m - 1].pol, stmts[m], g).pol
  <2>1. IsPolicy(f[m - 1].pol)
    BY <1>1 DEF Clean
  <2>2. f[m] = Turn(f[m - 1], stmts[m], g)
    BY DEF Turns
  <2> QED  BY <2>1, <2>2, ApplyLands DEF Turn
<1> DEFINE P == {n \in Nat : i + n <= Len(stmts) => Carried(f[i + n].pol, stmts[i])}
<1>4. 0 \in P
  <2>1. Apply(f[i - 1].pol, stmts[i], g).ok
    BY <1>2 DEF AllOk
  <2>2. Carried(f[i].pol, stmts[i])
    BY <1>3, <2>1 DEF Lands
  <2> QED  BY <2>2
<1>5. ASSUME NEW n \in P  PROVE n + 1 \in P
  <2> SUFFICES ASSUME i + (n + 1) <= Len(stmts)  PROVE Carried(f[i + (n + 1)].pol, stmts[i])
    OBVIOUS
  <2> PICK m : m = i + (n + 1)
    OBVIOUS
  <2>1. m \in 1..Len(stmts) /\ m \in (i + 1)..Len(stmts) /\ m - 1 = i + n
    OBVIOUS
  <2>2. Carried(f[m - 1].pol, stmts[i])
    BY <2>1
  <2>3. Moved(f[m - 1].pol, f[m].pol, stmts[m])
    BY <1>3, <2>1 DEF Lands
  <2>4. ~Overrides(stmts[m], stmts[i])
    BY <2>1
  <2>5. Carried(f[m].pol, stmts[i])
    BY <2>2, <2>3, <2>4, CarriedStays
  <2> QED  BY <2>5
<1> HIDE DEF P
<1>6. P = Nat
  <2>1. P \in SUBSET Nat  BY DEF P
  <2> QED  BY <1>4, <1>5, <2>1, NumbersByInduction
<1>7. Len(stmts) - i \in P /\ i + (Len(stmts) - i) = Len(stmts)
  BY <1>6
<1>8. Carried(f[Len(stmts)].pol, stmts[i])
  BY <1>7 DEF P
<1>9. All \notin f[Len(stmts)].pol.names
  BY <1>1 DEF Clean
<1> QED  BY <1>8, <1>9, CarriedSays

\* A policy, and a count, that a batch made of another.
Outcome(pol, count, was, stmts) ==
  /\ Len(stmts) \in Nat
  /\ \E garbage \in Ranges :
        LET r == Run(was, stmts, garbage) IN pol = r.pol /\ count = r.count

\* What is edited is the outcome of the statements on the policy in force, and
\* what has been published that of the policy that is to go.
Wrote(c) ==
  /\ cl[c].pc = "publish" => Outcome(mem[cl[c].new], cl[c].count, mem[live], cl[c].stmts)
  /\ cl[c].pc = "sync" => Outcome(mem[live], cl[c].count, mem[cl[c].old], cl[c].stmts)

WroteInv == (\A i \in Ids : Clean(mem[i])) /\ \A c \in Clients : Wrote(c)

\* A client is not concerned by what leaves the policies alone.
LEMMA WroteKept ==
  ASSUME NEW d,
         (Wrote(d) /\ cl'[d] = cl[d] /\ mem' = mem /\ live' = live) \/ cl'[d].pc \notin {"publish", "sync"}
  PROVE  Wrote(d)'
BY DEF Wrote

\* Nothing has been written of a policy that others are about to replace.
LEMMA WroteStep ==
  ASSUME WroteInv, NEW c \in Clients, Wrote(c)', \A d \in Clients : d # c => cl'[d] = cl[d],
         (mem' = mem /\ live' = live) \/ \A d \in Clients : d # c => cl[d].pc \notin {"publish", "sync"},
         \A i \in Ids : Clean(mem'[i])
  PROVE  WroteInv'
<1>1. ASSUME NEW d \in Clients, d # c
      PROVE  Wrote(d)'
  BY <1>1, WroteKept DEF WroteInv
<1>2. \A d \in Clients : Wrote(d)'
  BY <1>1
<1> QED  BY <1>2 DEF WroteInv

\* The policy of boot is clean.
LEMMA BootClean == Clean(Boot)
<1>1. Len(TamisuRules) \in Nat
  BY DEF TamisuRules
<1>2. Clean(Stock)
  BY StockAssumption DEF Clean
<1> QED  BY <1>1, <1>2, RunClean DEF Boot

\* Whoever has the mutex is the only writer with an outcome.
LEMMA NoOtherOutcome ==
  ASSUME MutexInv, NEW c \in Clients,
         mutex = None \/ cl[c].pc \in {"edit", "publish", "sync", "flush"}
  PROVE  \A d \in Clients : d # c => cl[d].pc \notin {"publish", "sync"}
BY ClientsAssumption DEF MutexInv

\* The copy: what is edited is what was in force.
LEMMA BeginWrote ==
  ASSUME IInv, WroteInv, NEW c \in Clients, Begin(c)
  PROVE  WroteInv'
<1>1. Shape /\ MutexInv /\ live \in Ids /\ \A i \in Ids : Clean(mem[i])
  BY DEF IInv, Shape, WroteInv
<1>2. /\ cl[c].pc = "sent" /\ mutex = None /\ live' = live
      /\ \/ Step(c, "idle") /\ mem' = mem
         \/ \E i \in free : Step(c, "edit") /\ mem' = [mem EXCEPT ![i] = mem[live]]
  BY <1>1, BeginStep
<1>3. \A i \in Ids : Clean(mem'[i])
  BY <1>1, <1>2 DEF Shape
<1>4. cl'[c].pc \notin {"publish", "sync"} /\ \A d \in Clients : d # c => cl'[d] = cl[d]
  BY <1>2 DEF Step
<1>5. Wrote(c)'
  BY <1>4, WroteKept
<1> QED  BY <1>1, <1>2, <1>3, <1>4, <1>5, NoOtherOutcome, WroteStep

\* The statements have their outcome on the copy.
LEMMA EditWrote ==
  ASSUME IInv, LoanInv, WroteInv, NEW c \in Clients, Edit(c)
  PROVE  WroteInv'
<1>1. /\ Shape /\ MutexInv /\ Record(cl[c]) /\ live \in Ids /\ cl[c].pc = "edit"
      /\ Len(cl[c].stmts) \in Nat /\ \A i \in Ids : Clean(mem[i])
  BY Zenon DEF IInv, LoanInv, Loan, Shape, Edit, WroteInv
<1>2. cl[c].new \in Ids /\ cl[c].new # live /\ mem[cl[c].new] = mem[live]
  BY <1>1 DEF IInv, StoreInv
<1> PICK id, stmts, pol : id = cl[c].new /\ stmts = cl[c].stmts /\ pol = mem[live]
  OBVIOUS
<1>3. PICK garbage \in Ranges :
         LET r == Run(mem[id], stmts, garbage)
         IN /\ mem' = [mem EXCEPT ![id] = r.pol]
            /\ cl' = [cl EXCEPT ![c].pc = "publish", ![c].count = r.count]
  BY Zenon DEF Edit
<1> PICK res : res = Run(pol, stmts, garbage)
  OBVIOUS
<1>4. /\ mem' = [mem EXCEPT ![id] = res.pol]
      /\ cl' = [cl EXCEPT ![c].pc = "publish", ![c].count = res.count]
  BY <1>2, <1>3
<1>5. live' = live
  BY Zenon DEF Edit
<1> DEFINE r == [cl[c] EXCEPT !.pc = "publish", !.count = res.count]
<1>6. r.pc = "publish" /\ r.stmts = stmts /\ r.new = id /\ r.count = res.count
  BY <1>1 DEF Record, Fields
<1>7. cl' = [cl EXCEPT ![c] = r]
  BY <1>1, <1>4 DEF Shape
<1> HIDE DEF r
<1>8. cl'[c] = r /\ \A d \in Clients : d # c => cl'[d] = cl[d]
  BY <1>1, <1>7 DEF Shape
<1>9. mem'[id] = res.pol /\ \A i \in Ids : i # id => mem'[i] = mem[i]
  BY <1>1, <1>2, <1>4 DEF Shape
<1>10. Clean(res.pol)
  BY <1>1, RunClean
<1>11. \A i \in Ids : Clean(mem'[i])
  BY <1>1, <1>9, <1>10
<1>12. Outcome(mem'[id], res.count, mem'[live], stmts)
  BY <1>1, <1>2, <1>9 DEF Outcome
<1>13. Wrote(c)'
  BY <1>5, <1>6, <1>8, <1>12 DEF Wrote
<1> QED  BY <1>1, <1>8, <1>11, <1>13, NoOtherOutcome, WroteStep

\* The copy is published, as it is.
LEMMA PublishWrote ==
  ASSUME IInv, WroteInv, NEW c \in Clients, Publish(c)
  PROVE  WroteInv'
<1>1. Shape /\ MutexInv /\ Record(cl[c]) /\ Wrote(c) /\ \A i \in Ids : Clean(mem[i])
  BY DEF IInv, Shape, WroteInv
<1>2. cl[c].pc = "publish" /\ live' = cl[c].new /\ mem' = mem
  BY Zenon DEF Publish
<1>3. cl[c].old = live
  BY <1>2 DEF IInv, StoreInv
<1>4. PICK g : cl' = [cl EXCEPT ![c].pc = "sync", ![c].given = g]
  BY Zenon DEF Publish
<1> DEFINE r == [cl[c] EXCEPT !.pc = "sync", !.given = g]
<1>5. r.pc = "sync" /\ r.old = cl[c].old /\ r.count = cl[c].count /\ r.stmts = cl[c].stmts
  BY <1>1 DEF Record, Fields
<1>6. cl' = [cl EXCEPT ![c] = r]
  BY <1>4 DEF Shape
<1> HIDE DEF r
<1>7. cl'[c] = r /\ \A d \in Clients : d # c => cl'[d] = cl[d]
  BY <1>1, <1>6 DEF Shape
<1>8. Outcome(mem[live'], cl[c].count, mem[cl[c].old], cl[c].stmts)
  BY <1>1, <1>2, <1>3 DEF Wrote
<1>9. Wrote(c)'
  BY <1>2, <1>5, <1>7, <1>8 DEF Wrote
<1> QED  BY <1>1, <1>2, <1>7, <1>9, NoOtherOutcome, WroteStep

\* A policy goes: the copy that is dropped or the old one.
LEMMA GoneWrote ==
  ASSUME IInv, WroteInv, NEW c \in Clients, Drop(c) \/ Synchronize(c)
  PROVE  WroteInv'
<1>1. Shape /\ MutexInv /\ \A i \in Ids : Clean(mem[i])
  BY DEF IInv, WroteInv
<1>2. PICK i : /\ cl[c].pc \in {"edit", "sync"} /\ (Step(c, "idle") \/ Step(c, "flush"))
               /\ mem' = [mem EXCEPT ![i] = Boot]
  BY <1>1, DropStep, SynchronizeStep
<1>3. \A j \in Ids : Clean(mem'[j])
  BY <1>1, <1>2, BootClean DEF Shape
<1>4. cl'[c].pc \notin {"publish", "sync"} /\ \A d \in Clients : d # c => cl'[d] = cl[d]
  BY <1>2 DEF Step
<1>5. Wrote(c)'
  BY <1>4, WroteKept
<1> QED  BY <1>1, <1>2, <1>3, <1>4, <1>5, NoOtherOutcome, WroteStep

\* Requests and answers leave the policies alone.
LEMMA AnswersWrote ==
  ASSUME IInv, WroteInv, NEW c \in Clients,
         LivePatch(c) \/ AskGrant(c) \/ AskRestore(c) \/ Refuse(c) \/ Flush(c)
  PROVE  WroteInv'
<1>1. /\ mem' = mem /\ live' = live
      /\ cl'[c].pc \in {"idle", "sent"} /\ \A d \in Clients : d # c => cl'[d] = cl[d]
  BY Requests, FlushStep DEF IInv, Step
<1>2. Wrote(c)'
  BY <1>1, WroteKept
<1> QED  BY <1>1, <1>2, WroteStep DEF WroteInv

\* Every step keeps the outcomes.
LEMMA WroteNext == IInv /\ LoanInv /\ WroteInv /\ [Next]_vars => WroteInv'
<1> SUFFICES ASSUME IInv, LoanInv, WroteInv, [Next]_vars PROVE WroteInv'
  OBVIOUS
<1>1. ASSUME NEW c \in Daemons, LivePatch(c)
      PROVE  WroteInv'
  BY <1>1, AnswersWrote DEF Clients
<1>2. ASSUME NEW c \in Targets, AskGrant(c) \/ AskRestore(c)
      PROVE  WroteInv'
  BY <1>2, AnswersWrote DEF Clients
<1>3. ASSUME NEW c \in Clients, Writing(c)
      PROVE  WroteInv'
  BY <1>3, AnswersWrote, BeginWrote, EditWrote, GoneWrote, PublishWrote DEF Writing
<1>4. ASSUME mem' = mem, live' = live, cl' = cl
      PROVE  WroteInv'
  BY <1>4, WroteKept DEF WroteInv
<1>5. ASSUME NEW r \in Readers, Reading(r)
      PROVE  WroteInv'
  BY <1>4, <1>5, ReaderSteps DEF IInv
<1>6. CASE UNCHANGED vars
  BY <1>4, <1>6, Zenon DEF vars
<1> QED  BY <1>1, <1>2, <1>3, <1>5, <1>6 DEF Next

\* There is no outcome at the start.
LEMMA InitWrote == Init => WroteInv
<1> SUFFICES ASSUME Init PROVE WroteInv
  OBVIOUS
<1>1. mem = [i \in Ids |-> Boot] /\ cl = [c \in Clients |-> Idle]
  BY Zenon DEF Init
<1>2. \A c \in Clients : cl[c].pc = "idle"
  BY <1>1 DEF Idle
<1> QED  BY <1>1, <1>2, BootClean DEF WroteInv, Wrote

\* The outcome of a batch that counted every statement says them all.
LEMMA OutcomeSays ==
  ASSUME NEW was, Clean(was), NEW stmts, NEW pol, NEW count, Outcome(pol, count, was, stmts),
         count = Len(stmts)
  PROVE  SaysAll(pol, was, stmts)
<1>1. PICK garbage \in Ranges :
         pol = Run(was, stmts, garbage).pol /\ count = Run(was, stmts, garbage).count
  BY DEF Outcome
<1>2. Len(stmts) \in Nat
  BY DEF Outcome
<1> PICK f : f = After(was, stmts, garbage)
  OBVIOUS
<1>3. Turns(f, was, stmts, garbage)
  BY <1>2, RunTurns
<1>4. pol = f[Len(stmts)].pol /\ f[Len(stmts)].count = Len(stmts)
  BY <1>1, <1>3 DEF Turns
<1>5. \A i \in 1..Len(stmts) : Spoke(f, stmts, i)
  BY <1>2, <1>3, <1>4, RunSays
<1>6. \A i \in 1..Len(stmts) :
         \/ Silent(f[i - 1].pol, stmts[i])
         \/ \E j \in (i + 1)..Len(stmts) : Overrides(stmts[j], stmts[i])
         \/ Says(pol, stmts[i])
  BY <1>4, <1>5 DEF Spoke
<1> QED  BY <1>4, <1>6, Zenon DEF SaysAll

-----------------------------------------------------------------------------
(* The theorems.                                                            *)

\* The writers of the policy, its allocations, the readers' pointers and the
\* kept answers are related as IInv says, in every state.
THEOREM Invariant == Spec => []IInv
BY InitOK, InvStep, PTL DEF Spec

\* No access decision follows a pointer to a policy that is gone.
THEOREM ReadersSafeHolds == Spec => []ReadersSafe
<1>1. IInv => ReadersSafe
  <2> SUFFICES ASSUME IInv, NEW r \in Readers PROVE rd[r].holds \notin free
    BY DEF ReadersSafe
  <2>1. 0 \notin free
    BY DEF IInv, Shape, Ids
  <2> QED  BY <2>1 DEF IInv, ReaderInv, StoreInv
<1> QED  BY <1>1, Invariant, PTL

\* What is published is one whole request applied to the policy in force: two
\* writers never undo each other, however long each of them takes between its
\* copy and its publication.
THEOREM WholeRequestHolds == Spec => WholeRequest
<1>1. IInv /\ [Next]_vars => Whole
  <2> SUFFICES ASSUME IInv, [Next]_vars, live' # live
               PROVE  \E c \in Clients, garbage \in Ranges :
                        cl[c].pc = "publish" /\ mem[live'] = Run(mem[live], cl[c].stmts, garbage).pol
    BY DEF Whole
  <2>1. \A c \in Clients : ~(LivePatch(c) \/ AskGrant(c) \/ AskRestore(c) \/ Refuse(c))
    BY Requests DEF IInv
  <2>2. \A c \in Clients : ~(Begin(c) \/ Edit(c) \/ Drop(c) \/ Synchronize(c) \/ Flush(c))
    BY BeginStep, EditStep, DropStep, SynchronizeStep, FlushStep DEF IInv
  <2>3. \A r \in Readers : ~Reading(r)
    BY ReaderSteps DEF IInv
  <2>4. ~UNCHANGED vars
    BY DEF vars
  <2>5. PICK c \in Clients : Publish(c)
    BY <2>1, <2>2, <2>3, <2>4 DEF Next, Writing, Clients
  <2>6. cl[c].pc = "publish" /\ live' = cl[c].new
    BY <2>5, PublishStep DEF IInv
  <2> QED  BY <2>6 DEF IInv, StoreInv
<1> QED  BY <1>1, Invariant, PTL DEF Spec, WholeRequest

\* After a writer has answered, no kept access decision contradicts the policy
\* in force, save one that was computed before the flush and kept after it.
THEOREM CacheFreshHolds == Spec => []CacheFresh
<1>1. IInv => CacheFresh
  <2> SUFFICES ASSUME IInv, mutex = None, NEW q \in Queries \ raced, cache[q] # None
               PROVE  (cache[q] = "yes") = Allowed(mem[live], q)
    BY DEF CacheFresh
  <2>1. ~Switching
    BY ClientsAssumption DEF IInv, MutexInv, Switching
  <2>2. cache[q] = "yes" <=> Allowed(mem[live], q)
    BY <2>1 DEF IInv, CacheInv
  <2>3. Allowed(mem[live], q) \in BOOLEAN
    BY Zenon DEF Allowed
  <2> QED  BY <2>2, <2>3
<1> QED  BY <1>1, Invariant, PTL

\* The access rules of the policy in force are those there to stay and those on
\* loan, over any grants, restores and batches, unless a batch allowed a rule on
\* loan or a restore failed over a rule lent twice.
THEOREM LoansAccountedHolds == Spec => []LoansAccounted
<1>1. LoanInv => LoansAccounted
  BY DEF LoanInv, LoansAccounted, Accounted
<1>2. IInv /\ LoanInv /\ [Next]_vars => (IInv /\ LoanInv)'
  BY InvStep, LoanStep
<1>3. Init => IInv /\ LoanInv
  BY InitOK, InitLoan
<1> QED  BY <1>1, <1>2, <1>3, PTL DEF Spec

\* A batch that is reported as a success is in force: each of its statements is
\* said by the published policy, unless it was silent or a later one of the
\* batch overrides it; whatever was on the stack, and whoever else writes.
THEOREM SuccessInForceHolds == Spec => []SuccessInForce
<1>1. IInv /\ WroteInv => SuccessInForce
  <2> SUFFICES ASSUME IInv, WroteInv, NEW c \in Daemons,
                      cl[c].pc = "sync", cl[c].count = Len(cl[c].stmts)
               PROVE  SaysAll(mem[live], mem[cl[c].old], cl[c].stmts)
    BY DEF SuccessInForce
  <2>1. c \in Clients
    BY DEF Clients
  <2>2. cl[c].old \in Ids
    BY <2>1 DEF IInv, StoreInv
  <2>3. Clean(mem[cl[c].old]) /\ Outcome(mem[live], cl[c].count, mem[cl[c].old], cl[c].stmts)
    BY <2>1, <2>2 DEF WroteInv, Wrote
  <2> QED  BY <2>3, OutcomeSays
<1>2. IInv /\ LoanInv /\ WroteInv /\ [Next]_vars => (IInv /\ LoanInv /\ WroteInv)'
  BY InvStep, LoanStep, WroteNext
<1>3. Init => IInv /\ LoanInv /\ WroteInv
  BY InitOK, InitLoan, InitWrote
<1> QED  BY <1>1, <1>2, <1>3, PTL DEF Spec
=============================================================================

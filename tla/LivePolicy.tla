----------------------------- MODULE LivePolicy -----------------------------
(***************************************************************************)
(* Editing the SELinux policy that is in force (core/tamisu_rules.c,       *)
(* daemon/tamisud_core/src/sepolicy/sepolicy.cpp).                         *)
(*                                                                         *)
(* The daemon expands rule texts to statements and sends them as one       *)
(* batch.  The kernel copies the policy, runs the batch on the copy and    *)
(* publishes it; native targets get and lose their temporary rules the     *)
(* same way.  Writers hold policy_mutex; the readers are the access        *)
(* decisions of the kernel, which follow the pointer under rcu and put     *)
(* what they computed in the cache after they have left the section.       *)
(***************************************************************************)
EXTENDS PolicyRules, Integers, FiniteSetsExt

CONSTANTS
    Stock,        \* the policy loaded at boot
    Daemons,      \* processes that send batches
    Targets,      \* native targets that ask for temporary rules
    LoadRules,    \* the rules each target needs
    Readers,
    Queries,      \* the accesses readers ask about
    Texts,        \* rule files: sequences of rules
    TooLong,      \* words of 128 characters and more
    MaxStmts,     \* TAMISU_SEPOLICY_MAX_BATCH_SIZE, in statements
    MaxRequests,  \* bound: texts and grants
    MaxFaults     \* bound: steps that fail

None == "none"
Ids == 1..3       \* policy allocations: one in force, one edited, one to spare
Clients == Daemons \cup Targets

ASSUME ClientsAssumption == Daemons \cap Targets = {} /\ None \notin Clients
ASSUME StockAssumption == IsPolicy(Stock) /\ All \notin Stock.names
ASSUME NeedsAssumption ==
    /\ LoadRules \in [Targets -> SUBSET (Names \X Names \X Classes \X Perms)]
    /\ \A t \in Targets : IsFiniteSet(LoadRules[t])
ASSUME BoundsAssumption == {MaxStmts, MaxRequests, MaxFaults} \subseteq Nat

VARIABLES
    mem,      \* the policy in each allocation
    live,     \* selinux_state->policy
    free,     \* allocations not in use
    mutex,    \* policy_mutex
    cl,       \* the clients
    rd,       \* the readers
    cache,    \* the access vector cache: answers kept
    lasting,  \* history: the access rules there to stay
    clash,    \* history: a batch or another target claimed a rule on loan
    raced,    \* history: queries whose cached answer missed the last flush
    left,     \* requests that may still come
    faults

store == <<mem, live, free>>
history == <<lasting, clash, raced>>
bounds == <<left, faults>>
vars == <<store, mutex, cl, rd, cache, history, bounds>>

Idle == [pc |-> "idle", kind |-> None, stmts |-> <<>>, old |-> 1, new |-> 1,
         count |-> 0, answer |-> 0, given |-> {}]
Away == [holds |-> 0, asks |-> None, got |-> None, late |-> FALSE]

Statement(cmd, s, t, c, p, o) == [cmd |-> cmd, s |-> s, t |-> t, c |-> c, p |-> p, o |-> o]

\* apply_tamisu_rules, which edits the policy in place before there is a
\* daemon: one rule of every form it uses.
TamisuRules == <<
    Statement("permissive", "su", All, All, All, All),
    Statement("typeattribute", "su", "domain", All, All, All),
    Statement("type", "su_file", "file_type", All, All, All),
    Statement("allow", All, "su_file", All, All, All),
    Statement("allow", "su", All, All, All, All),
    Statement("allowxperm", "su", All, "file", "all", "ioctl"),
    Statement("allow", All, "su", "file", "read", All),
    Statement("dontaudit", "app", "su", "dir", "search", All)>>

Boot == Run(Stock, TamisuRules, "all").pol

Init ==
    /\ mem = [i \in Ids |-> Boot] /\ live = 1 /\ free = Ids \ {1}
    /\ mutex = None
    /\ cl = [c \in Clients |-> Idle]
    /\ rd = [r \in Readers |-> Away]
    /\ cache = [q \in Queries |-> None]
    /\ lasting = Boot.allow /\ clash = FALSE /\ raced = {}
    /\ left = MaxRequests /\ faults = 0

Failing == faults < MaxFaults /\ faults' = faults + 1

-----------------------------------------------------------------------------
(* The daemon's half: sepolicy_live_patch.                                  *)

\* PolicyObject::from_str: a word that does not fit becomes no word, which is
\* All on the wire.
FromStr(w) == IF w \in TooLong THEN All ELSE w

\* The commands whose parser reads single words: it stops at a list in
\* braces, and a word it has not read is absent.
WordCmds == TransCmds \cup {"genfscon", "attribute"}
Heard(cmds, r, S) == IF r.cmd \in cmds /\ \E x, y \in S : x # y THEN {All} ELSE S

\* A type without attributes is sent with none.
AttrsOf(r) == IF r.cmd = "type" /\ r.t = {} THEN {All} ELSE r.t

\* parse_rule: the product of the lists (their order does not matter).
Expand(r) ==
    SetToSeq({Statement(r.cmd, FromStr(s), FromStr(t), FromStr(c), FromStr(p), FromStr(r.o)) :
            s \in Heard(WordCmds \cup {"type"}, r, r.s), t \in Heard(WordCmds, r, AttrsOf(r)),
            c \in Heard(WordCmds, r, r.c), p \in Heard(WordCmds, r, r.p)})

Unknown(r) == r.cmd = "unknown"

Statements(text) == FoldLeft(LAMBDA acc, r : acc \o Expand(r), <<>>, text)

\* A text with a rule that does not parse is not sent at all; neither is one
\* without statements.
LivePatch(c) ==
    /\ cl[c].pc = "idle" /\ left > 0
    /\ left' = left - 1
    /\ \E text \in Texts :
          LET bad == \E i \in DOMAIN text : Unknown(text[i])
              stmts == Statements(text)
          IN cl' = [cl EXCEPT ![c] = IF bad \/ stmts = <<>>
                                     THEN [Idle EXCEPT !.answer = IF bad THEN 1 ELSE 0]
                                     ELSE [Idle EXCEPT !.pc = "sent", !.kind = "batch", !.stmts = stmts]]
    /\ UNCHANGED <<store, mutex, rd, cache, history, faults>>

\* handle_sepolicy before the mutex: a batch too large, or no memory for it.
Refuse(c) ==
    /\ cl[c].pc = "sent" /\ cl[c].kind = "batch"
    /\ \/ Len(cl[c].stmts) > MaxStmts /\ UNCHANGED faults
       \/ Failing
    /\ cl' = [cl EXCEPT ![c] = [Idle EXCEPT !.answer = 1]]
    /\ UNCHANGED <<store, mutex, rd, cache, history, left>>

-----------------------------------------------------------------------------
(* The native targets: the temporary rules, each named as it was found.     *)

AskGrant(c) ==
    /\ cl[c].pc = "idle" /\ cl[c].given = {} /\ left > 0
    /\ left' = left - 1
    /\ cl' = [cl EXCEPT ![c] = [Idle EXCEPT !.pc = "sent", !.kind = "grant"]]
    /\ UNCHANGED <<store, mutex, rd, cache, history, faults>>

AskRestore(c) ==
    /\ cl[c].pc = "idle" /\ cl[c].given # {}
    /\ cl' = [cl EXCEPT ![c].pc = "sent", ![c].kind = "restore"]
    /\ UNCHANGED <<store, mutex, rd, cache, history, bounds>>

RuleStatements(cmd, S) ==
    LET rules == SetToSeq(S)
    IN [i \in 1..Len(rules) |->
           Statement(cmd, rules[i][1], rules[i][2], rules[i][3], rules[i][4], All)]

WantedMut(c) == CASE cl[c].kind = "batch" -> cl[c].stmts
                  [] cl[c].kind = "grant" -> RuleStatements("allow", LoadRules[c] \ mem[live].allow)
                  [] cl[c].kind = "restore" -> RuleStatements("deny", LoadRules[c])

\* tamisu_file_load_policy_allow_current adds what no rule of these very
\* names allows; tamisu_file_load_policy_restore takes away what was added.
Wanted(c) == CASE cl[c].kind = "batch" -> cl[c].stmts
               [] cl[c].kind = "grant" -> RuleStatements("allow", LoadRules[c] \ mem[live].allow)
               [] cl[c].kind = "restore" -> RuleStatements("deny", cl[c].given)

Loans(S) == UNION {cl[c].given : c \in S}

\* A writer that gave up.  Rules on loan that a restore could not take back
\* are there to stay.
GaveUp(c) ==
    /\ cl' = [cl EXCEPT ![c] = [Idle EXCEPT !.answer = 1]]
    /\ lasting' = lasting \cup (cl[c].given \cap mem[live].allow)
    /\ clash' = (clash \/ cl[c].given \cap Loans(Targets \ {c}) # {})
    /\ UNCHANGED raced

-----------------------------------------------------------------------------
(* Writing: handle_sepolicy, the grant and the restore under policy_mutex.  *)

BeginMut(c) ==
    /\ cl[c].pc = "sent" /\ Len(cl[c].stmts) <= MaxStmts
    /\ IF Wanted(c) = <<>>
       THEN /\ cl' = [cl EXCEPT ![c] = Idle]
            /\ UNCHANGED <<store, mutex, history, faults>>
       ELSE \/ \E i \in free :
                  /\ mem' = [mem EXCEPT ![i] = mem[live]] /\ free' = free \ {i}
                  /\ mutex' = c
                  /\ cl' = [cl EXCEPT ![c].pc = "edit", ![c].stmts = Wanted(c),
                                      ![c].old = live, ![c].new = i]
                  /\ UNCHANGED <<live, history, faults>>
            \/ Failing /\ GaveUp(c) /\ UNCHANGED <<store, mutex>>
    /\ UNCHANGED <<rd, cache, left>>

\* tamisu_dup_sepolicy.  A grant that lacks nothing makes no copy.
Begin(c) ==
    /\ cl[c].pc = "sent" /\ mutex = None /\ Len(cl[c].stmts) \in 0..MaxStmts
    /\ IF Wanted(c) = <<>>
       THEN /\ cl' = [cl EXCEPT ![c] = Idle]
            /\ UNCHANGED <<store, mutex, history, faults>>
       ELSE \/ \E i \in free :
                  /\ mem' = [mem EXCEPT ![i] = mem[live]] /\ free' = free \ {i}
                  /\ mutex' = c
                  /\ cl' = [cl EXCEPT ![c].pc = "edit", ![c].stmts = Wanted(c),
                                      ![c].old = live, ![c].new = i]
                  /\ UNCHANGED <<live, history, faults>>
            \/ Failing /\ GaveUp(c) /\ UNCHANGED <<store, mutex>>
    /\ UNCHANGED <<rd, cache, left>>

\* The statements, on the copy.  The grant and the restore insist on all of
\* theirs; a batch is published with those that succeeded.
Edit(c) ==
    /\ cl[c].pc = "edit"
    /\ \E garbage \in Ranges :
          LET r == Run(mem[cl[c].new], cl[c].stmts, garbage)
          IN /\ cl[c].kind = "batch" \/ r.count = Len(cl[c].stmts)
             /\ mem' = [mem EXCEPT ![cl[c].new] = r.pol]
             /\ cl' = [cl EXCEPT ![c].pc = "publish", ![c].count = r.count]
    /\ UNCHANGED <<live, free, mutex, rd, cache, history, bounds>>

\* out_drop_new_policy: the bytes of a batch break off in some command, or a
\* grant's or restore's statement failed.
Drop(c) ==
    /\ cl[c].pc = "edit"
    /\ IF cl[c].kind = "batch" THEN Failing
       ELSE Run(mem[cl[c].new], cl[c].stmts, "all").count < Len(cl[c].stmts) /\ UNCHANGED faults
    /\ mem' = [mem EXCEPT ![cl[c].new] = Boot] /\ free' = free \cup {cl[c].new}
    /\ mutex' = None
    /\ GaveUp(c)
    /\ UNCHANGED <<live, rd, cache, left>>

Publish(c) ==
    /\ cl[c].pc = "publish"
    /\ live' = cl[c].new
    /\ cl' = [cl EXCEPT ![c].pc = "sync",
                        ![c].given = IF cl[c].kind = "grant" THEN LoadRules[c] \ mem[live].allow ELSE {}]
    /\ IF cl[c].kind = "batch"
       THEN LET alone == Run([mem[live] EXCEPT !.allow = lasting], cl[c].stmts, "all").pol.allow
            IN /\ lasting' = alone
               /\ clash' = (clash \/ Loans(Targets) \cap (alone \ lasting) # {})
               /\ UNCHANGED raced
       ELSE UNCHANGED history
    /\ UNCHANGED <<mem, free, mutex, rd, cache, bounds>>

SynchronizeMut(c) ==
    /\ cl[c].pc = "sync"
    /\ mem' = [mem EXCEPT ![cl[c].old] = Boot] /\ free' = free \cup {cl[c].old}
    /\ cl' = [cl EXCEPT ![c].pc = "flush"]
    /\ UNCHANGED <<live, mutex, rd, cache, history, bounds>>

\* synchronize_rcu, then the old policy goes.
Synchronize(c) ==
    /\ cl[c].pc = "sync"
    /\ \A r \in Readers : rd[r].holds # cl[c].old
    /\ mem' = [mem EXCEPT ![cl[c].old] = Boot] /\ free' = free \cup {cl[c].old}
    /\ cl' = [cl EXCEPT ![c].pc = "flush"]
    /\ UNCHANGED <<live, mutex, rd, cache, history, bounds>>

FlushMut(c) ==
    /\ cl[c].pc = "flush"
    /\ UNCHANGED cache
    /\ rd' = [r \in Readers |-> [rd[r] EXCEPT !.late = rd[r].got # None]]
    /\ mutex' = None
    /\ cl' = [cl EXCEPT ![c] = [Idle EXCEPT
                  !.answer = IF cl[c].count < Len(cl[c].stmts) THEN 1 ELSE 0,
                  !.given = cl[c].given]]
    /\ raced' = {}
    /\ UNCHANGED <<store, lasting, clash, bounds>>

\* reset_avc_cache with sequence number 0, and the answer.  The daemon calls
\* a batch that lost a statement a failure.
Flush(c) ==
    /\ cl[c].pc = "flush"
    /\ cache' = [q \in Queries |-> None]
    /\ rd' = [r \in Readers |-> [rd[r] EXCEPT !.late = rd[r].got # None]]
    /\ mutex' = None
    /\ cl' = [cl EXCEPT ![c] = [Idle EXCEPT
                  !.answer = IF cl[c].count < Len(cl[c].stmts) THEN 1 ELSE 0,
                  !.given = cl[c].given]]
    /\ raced' = {}
    /\ UNCHANGED <<store, lasting, clash, bounds>>

-----------------------------------------------------------------------------
(* The kernel's access decisions: avc_compute_av.                           *)

Allowed(pol, q) == q[1] \in pol.permissive \/ InForce(pol, pol.allow, q)

\* security_compute_av takes the pointer ...
Look(r) ==
    /\ rd[r] = Away
    /\ \E q \in Queries : cache[q] = None
                          /\ rd' = [rd EXCEPT ![r] = [Away EXCEPT !.holds = live, !.asks = q]]
    /\ UNCHANGED <<store, mutex, cl, cache, history, bounds>>

\* ... decides, and leaves the read-side section ...
Decide(r) ==
    /\ rd[r].holds # 0
    /\ rd' = [rd EXCEPT ![r].holds = 0, ![r].late = FALSE,
                        ![r].got = IF Allowed(mem[rd[r].holds], rd[r].asks) THEN "yes" ELSE "no"]
    /\ UNCHANGED <<store, mutex, cl, cache, history, bounds>>

\* ... and avc_insert keeps the answer; with an unchanged sequence number it
\* takes an old one too.
Insert(r) ==
    /\ rd[r].got # None
    /\ cache' = [cache EXCEPT ![rd[r].asks] = rd[r].got]
    /\ raced' = IF rd[r].late THEN raced \cup {rd[r].asks} ELSE raced
    /\ rd' = [rd EXCEPT ![r] = Away]
    /\ UNCHANGED <<store, mutex, cl, lasting, clash, bounds>>

Writing(c) == Refuse(c) \/ Begin(c) \/ Edit(c) \/ Drop(c) \/ Publish(c) \/ Synchronize(c) \/ Flush(c)
Reading(r) == Look(r) \/ Decide(r) \/ Insert(r)

Next ==
    \/ \E c \in Daemons : LivePatch(c)
    \/ \E c \in Targets : AskGrant(c) \/ AskRestore(c)
    \/ \E c \in Clients : Writing(c)
    \/ \E r \in Readers : Reading(r)

Spec == Init /\ [][Next]_vars

-----------------------------------------------------------------------------
(* Correctness.                                                             *)

\* No access decision follows a pointer to a policy that is gone: the writer
\* frees the old policy only when every reader that could have it has left
\* (synchronize_rcu in handle_sepolicy and the two target operations).
ReadersSafe == \A r \in Readers : rd[r].holds \notin free

\* What is published is all of one request applied to the policy in force at
\* that moment: no half batch, no writer that undoes another by publishing a
\* copy made before it (policy_mutex around copy and publication).
Whole ==
    live' # live =>
      \E c \in Clients, garbage \in Ranges :
         cl[c].pc = "publish" /\ mem[live'] = Run(mem[live], cl[c].stmts, garbage).pol

WholeRequest == [][Whole]_vars

\* Access rules never pile up or get lost over grants, restores and batches:
\* what the policy allows beyond what batches and boot left is on loan to some
\* target, and no restore takes away what was not on loan.  Not so when a
\* batch allows a rule that is on loan, or a restore fails while another
\* target was lent the same rule.
LoansAccounted ==
    ~clash => /\ lasting \subseteq mem[live].allow
              /\ mem[live].allow \subseteq lasting \cup Loans(Targets)

\* After a writer has answered, no kept access decision contradicts the policy
\* in force ("reset avc cache table, otherwise the new rules will not take
\* effect"), save one that was computed before the flush and kept after it.
CacheFresh ==
    mutex = None =>
        \A q \in Queries \ raced :
            cache[q] # None => (cache[q] = "yes") = Allowed(mem[live], q)

\* Is every access allowed that an allow statement speaks of?
Permits(pol, st) ==
    \A s \in Members(pol, st.s), t \in Members(pol, st.t) :
       \A x \in Tuples(pol, Statement("allow", s, t, st.c, st.p, st.o), FALSE) :
          InForce(pol, pol.allow, x)

\* Are the ranges of a statement in the policy?
InXperm(pol, st) ==
    \A k \in Keys(pol, st, FALSE) : <<st.cmd, k[1], k[2], k[3], st.p>> \in pol.xperm

\* Does the policy say what the statement says?
Says(pol, st) ==
    \/ st.cmd = "allow" /\ Permits(pol, st)
    \/ st.cmd = "deny" /\ Tuples(pol, st, TRUE) \cap pol.allow = {}
    \/ st.cmd = "auditallow" /\ Tuples(pol, st, FALSE) \subseteq pol.audit
    \/ st.cmd = "dontaudit" /\ Tuples(pol, st, FALSE) \subseteq pol.noaudit
    \/ st.cmd \in XpermCmds /\ InXperm(pol, st)
    \/ st.cmd = "type_transition" /\ st.o # All /\ NamedDefault(pol, st) = {st.p}
    \/ /\ st.cmd \in TransCmds /\ (st.cmd # "type_transition" \/ st.o = All)
       /\ <<st.cmd, st.s, st.t, st.c, st.p>> \in pol.trans
    \/ st.cmd \in {"type", "typeattribute"} /\ <<st.s, st.t>> \in pol.has
    \/ st.cmd = "attribute" /\ st.s \in pol.attrs
    \/ st.cmd = "permissive" /\ st.s \in pol.permissive
    \/ st.cmd = "enforce" /\ st.s \notin pol.permissive

\* Statements that succeed without effect on the policy they are given.
Silent(pol, st) ==
    \/ /\ st.cmd = "allow" /\ All \in {st.s, st.t}
       /\ \E n \in pol.names \ pol.attrs : Reach(pol, n) = {n}
    \/ st.cmd = "dontaudit" /\ \E x \in Tuples(pol, st, FALSE) : ~HasNode(pol, x)
    \/ st.cmd \in XpermCmds /\ st.p = Braced
    \/ /\ st.cmd \in XpermCmds
       /\ \E k \in Keys(pol, st, FALSE) : SameDriver(pol, <<st.cmd, k[1], k[2], k[3], st.p>>)
    \/ st.cmd = "type_transition" /\ st.o # All /\ NamedList(pol, <<st.t, st.c, st.o>>) # <<>>
    \/ st.cmd = "attribute" /\ st.s \in pol.names \ pol.attrs

\* A later statement of a batch that takes back an earlier one, or that brings
\* a name under it.
Overrides(b, a) ==
    \/ {a.cmd, b.cmd} \in {{"allow", "deny"}, {"permissive", "enforce"}}
    \/ /\ a.cmd = b.cmd /\ a.cmd \in TransCmds /\ <<a.t, a.c>> = <<b.t, b.c>>
       /\ IF a.cmd = "type_transition" /\ a.o # All THEN a.o = b.o ELSE a.s = b.s
    \/ /\ a.cmd \in AvCmds \cup XpermCmds /\ All \in {a.s, a.t}
       /\ b.cmd \in {"type", "attribute", "typeattribute"}

\* Does a policy say all that the statements say which made it?  Each is silent
\* where it is carried out, or overridden by a later one, or said.
SaysAll(pol, was, stmts) ==
    \E garbage \in Ranges :
        LET after == After(was, stmts, garbage)
        IN /\ pol = after[Len(stmts)].pol
           /\ \A i \in 1..Len(stmts) :
                 \/ Silent(after[i - 1].pol, stmts[i])
                 \/ \E j \in (i + 1)..Len(stmts) : Overrides(stmts[j], stmts[i])
                 \/ Says(pol, stmts[i])

\* A batch whose every statement was counted, which the daemon reports as a
\* success, says in the published policy all it said: nothing is reported as
\* applied that was not, save the Silent statements, and nothing is undone by
\* another statement that does not override it.
SuccessInForce ==
    \A c \in Daemons :
        cl[c].pc = "sync" /\ cl[c].count = Len(cl[c].stmts) =>
            SaysAll(mem[live], mem[cl[c].old], cl[c].stmts)
=============================================================================

---------------------------- MODULE PolicyRules ----------------------------
(***************************************************************************)
(* What one statement of a policy batch does to a policy database          *)
(* (core/tamisu_sepolicy.c, with the command switch of                     *)
(* core/tamisu_rules.c).                                                   *)
(*                                                                         *)
(* A policy is what can be asked of it: the names and which of them are    *)
(* attributes, and the rules as tuples of the names they were written      *)
(* with.  An access vector node exists as long as its data is not the      *)
(* default, so a set of tuples stands for the table.                       *)
(* A statement has five arguments; one that is absent is All on the wire.  *)
(* Constraints, roles and the size of the serialised policy are left out,  *)
(* and so are allocations that fail half-way through a statement.          *)
(***************************************************************************)
EXTENDS Sequences, SequencesExt

CONSTANTS
    Names,      \* names of types and attributes, declared or not
    PermsOf,    \* the permissions of each class
    DriverOf    \* the ioctl driver of each readable range

All == "*"
Braced == "{ }"       \* a range in braces, which sscanf cannot read
Classes == DOMAIN PermsOf
Perms == UNION {PermsOf[c] : c \in Classes}
Ranges == DOMAIN DriverOf

ASSUME PolicyAssumption == All \notin Names \cup Classes \cup Perms \cup Ranges

\* A policy is a record of these.
Parts == {"names", "attrs", "has", "allow", "audit", "noaudit", "xperm", "permissive", "trans", "named"}
IsPolicy(pol) == pol = [part \in Parts |-> pol[part]]

AvCmds == {"allow", "deny", "auditallow", "dontaudit"}
XpermCmds == {"allowxperm", "auditallowxperm", "dontauditxperm"}
TransCmds == {"type_transition", "type_change", "type_member"}

Done(pol) == [ok |-> TRUE, pol |-> pol]
Fail(pol) == [ok |-> FALSE, pol |-> pol]

\* A name that All stands for.  A removal visits every name, an addition only
\* the attributes.
Over(pol, n, strip) == IF n # All THEN {n} ELSE IF strip THEN pol.names ELSE pol.attrs

ClassesOf(st) == IF st.c = All THEN Classes ELSE {st.c}

Keys(pol, st, strip) == Over(pol, st.s, strip) \X Over(pol, st.t, strip) \X ClassesOf(st)

\* The tuples a statement speaks of.
Tuples(pol, st, strip) ==
    UNION {{<<k[1], k[2], k[3], p>> : p \in IF st.p = All THEN PermsOf[k[3]] ELSE {st.p}} :
           k \in Keys(pol, st, strip)}

Found(pol, st) == {st.s, st.t} \subseteq pol.names \cup {All} /\ st.c \in Classes \cup {All}

\* Bits cleared; a node left with none is removed (remove_avtab_node).
Cleared(rel, S) == rel \ S

\* Is there a node of the silenced denials for this tuple's key?
HasNode(pol, x) == \E y \in pol.noaudit : SubSeq(y, 1, 3) = SubSeq(x, 1, 3)

AddRuleMut(pol, st) ==
    IF ~Found(pol, st) \/ (st.p # All /\ (st.c = All \/ st.p \notin PermsOf[st.c]))
    THEN Fail(pol)
    ELSE Done(CASE st.cmd = "allow"      -> [pol EXCEPT !.allow = @ \cup Tuples(pol, st, FALSE)]
                [] st.cmd = "deny"       -> [pol EXCEPT !.allow = Cleared(@, Tuples(pol, st, FALSE))]
                [] st.cmd = "auditallow" -> [pol EXCEPT !.audit = @ \cup Tuples(pol, st, FALSE)]
                [] st.cmd = "dontaudit"  ->
                     [pol EXCEPT !.noaudit = @ \cup {x \in Tuples(pol, st, FALSE) : HasNode(pol, x)}])

\* add_rule, add_rule_raw.  dontaudit clears bits of a node that is there and
\* makes none.
AddRule(pol, st) ==
    IF ~Found(pol, st) \/ (st.p # All /\ (st.c = All \/ st.p \notin PermsOf[st.c]))
    THEN Fail(pol)
    ELSE Done(CASE st.cmd = "allow"      -> [pol EXCEPT !.allow = @ \cup Tuples(pol, st, FALSE)]
                [] st.cmd = "deny"       -> [pol EXCEPT !.allow = Cleared(@, Tuples(pol, st, TRUE))]
                [] st.cmd = "auditallow" -> [pol EXCEPT !.audit = @ \cup Tuples(pol, st, FALSE)]
                [] st.cmd = "dontaudit"  ->
                     [pol EXCEPT !.noaudit = @ \cup {x \in Tuples(pol, st, FALSE) : HasNode(pol, x)}])

\* Nodes of extended permissions are found by their driver.
SameDriver(pol, x) == \E y \in pol.xperm : SubSeq(y, 1, 4) = SubSeq(x, 1, 4)
                                           /\ DriverOf[y[5]] = DriverOf[x[5]]

\* add_xperm_rule, add_xperm_rule_raw: a node that is there keeps its bits.  A
\* range that sscanf cannot read leaves the variable as it was: garbage.
AddXperm(pol, st, garbage) ==
    IF ~Found(pol, st) THEN Fail(pol)
    ELSE LET range == IF st.p = Braced THEN garbage ELSE st.p
             new == {<<st.cmd, k[1], k[2], k[3], range>> : k \in Keys(pol, st, FALSE)}
         IN Done([pol EXCEPT !.xperm = @ \cup {x \in new : ~SameDriver(pol, x)}])

\* add_type_rule: the last statement for a key wins.
AddTypeRule(pol, st) ==
    IF ~Found(pol, st) \/ st.p \notin pol.names THEN Fail(pol)
    ELSE Done([pol EXCEPT !.trans = {x \in @ : SubSeq(x, 1, 4) # <<st.cmd, st.s, st.t, st.c>>}
                                    \cup {<<st.cmd, st.s, st.t, st.c, st.p>>}])

\* What the table of named transitions has for a key.
NamedList(pol, key) == IF key \in DOMAIN pol.named THEN pol.named[key] ELSE <<>>

\* add_filename_trans: the list of one key, each element the sources that get
\* one default.  Overwriting changes the default of the whole element; a new
\* element for a key that has a list is not inserted in the table.
AddFilenameTrans(pol, st) ==
    IF ~Found(pol, st) \/ st.p \notin pol.names THEN Fail(pol)
    ELSE LET key == <<st.t, st.c, st.o>>
             list == NamedList(pol, key)
             hits == {i \in DOMAIN list : st.s \in list[i].from \/ list[i].to = st.p}
             i == CHOOSE m \in hits : \A n \in hits : m <= n
             new == IF list = <<>> THEN <<[from |-> {st.s}, to |-> st.p]>>
                    ELSE IF hits = {} THEN list
                    ELSE IF st.s \in list[i].from THEN [list EXCEPT ![i].to = st.p]
                    ELSE [list EXCEPT ![i].from = @ \cup {st.s}]
         IN Done([pol EXCEPT !.named = [k \in DOMAIN @ \cup {key} |-> IF k = key THEN new ELSE @[k]]])

\* add_type: a name that is declared is left as it is, whatever it is.
AddType(pol, n, attr) ==
    IF n \in pol.names THEN pol
    ELSE [pol EXCEPT !.names = @ \cup {n}, !.attrs = IF attr THEN @ \cup {n} ELSE @]

\* add_typeattribute, add_typeattribute_raw.
AddTypeAttribute(pol, st) ==
    IF st.s \in pol.names \ pol.attrs /\ st.t \in pol.attrs
    THEN Done([pol EXCEPT !.has = @ \cup {<<st.s, st.t>>}])
    ELSE Fail(pol)

\* set_type_state.
SetTypeState(pol, st) ==
    IF st.s \notin pol.names THEN Fail(pol)
    ELSE Done([pol EXCEPT !.permissive =
                  IF st.cmd = "permissive" THEN @ \cup {st.s} ELSE @ \ {st.s}])

\* The arguments that sepol_require_not_all refuses to take as All.
Required(st) ==
    CASE st.cmd \in AvCmds -> {}
      [] st.cmd \in XpermCmds -> {st.o, st.p}
      [] st.cmd \in TransCmds -> {st.s, st.t, st.c, st.p}
      [] st.cmd \in {"type", "typeattribute"} -> {st.s, st.t}
      [] OTHER -> {st.s}

\* apply_one_sepolicy_cmd.  tamisu_genfscon has no implementation, and fails as
\* an unknown command does.
Apply(pol, st, garbage) ==
    IF All \in Required(st) THEN Fail(pol)
    ELSE CASE st.cmd \in AvCmds -> AddRule(pol, st)
           [] st.cmd \in XpermCmds -> AddXperm(pol, st, garbage)
           [] st.cmd = "type_transition" /\ st.o # All -> AddFilenameTrans(pol, st)
           [] st.cmd \in TransCmds /\ (st.cmd # "type_transition" \/ st.o = All) -> AddTypeRule(pol, st)
           [] st.cmd = "type" -> AddTypeAttribute(AddType(pol, st.s, FALSE), st)
           [] st.cmd = "attribute" -> Done(AddType(pol, st.s, TRUE))
           [] st.cmd = "typeattribute" -> AddTypeAttribute(pol, st)
           [] st.cmd \in {"permissive", "enforce"} -> SetTypeState(pol, st)
           [] OTHER -> Fail(pol)

\* The loop of handle_sepolicy: a statement that fails is passed over.
Turn(acc, st, garbage) ==
    LET r == Apply(acc.pol, st, garbage)
    IN [pol |-> r.pol, count |-> acc.count + (IF r.ok THEN 1 ELSE 0)]

\* What there is after each number of statements, and after all.
After(pol, stmts, garbage) ==
    LET after[i \in 0..Len(stmts)] ==
            IF i = 0 THEN [pol |-> pol, count |-> 0] ELSE Turn(after[i - 1], stmts[i], garbage)
    IN after

Run(pol, stmts, garbage) == After(pol, stmts, garbage)[Len(stmts)]

-----------------------------------------------------------------------------
(* What the kernel and a process read from a policy.                        *)

\* A type and the attributes it has.
Reach(pol, n) == {n} \cup {a \in pol.attrs : <<n, a>> \in pol.has}

\* The types a name in a rule speaks of.
Members(pol, n) == IF n = All THEN pol.names \ pol.attrs
                   ELSE IF n \in pol.attrs THEN {m \in pol.names : <<m, n>> \in pol.has} ELSE {n}

\* context_struct_compute_av: is the tuple in one of the relations?
InForce(pol, rel, x) ==
    \E s \in Reach(pol, x[1]), t \in Reach(pol, x[2]) : <<s, t, x[3], x[4]>> \in rel

\* filename_compute_type: the default a named creation gets, if any.
NamedDefault(pol, st) ==
    LET list == NamedList(pol, <<st.t, st.c, st.o>>)
        hits == {i \in DOMAIN list : st.s \in list[i].from}
    IN {list[CHOOSE i \in hits : \A j \in hits : i <= j].to : h \in hits}
=============================================================================

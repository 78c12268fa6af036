---------------------------- MODULE MCLivePolicy ----------------------------
EXTENDS LivePolicy

MCNames == {"app", "su", "tmpfs", "domain", "file_type", "su_file", "mod", "ghost"}
MCPermsOf == [c \in {"file", "dir"} |-> IF c = "file" THEN {"read", "execute"} ELSE {"search"}]
MCDriverOf == [r \in {"all", "r1", "r2", "q1"} |-> IF r \in {"r1", "r2"} THEN "r" ELSE r]
MCTooLong == {"long"}

MCStock ==
    [names |-> {"app", "su", "tmpfs", "domain", "file_type"}, attrs |-> {"domain", "file_type"},
     has |-> {<<"app", "domain">>, <<"su", "domain">>, <<"tmpfs", "file_type">>},
     allow |-> {<<"domain", "file_type", "file", "read">>, <<"app", "tmpfs", "dir", "search">>},
     audit |-> {}, noaudit |-> {<<"app", "tmpfs", "file", "execute">>}, xperm |-> {},
     permissive |-> {}, trans |-> {},
     named |-> <<>>]

MCLoadRules == [t \in Targets |-> {<<"app", "tmpfs", "file", "read">>, <<"app", "tmpfs", "file", "execute">>}]
MCQueries == {<<"app", "tmpfs", "file", "execute">>, <<"app", "tmpfs", "dir", "search">>}

R(cmd, s, t, c, p, o) == [cmd |-> cmd, s |-> s, t |-> t, c |-> c, p |-> p, o |-> o]

MCTexts == {
    \* a rule that may be on loan
    <<R("allow", {"app"}, {"tmpfs"}, {"file"}, {"execute"}, All)>>,
    \* a new type and its rules
    <<R("type", {"mod"}, {"domain"}, {All}, {All}, All),
      R("allow", {"mod"}, {"tmpfs"}, {"file"}, {"read", "execute"}, All)>>,
    \* a type of an attribute there is not, another without any
    <<R("type", {"mod"}, {"ghost"}, {All}, {All}, All), R("type", {"ghost"}, {}, {All}, {All}, All),
      R("permissive", {"app"}, {All}, {All}, {All}, All)>>,
    \* everything for everyone; a name too long for the wire
    <<R("attribute", {"mod"}, {All}, {All}, {All}, All), R("allow", {"long"}, {"tmpfs"}, {All}, {All}, All)>>,
    \* taking away
    <<R("deny", {All}, {"tmpfs"}, {"file", "dir"}, {All}, All), R("enforce", {"app"}, {All}, {All}, {All}, All)>>,
    \* extended permissions, twice for one driver, in braces and once more, and
    \* for every name before there is another
    <<R("allowxperm", {"app"}, {"tmpfs"}, {"file"}, {"r1"}, "ioctl"),
      R("allowxperm", {"app"}, {"tmpfs"}, {"file"}, {"r2"}, "ioctl"),
      R("auditallowxperm", {"app"}, {"tmpfs"}, {"file"}, {Braced}, "ioctl"),
      R("auditallowxperm", {"app"}, {"tmpfs"}, {"file"}, {"r1"}, "ioctl"),
      R("dontauditxperm", {All}, {"tmpfs"}, {"file"}, {"r1"}, "ioctl"),
      R("attribute", {"mod"}, {All}, {All}, {All}, All)>>,
    \* transitions, named and not
    <<R("type_transition", {"app"}, {"tmpfs"}, {"file"}, {"su_file"}, All),
      R("type_member", {"app"}, {"tmpfs"}, {"file"}, {"su"}, All),
      R("type_transition", {"app"}, {"tmpfs"}, {"file"}, {"su_file"}, "socket"),
      R("type_transition", {"su"}, {"tmpfs"}, {"file"}, {"su_file"}, "socket"),
      R("type_transition", {"app"}, {"tmpfs"}, {"file"}, {"su"}, "socket"),
      R("type_transition", {"tmpfs"}, {"tmpfs"}, {"file"}, {"app"}, "socket")>>,
    \* silenced denials, where there is a node and where there is none
    <<R("dontaudit", {"app"}, {"tmpfs"}, {"file"}, {"read"}, All),
      R("dontaudit", {"su"}, {"tmpfs"}, {"dir"}, {"search"}, All),
      R("auditallow", {"app"}, {"tmpfs"}, {"file"}, {"read"}, All)>>,
    \* an attribute for a type there is, a list where a word is expected, a label
    \* that cannot be
    <<R("typeattribute", {"app"}, {"file_type"}, {All}, {All}, All),
      R("type_change", {"app", "su"}, {"tmpfs"}, {"file"}, {"su"}, All),
      R("genfscon", {"ghost"}, {"ghost"}, {"ghost"}, {All}, All)>>,
    \* a text that does not parse, one that says nothing, one too large
    <<R("unknown", {}, {}, {}, {}, All), R("permissive", {"app"}, {All}, {All}, {All}, All)>>,
    <<R("allow", {}, {"tmpfs"}, {"file"}, {"read"}, All)>>,
    <<R("allow", {"app", "su"}, {"tmpfs"}, {"file"}, {"read", "execute"}, All),
      R("allow", {"app", "su"}, {"su_file"}, {"file"}, {"read", "execute"}, All)>>}
=============================================================================

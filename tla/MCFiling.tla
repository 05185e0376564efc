------------------------------ MODULE MCFiling ------------------------------
(***************************************************************************)
(* Filing for TLC.  "sy" is the one denied segment; a second has two ticks *)
(* so that a ttl may have a fraction.                                      *)
(***************************************************************************)
EXTENDS PatternPairs

MCLetter == {"a", "b", "s", "y", "S", "+", "*", ".", "$"}
MCDenied == {<<"s", "y">>}
MCLowerCase == [l \in {"S"} |-> "s"]
MCCapabilities == {"read", "list"}
MCSpelling == [read |-> "read", READ |-> "read", list |-> "list", sudo |-> "sudo"]
MCForbidden == {"$"}

a == <<"a">>
b == <<"b">>
ab == <<"a", "b">>
s == <<"s">>
sy == <<"s", "y">>
Sy == <<"S", "y">>
e == <<>>
Literal(path) == [parts |-> path, glob |-> FALSE]
Globbed(path) == [parts |-> path, glob |-> TRUE]

Listed(name, path, capabilities, maxTTL, discover) ==
    [name |-> name, path |-> path, capabilities |-> capabilities, maxTTL |-> maxTTL, discover |-> discover]
Entries == [
    all    |-> Listed("all", Globbed(<<a, e>>), {"read", "list"}, NoTTL, <<b, e>>),
    begin  |-> Listed("begin", Globbed(<<a, a>>), {"read"}, 8, <<e>>),
    any    |-> Listed("any", Literal(<<a, Plus>>), {"read"}, 5, <<b>>),
    nested |-> Listed("nested", Globbed(<<a, Plus, a>>), {"list"}, 3, <<e>>),
    \* what no server starts with
    blank  |-> Listed("", Literal(<<a, a>>), {"read"}, 8, <<e>>),
    short  |-> Listed("short", Literal(<<a, a>>), {"read"}, 1, <<e>>),
    deny   |-> Listed("deny", Globbed(<<a, s>>), {"read"}, NoTTL, <<e>>),
    wild   |-> Listed("wild", Literal(<<a, Plus, Plus>>), {"read"}, NoTTL, <<b>>),
    sudo   |-> Listed("sudo", Literal(<<a, b>>), {"sudo"}, NoTTL, <<e>>)]
Groups == {<<>>} \cup {<<x>> : x \in DOMAIN Entries}
          \cup {<<x, y>> : x, y \in {"all", "begin", "any", "nested"}}
          \cup {<<"all", "begin", "any">>, <<"nested", "any", "all">>}

Source(name, role, mount) == [name |-> name, role |-> role, mount |-> mount]
Jwt == Source("jwt", "", <<a>>)
Jwt2 == Source("jwt2", "", <<ab>>)
Role == Source("role", "agent", <<>>)

Plain == [defaultTTL |-> NoTTL, pendingTTL |-> NoTTL, sessionTTL |-> NoTTL, grantable |-> <<>>,
          requesters |-> <<Jwt>>, login |-> [address |-> TRUE, methods |-> <<>>],
          keyBytes |-> 32, token |-> TRUE, approverPolicy |-> TRUE, publicOrigin |-> TRUE,
          insecureCookies |-> FALSE, webPush |-> <<>>]
WithRules == {[Plain EXCEPT !.grantable = [i \in DOMAIN g |-> Entries[g[i]]], !.defaultTTL = ttl] :
                 g \in Groups, ttl \in {NoTTL, 1, 7}}
Method(type, mount, role) == [type |-> type, mount |-> mount, role |-> role]
Others == {[Plain EXCEPT !.requesters = r] : r \in {<<>>, <<Jwt, Jwt2>>, <<Jwt2, Role, Jwt>>, <<Role, Jwt>>,
                 <<Jwt, Jwt>>, <<Source("both", "agent", <<a>>)>>, <<Source("none", "", <<>>)>>}}
    \cup {[Plain EXCEPT !.pendingTTL = 1], [Plain EXCEPT !.sessionTTL = 1], [Plain EXCEPT !.keyBytes = 16],
          [Plain EXCEPT !.token = FALSE], [Plain EXCEPT !.approverPolicy = FALSE],
          [Plain EXCEPT !.publicOrigin = FALSE], [Plain EXCEPT !.login.address = FALSE]}
    \cup {[Plain EXCEPT !.webPush = w] : w \in {<<"complete">>, <<"partial">>, <<"complete", "complete">>}}
    \cup {[Plain EXCEPT !.login.methods = m] : m \in {<<Method("oidc", "", "human"), Method("token", "", "")>>,
            <<Method("ldap", "", "human")>>, <<Method("saml", "", "")>>, <<Method("github", "gh", "")>>}}
MCFiles == WithRules \cup Others

MCTokens == [mount : {<<a>>, <<ab>>, <<b, a>>}, login : {<<b>>, <<b, a>>}, role : {"", "agent"},
             entity : {"e1", ""}, lookup : {"found", "invalid_token", "unavailable"}]

Input(path, capabilities, ttl) == [path |-> path, capabilities |-> capabilities, ttl |-> ttl]
Reasonable == {Input(path, c, ttl) : path \in {<<a, a>>, <<a, b>>, <<a, ab>>, <<a, b, a>>},
                                     c \in {{"read"}, {"READ", "list"}}, ttl \in {NoTTL, 5, 8}}
Odd == {Input(path, {"read"}, NoTTL) : path \in {<<e>>, <<b, b>>, <<a, Sy>>, <<a, sy, a>>, <<a, e>>, <<a, e, b>>,
                                           <<a, Plus>>, <<e, a>>, <<a, Dot>>, <<a, <<"$">>>>, <<a, a, a, a, a>>}}
       \cup {Input(<<a, a>>, c, NoTTL) : c \in {{}, {"sudo"}}} \cup {Input(<<a, a>>, {"list"}, ttl) : ttl \in {0, 1}}
AllInputs == Reasonable \cup Odd
FewInputs == {Input(<<a, a>>, {"read"}, NoTTL), Input(<<a, a>>, {"READ"}, 4), Input(<<a, a>>, {"list"}, 4),
              Input(<<a, b, a>>, {"list"}, NoTTL), Input(<<a, Sy>>, {"read"}, NoTTL)}
MCListings == SUBSET {<<a>>, <<b>>, <<ab>>, <<Sy>>, <<b, e>>, <<Dot>>} \cup {{<<e>>}, {<<a, b>>}}
FewListings == {{<<a>>, <<Sy>>}}
MCGrantings == {{}, {"read"}, {"root"}, {"deny", "read"}}
Nothing == {{}}
RuleFiles == {[Plain EXCEPT !.grantable = [i \in DOMAIN g |-> Entries[g[i]]]] :
                 g \in {<<"all">>, <<"begin", "nested">>, <<"any", "all">>}}

Segments == {e, a, s, sy, Sy}
MCPaths == UNION {[1..n -> Segments] : n \in 1..3}
MCPatterns == [parts : UNION {[1..n -> Segments \cup {Plus}] : n \in 1..3}, glob : BOOLEAN]
=============================================================================

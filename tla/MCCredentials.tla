--------------------------- MODULE MCCredentials ---------------------------
(***************************************************************************)
(* One input at a time: a dot path, mapped values, an environment, a       *)
(* combination of flags or an item, and what Credentials makes of it.      *)
(***************************************************************************)
EXTENDS Credentials, TLC

VARIABLE input


Texts(Alphabet, n) == UNION {[1..k -> Alphabet] : k \in 0..n}

-----------------------------------------------------------------------------
(* Fields: every address in a tree of objects, a list and scalars.          *)

Keys == Texts({"A", ".", "\\", "0"}, 2) \ {<<>>}
Scalar(text) == [kind |-> "scalar", text |-> text]
Object(at) == [kind |-> "object", at |-> at]
\* Under a key of one character an object, under "00" a list, else a scalar.
Data == Object([key \in Keys |->
    IF Len(key) = 1 THEN Object([k \in Keys |-> Scalar(key \o <<"/">> \o k)])
    ELSE IF key = <<"0", "0">> THEN [kind |-> "list", at |-> <<Scalar(<<"A">>), Object([k \in Keys |-> Scalar(k)])>>]
    ELSE Scalar(key)])
Number(i) == IF i = 1 THEN <<"0">> ELSE <<"1">>
Children(value) ==
    IF value.kind = "list" THEN {<<Number(i), value.at[i]>> : i \in DOMAIN value.at}
    ELSE IF value.kind = "object" THEN {<<k, value.at[k]>> : k \in DOMAIN value.at}
    ELSE {}
\* A field's name as the README writes it: backslashes before the dots of a
\* key, and before the backslashes.
Written(key) == Replace(key, [ch \in {".", "\\"} |-> <<"\\", ch>>])
Fields ==
    LET one == {<<Written(c[1]), c[2]>> : c \in Children(Data)}
        two == UNION {{<<f[1] \o <<".">> \o Written(c[1]), c[2]>> : c \in Children(f[2])} : f \in one}
        three == UNION {{<<f[1] \o <<".">> \o Written(c[1]), c[2]>> : c \in Children(f[2])} : f \in two}
    IN  one \cup two \cup three

-----------------------------------------------------------------------------
(* The readers of the rendered text, as state machines over its characters. *)

Reader == [mode |-> "start", name |-> <<>>, word |-> <<>>, set |-> <<>>]
Take(r, ch) == [r EXCEPT !.word = Append(@, ch)]
To(r, mode) == [r EXCEPT !.mode = mode]
Done(r) == [mode |-> "start", name |-> <<>>, word |-> <<>>, set |-> Append(r.set, <<r.name, r.word>>)]
Name(r, ch, next) == IF ch = "=" THEN To(r, next) ELSE [r EXCEPT !.name = Append(@, ch)]
\* A POSIX shell on lines of `export NAME=word`.
ShellStep(r, ch) ==
    CASE r.mode = "start" -> To(r, IF ch = "export " THEN "name" ELSE "bad")
      [] r.mode = "name" -> Name(r, ch, "word")
      [] r.mode = "word" -> CASE ch = "'" -> To(r, "single") [] ch = "\"" -> To(r, "double")
                              [] ch = "\n" -> Done(r) [] ch \in {"$", "\\", "NUL"} -> To(r, "bad")
                              [] OTHER -> Take(r, ch)
      [] r.mode = "single" -> IF ch = "'" THEN To(r, "word") ELSE Take(r, ch)
      [] r.mode = "double" -> CASE ch = "\"" -> To(r, "word") [] ch \in {"$", "\\"} -> To(r, "bad")
                                [] OTHER -> Take(r, ch)
      [] OTHER -> r
\* A reader of dotenv files, with double-quoted values and escapes.
DotenvStep(r, ch) ==
    CASE r.mode = "start" -> Name(To(r, "name"), ch, "bad")
      [] r.mode = "name" -> Name(r, ch, "quote")
      [] r.mode = "quote" -> To(r, IF ch = "\"" THEN "double" ELSE "bad")
      [] r.mode = "double" -> CASE ch = "\"" -> To(r, "end") [] ch = "\\" -> To(r, "escape")
                                [] ch = "\n" -> To(r, "bad") [] OTHER -> Take(r, ch)
      [] r.mode = "escape" -> To(Take(r, IF ch = "n" THEN "\n" ELSE ch), "double")
      [] r.mode = "end" -> IF ch = "\n" THEN Done(r) ELSE To(r, "bad")
      [] OTHER -> r
Read(Step(_, _), text) == LET r == FoldLeft(Step, Reader, text) IN IF r.mode = "start" THEN r.set ELSE <<>>

-----------------------------------------------------------------------------
Entry(name, value) == name \o <<"=">> \o value
Values == Texts({"A", "=", "'", "\"", "\\", "$", "\n", "NUL"}, 3)
\* An environment with each name unset, blank or set.
Environments ==
    LET Some(name) == {<<>>, <<Entry(name, <<>>)>>, <<Entry(name, <<" ">>)>>, <<Entry(name, <<"A">>)>>}
    IN  {a \o b \o c \o d : a \in Some(<<"BAO_TOKEN">>), b \in Some(<<"VAULT_TOKEN">>),
                            c \in Some(TokenFileOff), d \in Some(<<"B">>)}
Mapped == {<<>>} \cup {<<Entry(n, <<"B">>)>> : n \in {<<"A">>, <<"B">>, <<"BAO_TOKEN">>, <<"B", "0">>}}
             \cup {<<Entry(<<"B">>, <<"=">>), Entry(<<"A">>, <<>>)>>}
FlagSets == [format : {"json", "template", "dotenv", "shell", "other"}, field : BOOLEAN, template : BOOLEAN,
             output : BOOLEAN, timeout : {0, 1}]
RawLists == {<<>>, <<<<"A", "=", "A">>>>, <<<<"0", "=", "A">>>>, <<<<"A", "=">>>>, <<<<"A">>>>,
             <<<<"A", "=", "A">>, <<"B", "=", "A">>>>, <<<<"A", "=", "A">>, <<"A", "=", "B">>>>}

None == [about |-> "nothing"]
Init == input = None
PickField == \E field \in Fields : input' = [about |-> "field", path |-> field[1], value |-> field[2]]
PickValues == \E v \in Values, w \in {<<>>, <<"A", "'">>} :
                 input' = [about |-> "values", entries |-> <<v, w>>]
PickEnvironment == \E env \in Environments, mapped \in Mapped, file \in {<<>>, <<"B">>} :
                      input' = [about |-> "environment", env |-> env, mapped |-> mapped, file |-> file]
PickFlags == \E flags \in FlagSets, raw \in RawLists, n \in 0..2, dash \in -1..2 :
                /\ dash <= n
                /\ input' = [about |-> "flags", flags |-> flags, raw |-> raw, n |-> n, dash |-> dash]
PickItem == \E path \in Texts({"A", "=", ",", " "}, 3), caps \in {<<<<"A">>>>, <<<<"A">>, <<"B">>>>} :
               input' = [about |-> "item", path |-> path, caps |-> caps]
Next == input = None /\ (PickField \/ PickValues \/ PickEnvironment \/ PickFlags \/ PickItem)
Spec == Init /\ [][Next]_input

-----------------------------------------------------------------------------
\* Every field of the data object can be named, whatever characters its keys
\* hold, and the name selects that field and no other.
PathsReachEveryField ==
    input.about = "field" => selectValue(Data, input.path) = input.value

\* A shell and a dotenv reader set each mapped name to exactly the value read
\* from OpenBao; a value with a NUL, which neither can hold, fails everything.
RenderedValuesReadBack ==
    input.about = "values" =>
        LET data == Object([k \in {<<"A">>, <<"B">>} |-> Scalar(input.entries[IF k = <<"A">> THEN 1 ELSE 2])])
            resolved == resolveMappings(data, << [Name |-> <<"A", "0">>, Path |-> <<"A">>],
                                                 [Name |-> <<"B">>, Path |-> <<"B">>] >>)
            Wanted == << <<<<"A", "0">>, input.entries[1]>>, <<<<"B">>, input.entries[2]>> >>
        IN  IF Contains(input.entries[1], "NUL") THEN resolved.failed
            ELSE /\ ~resolved.failed
                 /\ Read(ShellStep, renderShell(resolved.entries)) = Wanted
                 /\ Read(DotenvStep, renderDotenv(resolved.entries)) = Wanted

\* The child of command mode has the mapped values, none of the Requester's
\* token variables it was not mapped, and everything else as it was; with
\* BAO_NO_TOKEN_FILE a bao-cred it runs has no token at all.
CommandsGetOnlyMapped ==
    input.about = "environment" =>
        LET child == mergeEnvironment(input.env, input.mapped)
            MappedNames == {Cut(input.mapped[i], "=")[1] : i \in DOMAIN input.mapped}
            EnvNames == {Cut(input.env[i], "=")[1] : i \in DOMAIN input.env}
        IN  /\ \A name \in EnvNames \cup MappedNames \cup TokenNames :
                  Getenv(child, name) = IF name \in MappedNames THEN Getenv(input.mapped, name)
                                        ELSE IF name \in TokenNames THEN <<>>
                                        ELSE Getenv(input.env, name)
            /\ MappedNames \cap TokenNames = {} /\ Getenv(input.env, TokenFileOff) # <<>> =>
                  requesterToken(child, input.file) = <<>>

\* On an accepted command line --field, --template, --output, --map and the
\* command each have a say in what is delivered where: none of them overrides
\* another; a format that is not the default is the one printed, and no name is
\* mapped twice.  This says nothing of "--format json", which the code cannot
\* tell from the default: with --field or --template it is accepted, and what
\* they select is printed.
OutputFlagsHaveASay ==
    input.about = "flags" =>
        LET parsed == parseOptions(input.flags, input.raw, [i \in 1..input.n |-> "argument"], input.dash)
            o == parsed.options
            Given == {f \in {"field", "template", "output", "command"} : o[f]}
                        \cup (IF o.mappings # <<>> THEN {"mappings"} ELSE {})
        IN  ~parsed.failed =>
                /\ Given \subseteq Delivery(o).uses
                /\ o.format # "json" => Delivery(o).form = o.format
                /\ input.dash >= 0 => o.command /\ input.n > input.dash
                /\ Cardinality({o.mappings[i].Name : i \in DOMAIN o.mappings}) = Len(o.mappings)

\* An item asks for the path and the capabilities its text shows, whatever "="
\* and "," the path holds.
ItemsReadAsWritten ==
    input.about = "item" =>
        LET listed == Tail(FlattenSeq([i \in DOMAIN input.caps |-> <<",">> \o input.caps[i]]))
            parsed == parseItem(input.path \o <<"=">> \o listed)
        IN  IF TrimSpace(input.path) = <<>> THEN parsed.failed
            ELSE /\ ~parsed.failed
                 /\ parsed.path = TrimSpace(input.path)
                 /\ parsed.capabilities = input.caps
=============================================================================

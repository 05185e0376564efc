---------------------------- MODULE Credentials ----------------------------
(***************************************************************************)
(* What `bao-cred read` makes of its flags, of the environment and of the  *)
(* data object it read: which combinations of flags it takes, where the    *)
(* Requester's token comes from, which field a dot path selects, and the   *)
(* text or the child's environment the mapped fields end up in.  A text is *)
(* a sequence of characters where a property is about its quoting.         *)
(***************************************************************************)
EXTENDS Integers, FiniteSets, SequencesExt

CONSTANTS NameStarts,   \* the characters a name may start with
          Digits,       \* [decimal digit -> its number]
          Blanks        \* the characters TrimSpace removes

Failed == [failed |-> TRUE]

\* strings.Cut at the first separator, and the cut at the last one.
Cut(text, separator) ==
    IF Contains(text, separator)
    THEN LET i == SelectInSeq(text, LAMBDA ch : ch = separator)
         IN  <<SubSeq(text, 1, i - 1), SubSeq(text, i + 1, Len(text))>>
    ELSE <<text, <<>>>>
CutLast(text, separator) ==
    LET i == SelectLastInSeq(text, LAMBDA ch : ch = separator)
    IN  <<SubSeq(text, 1, i - 1), SubSeq(text, i + 1, Len(text))>>
TrimSpace(text) ==
    LET Solid == {i \in DOMAIN text : text[i] \notin Blanks}
    IN  IF Solid = {} THEN <<>>
        ELSE SubSeq(text, CHOOSE i \in Solid : \A j \in Solid : i <= j,
                          CHOOSE i \in Solid : \A j \in Solid : i >= j)
Replace(text, table) ==
    FlattenSeq([i \in DOMAIN text |->
        IF text[i] \in DOMAIN table THEN table[text[i]] ELSE <<text[i]>>])
Split(text, separator) ==
    FoldLeft(LAMBDA parts, ch :
        IF ch = separator THEN Append(parts, <<>>)
        ELSE [parts EXCEPT ![Len(parts)] = Append(@, ch)], <<<<>>>>, text)

-----------------------------------------------------------------------------
(* Fields.  A value of the data object is a scalar, an object or a list.    *)

Missing == [kind |-> "missing"]

\* A backslash takes the next character as it is; a dot ends a segment, which
\* must not be empty.
\* Mutant: a backslash only goes before a dot.
SplitStepDots(s, ch) ==
    IF s.failed THEN s
    ELSE IF s.escaped THEN [s EXCEPT !.segment = @ \o (IF ch = "." THEN <<ch>> ELSE <<"\\", ch>>),
                                     !.escaped = FALSE]
    ELSE IF ch = "\\" THEN [s EXCEPT !.escaped = TRUE]
    ELSE IF ch # "." THEN [s EXCEPT !.segment = Append(@, ch)]
    ELSE IF s.segment = <<>> THEN [s EXCEPT !.failed = TRUE]
    ELSE [s EXCEPT !.segments = Append(@, s.segment), !.segment = <<>>]
SplitStep(s, ch) ==
    IF s.failed THEN s
    ELSE IF s.escaped THEN [s EXCEPT !.segment = Append(@, ch), !.escaped = FALSE]
    ELSE IF ch = "\\" THEN [s EXCEPT !.escaped = TRUE]
    ELSE IF ch # "." THEN [s EXCEPT !.segment = Append(@, ch)]
    ELSE IF s.segment = <<>> THEN [s EXCEPT !.failed = TRUE]
    ELSE [s EXCEPT !.segments = Append(@, s.segment), !.segment = <<>>]
splitPath(path) ==
    LET s == FoldLeft(SplitStep,
                      [segments |-> <<>>, segment |-> <<>>, escaped |-> FALSE, failed |-> FALSE], path)
    IN  IF s.failed \/ s.escaped \/ s.segment = <<>> THEN Failed
        ELSE [failed |-> FALSE, segments |-> Append(s.segments, s.segment)]

\* strconv.Atoi, -1 for what is no number: an index below zero is refused too.
Atoi(text) ==
    LET digits == IF text # <<>> /\ text[1] = "+" THEN Tail(text) ELSE text
    IN  IF digits = <<>> \/ \E i \in DOMAIN digits : digits[i] \notin DOMAIN Digits THEN -1
        ELSE FoldLeft(LAMBDA n, ch : 10 * n + Digits[ch], 0, digits)
Into(value, segment) ==
    CASE value.kind = "object" /\ segment \in DOMAIN value.at -> value.at[segment]
      [] value.kind = "list" /\ Atoi(segment) \in 0 .. Len(value.at) - 1 -> value.at[Atoi(segment) + 1]
      [] OTHER -> Missing
selectValue(data, path) ==
    LET split == splitPath(path)
    IN  IF split.failed THEN Missing ELSE FoldLeft(Into, data, split.segments)

-----------------------------------------------------------------------------
(* Mappings: NAME=path, resolved to the entries NAME=value.                 *)

validName(name) ==
    /\ name # <<>>
    /\ name[1] \in NameStarts
    /\ \A i \in DOMAIN name : name[i] \in NameStarts \cup DOMAIN Digits
parseMapping(value) ==
    LET parts == Cut(value, "=")
    IN  IF Contains(value, "=") /\ validName(parts[1]) /\ parts[2] # <<>>
        THEN [failed |-> FALSE, Name |-> parts[1], Path |-> parts[2]]
        ELSE Failed
\* All of the entries, or nothing: a missing field, one that is no scalar, a
\* NUL in a value and a name given twice fail the whole operation.
resolveMappings(data, mappings) ==
    LET Value(i) == selectValue(data, mappings[i].Path)
        Bad(i) == \/ \E j \in 1 .. i - 1 : mappings[j].Name = mappings[i].Name
                  \/ Value(i).kind # "scalar"
                  \/ Contains(Value(i).text, "NUL")
    IN  IF \E i \in DOMAIN mappings : Bad(i) THEN Failed
        ELSE [failed |-> FALSE,
              entries |-> [i \in DOMAIN mappings |-> mappings[i].Name \o <<"=">> \o Value(i).text]]

DotenvEscapes ==
    [ch \in {"\\", "\"", "\n"} |->
        CASE ch = "\\" -> <<"\\", "\\">> [] ch = "\"" -> <<"\\", "\"">> [] OTHER -> <<"\\", "n">>]
renderDotenv(entries) ==
    FlattenSeq([i \in DOMAIN entries |->
        LET entry == Cut(entries[i], "=")
        IN  entry[1] \o <<"=", "\"">> \o Replace(entry[2], DotenvEscapes) \o <<"\"", "\n">>])
\* Mutant: the quote is escaped by a backslash, which means nothing inside quotes.
ShellEscapesBackslash == [ch \in {"'"} |-> <<"\\", "'">>]
ShellEscapes == [ch \in {"'"} |-> <<"'", "\"", "'", "\"", "'">>]
renderShell(entries) ==
    FlattenSeq([i \in DOMAIN entries |->
        LET entry == Cut(entries[i], "=")
        IN  <<"export ">> \o entry[1] \o <<"=", "'">> \o Replace(entry[2], ShellEscapes) \o <<"'", "\n">>])

-----------------------------------------------------------------------------
(* The environment: a sequence of entries NAME=value.                       *)

TokenNames == {<<"BAO_TOKEN">>, <<"VAULT_TOKEN">>}
TokenFileOff == <<"BAO_NO_TOKEN_FILE">>
\* os.Getenv, <<>> for a name that is not set; os/exec keeps a name's last entry.
Getenv(environment, name) ==
    LET Entries == {i \in DOMAIN environment : Cut(environment[i], "=")[1] = name}
    IN  IF Entries = {} THEN <<>>
        ELSE Cut(environment[CHOOSE i \in Entries : \A j \in Entries : i >= j], "=")[2]
\* <<>> when there is no token: the command fails.
requesterToken(environment, file) ==
    LET FromBao == TrimSpace(Getenv(environment, <<"BAO_TOKEN">>))
        FromVault == TrimSpace(Getenv(environment, <<"VAULT_TOKEN">>))
    IN  IF FromBao # <<>> THEN FromBao
        ELSE IF FromVault # <<>> THEN FromVault
        ELSE IF Getenv(environment, TokenFileOff) # <<>> THEN <<>>
        ELSE TrimSpace(file)
\* Mutant: the names of the mapped entries stay, before those.
mergeEnvironmentFirst(environment, mapped) ==
    mapped \o SelectSeq(environment, LAMBDA entry : Cut(entry, "=")[1] \notin TokenNames)
\* The child's environment: without the token, and with the mapped entries
\* instead of those of the same names.
mergeEnvironment(environment, mapped) ==
    LET Names == TokenNames \cup {Cut(mapped[i], "=")[1] : i \in DOMAIN mapped}
    IN  SelectSeq(environment, LAMBDA entry : Cut(entry, "=")[1] \notin Names) \o mapped

-----------------------------------------------------------------------------
(* Flags.  field, template, output and command are whether they are given.  *)

ValidMappings(o) == \A i, j \in DOMAIN o.mappings : o.mappings[i].Name = o.mappings[j].Name => i = j
\* Mutant: --output is taken with a command, which writes no file.
validateOptionsOutput(o) ==
    LET Maps == o.mappings # <<>>
        Format == IF o.template /\ o.format = "json" THEN "template" ELSE o.format
    IN  /\ ValidMappings(o)
        /\ IF o.command
           THEN ~o.field /\ ~o.template /\ o.format = "json" /\ Maps
           ELSE IF o.field THEN o.format = "json" /\ ~o.template /\ ~Maps
           ELSE \/ Format = "json" /\ ~o.template /\ ~Maps
                \/ Format = "template" /\ o.template /\ ~Maps
                \/ Format \in {"dotenv", "shell"} /\ ~o.template /\ Maps
validateOptions(o) ==
    LET Maps == o.mappings # <<>>
        Format == IF o.template /\ o.format = "json" THEN "template" ELSE o.format
    IN  /\ ValidMappings(o)
        /\ IF o.command
           THEN ~o.output /\ ~o.field /\ ~o.template /\ o.format = "json" /\ Maps
           ELSE IF o.field THEN o.format = "json" /\ ~o.template /\ ~Maps
           ELSE \/ Format = "json" /\ ~o.template /\ ~Maps
                \/ Format = "template" /\ o.template /\ ~Maps
                \/ Format \in {"dotenv", "shell"} /\ ~o.template /\ Maps
\* arguments are the positional ones and dash how many stand before "--", -1
\* without one.
parseOptions(flags, rawMappings, arguments, dash) ==
    LET Before == IF dash < 0 THEN Len(arguments) ELSE dash
        Mappings == [i \in DOMAIN rawMappings |-> parseMapping(rawMappings[i])]
        o == [format |-> flags.format, field |-> flags.field, template |-> flags.template,
              output |-> flags.output, command |-> dash >= 0, mappings |-> Mappings]
    IN  IF \/ dash = Len(arguments)
           \/ Before # 1
           \/ flags.timeout <= 0
           \/ \E i \in DOMAIN Mappings : Mappings[i].failed
           \/ ~validateOptions(o)
        THEN Failed
        ELSE [failed |-> FALSE, options |-> o]
\* What a read with these options prints, and the flags that have a say in it.
render(o) ==
    IF o.field THEN [form |-> "field", uses |-> {"field"}]
    ELSE IF o.template THEN [form |-> "template", uses |-> {"template"}]
    ELSE IF o.format = "json" THEN [form |-> "json", uses |-> {}]
    ELSE IF o.format = "dotenv" THEN [form |-> "dotenv", uses |-> {"mappings"}]
    ELSE [form |-> "shell", uses |-> {"mappings"}]
\* Where it goes: to the command, the file or the standard output.
Delivery(o) ==
    IF o.command THEN [form |-> "environment", uses |-> {"command", "mappings"}]
    ELSE [render(o) EXCEPT !.uses = @ \cup {"output"}]

\* Mutant: split at the first "=".
parseItemFirst(value) ==
    LET parts == Cut(value, "=")
        Caps == LET raw == Split(parts[2], ",") IN [i \in DOMAIN raw |-> TrimSpace(raw[i])]
    IN  IF ~Contains(value, "=") \/ TrimSpace(parts[1]) = <<>> \/ Contains(Caps, <<>>)
        THEN Failed
        ELSE [failed |-> FALSE, path |-> TrimSpace(parts[1]), capabilities |-> Caps]
\* PATH=CAP[,CAP] of `bao-cred request`: split at the last "=".
parseItem(value) ==
    LET parts == CutLast(value, "=")
        Caps == LET raw == Split(parts[2], ",") IN [i \in DOMAIN raw |-> TrimSpace(raw[i])]
    IN  IF ~Contains(value, "=") \/ TrimSpace(parts[1]) = <<>> \/ Contains(Caps, <<>>)
        THEN Failed
        ELSE [failed |-> FALSE, path |-> TrimSpace(parts[1]), capabilities |-> Caps]
=============================================================================

------------------------------ MODULE MCInputs ------------------------------
(***************************************************************************)
(* What the server and bao-cred make of their inputs, in one run: requests *)
(* of one item with every kind of configuration, requests of several,      *)
(* pairs of a pattern and a path, and the inputs of bao-cred.              *)
(***************************************************************************)
EXTENDS MCFiling, TLC

VARIABLES part, input

Batch == INSTANCE Filing WITH
    Files <- RuleFiles, Inputs <- FewInputs, Listings <- FewListings, Grantings <- MCGrantings, MaxItems <- 3
Cred == INSTANCE MCCredentials WITH
    NameStarts <- {"A", "B", "BAO_TOKEN", "VAULT_TOKEN", "BAO_NO_TOKEN_FILE"},
    Digits <- ("0" :> 0) @@ ("1" :> 1), Blanks <- {" "}

InputsInit == part \in {"items", "batch", "pair", "credential"} /\ PairInit /\ Cred!Init
ItemsStep == part = "items" /\ Next /\ UNCHANGED <<part, pair, input>>
BatchStep == part = "batch" /\ Batch!Next /\ UNCHANGED <<part, pair, input>>
PairStep == part = "pair" /\ Pick /\ UNCHANGED <<part, input>>
CredentialStep == part = "credential" /\ Cred!Next /\ UNCHANGED <<part, pair, vars>>
InputsNext == ItemsStep \/ BatchStep \/ PairStep \/ CredentialStep
InputsSpec == InputsInit /\ [][InputsNext]_<<part, pair, input, vars>>

-----------------------------------------------------------------------------
\* Every field can be named (selectValue), rendered values read back as they were
\* (renderShell, renderDotenv), a command gets the mapped values and no token
\* (mergeEnvironment), no flag about the output overrides another
\* (validateOptions) and an item asks for what its text shows (parseItem).
CredentialsInv ==
    /\ Cred!PathsReachEveryField /\ Cred!RenderedValuesReadBack /\ Cred!ItemsReadAsWritten
    /\ Cred!CommandsGetOnlyMapped /\ Cred!OutputFlagsHaveASay
=============================================================================

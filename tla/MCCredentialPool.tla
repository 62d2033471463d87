-------------------------- MODULE MCCredentialPool --------------------------
(* Small pools for TLC.  c1 has the best priority, c3 the worst.           *)
EXTENDS CredentialPool, TLC

CONSTANTS c1, c2, c3

Rank == c1 :> 0 @@ c2 :> 1 @@ c3 :> 2
Ranked == {[c \in Creds |-> Rank[c]]}

NoneDisabled == {{}}
MaybeFirstDisabled == {{}, {c1}}

AnyTokens == [Creds -> {"valid", "stale"}]
FirstStale == {[c \in Creds |-> IF Rank[c] = 0 THEN "stale" ELSE "valid"]}
LastValid == {[c \in Creds |-> IF Rank[c] = Cardinality(Creds) - 1 THEN "valid" ELSE "stale"]}

OnlyPriority == {"priority"}
BothModes    == Modes
ZeroOne      == {0, 1}
NoPriorities == {}
=============================================================================

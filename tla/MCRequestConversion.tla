------------------------- MODULE MCRequestConversion -------------------------
(* Sessions with two tools, one of them with a long name that is declared in  *)
(* one of two cases, and with a few of the settings.                          *)
EXTENDS RequestConversion

CONSTANTS read, mcp

Tool(w, up) == [word |-> w, upper |-> up, short |-> FALSE]
Both == {Tool(read, FALSE), Tool(mcp, FALSE)}
Less == {Tool(read, TRUE)}
TwoSets == {Both, Less}

Asking(f, v, sys, think, ses, declared) ==
    [model |-> [family |-> f, version |-> v], system |-> sys, thinking |-> think,
     session |-> ses, tools |-> declared]
SomeSettings == {Asking("opus", "4-7", "empty", TRUE, FALSE, Both),
                 Asking("sonnet", "4-7", "text", TRUE, TRUE, Less),
                 Asking("other", "none", "absent", TRUE, FALSE, Both)}
=============================================================================

---------------------------- MODULE MCAdminStores ----------------------------
(* Two threads, two proxies, and two credentials at the first proxy, of which  *)
(* the second is disabled and has answered a call in an earlier run. The kinds *)
(* of request that share state are explored together.                          *)
EXTENDS AdminStores

CONSTANTS P1, P2

MCInitPool == << [proxy |-> P1, disabled |-> FALSE], [proxy |-> P2, disabled |-> FALSE] >>
MCInitEntries == << [account |-> 1, proxy |-> P1, disabled |-> FALSE, count |-> 0],
                    [account |-> 2, proxy |-> P1, disabled |-> TRUE, count |-> 1] >>
MCMixes == {[kinds |-> {"mode", "pool"}, requests |-> 3, time |-> 0],
            [kinds |-> {"assign", "proxy", "add"}, requests |-> 3, time |-> 0],
            [kinds |-> {"balance", "add", "delete"}, requests |-> 3, time |-> 1],
            [kinds |-> {"call", "disabled", "add", "delete"}, requests |-> 3, time |-> 1]}
MCSymmetry == Permutations(Workers)
=============================================================================

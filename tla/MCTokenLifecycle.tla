-------------------------- MODULE MCTokenLifecycle --------------------------
(* Two workers on the accounts a1 and a2; a3 and a4 may be added.          *)
EXTENDS TokenLifecycle, TLC

CONSTANTS a1, a2, a3, a4, w1, w2

OneEntry   == <<a1>>
TwoEntries == <<a1, a2>>
RefreshAndEdit == {"force", "edit"}
AddOnly        == {"add"}
WorkerSymmetry == Permutations(Workers)
=============================================================================

---------------------------- MODULE MCMajordomo -----------------------------
(***************************************************************************)
(* Majordomo for TLC: two echo workers, two identities and two clients.    *)
(***************************************************************************)
EXTENDS Majordomo, TLC

CONSTANTS w1, w2, i1, i2, c1, c2, echo, mmi_service, empty

MCWorkers == {w1, w2}
MCWorkerIds == {i1, i2}
MCClients == {c1, c2}
MCNames == {empty, echo, mmi_service}
MCMmiLike == {mmi_service}
MCServiceOf == [w \in MCWorkers |-> echo]
MCWants == [c \in MCClients |-> echo]

Symmetry == Permutations(MCWorkers) \cup Permutations(MCClients) \cup Permutations(MCWorkerIds)
=============================================================================

-------------------------- MODULE MCMajordomoFaults -------------------------
(***************************************************************************)
(* Majordomo for TLC: one worker, two identities and one client, with a    *)
(* restart of the broker and a death of the worker.                        *)
(***************************************************************************)
EXTENDS Majordomo, TLC

CONSTANTS w1, i1, i2, c1, echo, mmi_service, empty

MCWorkers == {w1}
MCWorkerIds == {i1, i2}
MCClients == {c1}
MCNames == {empty, echo, mmi_service}
MCMmiLike == {mmi_service}
MCServiceOf == [w \in MCWorkers |-> echo]
MCWants == [c \in MCClients |-> echo]

Symmetry == Permutations(MCWorkerIds)
=============================================================================

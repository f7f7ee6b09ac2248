----------------------------- MODULE MCMDBroker -----------------------------
(***************************************************************************)
(* MDBroker for TLC: three identities, one of which begins like "mmi.", two *)
(* services, the empty name, and the broker's own service.                 *)
(***************************************************************************)
EXTENDS MDBroker, TLC

CONSTANTS w1, w2, m3, echo, tea, mmi_service, empty, r1, r2

MCWorkerIds == {w1, w2, m3}
MCNames == {empty, echo, tea, mmi_service}
MCMmiLike == {mmi_service}
MCMmiLikeIds == {m3}
MCRequests == {r1, r2}

Symmetry == Permutations({w1, w2}) \cup Permutations({r1, r2}) \cup Permutations({echo, tea})
=============================================================================

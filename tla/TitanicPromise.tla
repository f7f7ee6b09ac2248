--------------------------- MODULE TitanicPromise ---------------------------
(***************************************************************************)
(* What Titanic promises of the requests that are handed to it, whatever   *)
(* happens to its process: a request that has been recorded is never lost, *)
(* and it is not closed before a reply is begun.  That its client has read *)
(* a whole one is not promised.  A crash costs the requests that were taken*)
(* and not recorded yet, and no others.                                    *)
(***************************************************************************)
CONSTANT Requests

VARIABLE status    \* of each request

Statuses == {"new", "taken", "recorded", "begun", "replied", "closed", "lost"}

TypeOK == status \in [Requests -> Statuses]

Init == status = [u \in Requests |-> "new"]

Move(u, from, to) == status[u] = from /\ status' = [status EXCEPT ![u] = to]

\* Its message is kept.
Take(u) == Move(u, "new", "taken")

\* It is known to the dispatcher, for ever.
Record(u) == Move(u, "taken", "recorded")

\* There is the beginning of a reply, where there was none, or one that is written
\* anew.
Begin(u) == Move(u, "recorded", "begun") \/ Move(u, "replied", "begun")

\* There is a reply.
Reply(u) == Move(u, "begun", "replied")

\* The client wants nothing more.  What it read was a reply or the beginning of one.
Close(u) == Move(u, "begun", "closed") \/ Move(u, "replied", "closed")

Crash == status' = [u \in Requests |-> IF status[u] = "taken" THEN "lost" ELSE status[u]]

Next ==
    \/ \E u \in Requests : Take(u) \/ Record(u) \/ Begin(u) \/ Reply(u) \/ Close(u)
    \/ Crash

Spec == Init /\ [][Next]_status

=============================================================================

------------------------------ MODULE StdErase ------------------------------
(***************************************************************************)
(* std::erase(container, value), the C++20 call with which the code takes  *)
(* identities out of its waiting lists, generalised to a set of values.    *)
(* SelectSeq would say the same; it takes an operator as a parameter, about*)
(* which nothing can be proved, so the filter is a recursive function on   *)
(* the length of the prefix already scanned.                               *)
(***************************************************************************)
EXTENDS Naturals, Sequences

\* Erase(s, D) is s without the elements that are in D, in the same order.
Erase(s, D) ==
    LET kept[i \in 0 .. Len(s)] ==
          IF i = 0 THEN <<>>
          ELSE IF s[i] \in D THEN kept[i - 1]
          ELSE Append(kept[i - 1], s[i])
    IN  kept[Len(s)]

\* std::erase(s, s.front()), where the value to look for is a reference to the
\* first element itself: the first element that differs from it is moved into
\* its place, and from there on it is that value which is erased.
EraseFirst(s) ==
    LET others == {k \in 1 .. Len(s) : s[k] # s[1]}
        k      == CHOOSE k \in others : \A j \in others : k <= j
    IN  IF others = {} THEN <<>>
        ELSE <<s[k]>> \o Erase(SubSeq(s, k + 1, Len(s)), {s[k]})

\* The elements of a sequence.
Elements(s) == {s[i] : i \in 1 .. Len(s)}

\* No element occurs twice.
NoRepeats(s) == \A i, j \in 1 .. Len(s) : s[i] = s[j] => i = j
=============================================================================

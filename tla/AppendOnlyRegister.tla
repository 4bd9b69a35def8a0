------------------------- MODULE AppendOnlyRegister -------------------------
(***************************************************************************)
(* What the versioned tables promise (0030, 0038 and 0011): each series is *)
(* a list that grows at its end, one entry at a time; what was entered is  *)
(* never changed, removed or reordered.                                    *)
(***************************************************************************)
EXTENDS Sequences

CONSTANTS
    Series,  \* the lists
    Writer,  \* who enters something
    NoOne    \* the author of what was there before

VARIABLE book  \* the entries of each series, in order

Init == book \in [Series -> {<<>>, <<NoOne>>}]

Enter == \E s \in Series, w \in Writer : book' = [book EXCEPT ![s] = Append(@, w)]

Spec == Init /\ [][Enter]_book
=============================================================================

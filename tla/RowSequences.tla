---------------------------- MODULE RowSequences ----------------------------
(***************************************************************************)
(* What the code does to the rows of an answer and the candles of a        *)
(* snapshot with a comprehension and with sorted().                        *)
(***************************************************************************)
EXTENDS Integers, Sequences

\* The rows at the indexes in `kept', in their order.
Selected(rows, kept) ==
    LET selected[n \in 0..Len(rows)] ==
            IF n = 0 THEN <<>>
            ELSE IF n \in kept THEN Append(selected[n - 1], rows[n])
            ELSE selected[n - 1]
    IN  selected[Len(rows)]

\* The rows, numbers, in ascending order: each once, since `order' leaves
\* out none of them.
Sorted(rows) ==
    CHOOSE r \in [DOMAIN rows -> {rows[i] : i \in DOMAIN rows}] :
        /\ \A i, j \in DOMAIN r : i < j => r[i] <= r[j]
        /\ \E order \in [DOMAIN rows -> DOMAIN rows] :
              /\ DOMAIN rows \subseteq {order[i] : i \in DOMAIN rows}
              /\ \A i \in DOMAIN rows : r[i] = rows[order[i]]
=============================================================================

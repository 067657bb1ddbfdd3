----------------------------- MODULE MCXattrArea ------------------------------
EXTENDS XattrArea

(* Suffixes and values of some lengths, with bytes that show their order.  *)
Attributes(indexes, suffixes, values) ==
    {<<i, [k \in 1..s |-> 1], [k \in 1..v |-> (k + 1) % 4]>> : i \in indexes, s \in suffixes, v \in values}

(* Up to n attributes of different names.                                  *)
Lists(as, n) == {l \in UNION {[1..k -> as] : k \in 0..n} :
                   \A i, j \in DOMAIN l : Name(l[i]) = Name(l[j]) => i = j}

MCInlines == Lists(Attributes({0, 1}, {0, 3}, {0, 5, 15}), 2)
             \cup Lists(Attributes({3}, {0, 1, 2}, {6}), 3)
MCShareds == Lists(Attributes({2}, {1, 2}, {0, 7}), 2)
MCTails == {0, BlockSize}

(* Lengths at and beyond what the record's fields hold.                    *)
MCTooLong == Lists(Attributes({0, 1}, {1, 4}, {1, 16}), 2)
MCNoShared == {<<>>}

(* What the theorems assume holds of the passing run's values.             *)
ASSUME MCFieldsHold == Inlines = MCInlines => FieldsHold
===============================================================================

----------------------------- MODULE SubsetSum ------------------------------
(***************************************************************************)
(* matching/subset_sum.py: is there exactly one set of two or more amounts *)
(* whose sum is within bounds?  The table has, for each size and total     *)
(* that some set of the amounts seen so far reaches, how many sets reach   *)
(* it (one, or "more than one") and the first of them; it grows by one     *)
(* amount at a time and the search gives up when it is too large.          *)
(* SubsetSearch runs it as the loop it is and compares it with all subsets *)
(* of the amounts.                                                         *)
(***************************************************************************)
EXTENDS Integers, FiniteSets, FiniteSetsExt, SequencesExt

CONSTANT MaxStates   \* max_states
ASSUME StatesAssumption == MaxStates \in Nat \ {0}

\* The arguments are a record [amounts, low, high, max].

_CAP == 2
MIN_SIZE == 2

\* A table is a set of entries [size, total, ways, witness], one per
\* (size, total).
Slot(x) == <<x.size, x.total>>

\* Entries that meet in a slot count together, and the first witness stays.
_merge(table, entries) ==
    LET at(k, S) == {x \in S : Slot(x) = k}
        ways(k)  == SumFunction([x \in at(k, table) \cup at(k, entries) |-> x.ways])
        first(k) == IF at(k, table) # {} THEN CHOOSE x \in at(k, table) : TRUE
                    ELSE CHOOSE x \in at(k, entries) : TRUE
    IN  {[first(k) EXCEPT !.ways = Min({ways(k), _CAP})] :
             k \in {Slot(x) : x \in table \cup entries}}

AddAmount_OncePerSlot(in, table, index) ==
    LET amount == in.amounts[index]
        grown  == {[size |-> x.size + 1, total |-> x.total + amount, ways |-> x.ways,
                    witness |-> x.witness \cup {index}] :
                   x \in {y \in table : y.size < in.max /\ y.total + amount <= in.high}}
        new    == grown \cup {[size |-> 1, total |-> amount, ways |-> 1, witness |-> {index}]}
    IN  IF amount <= 0 \/ amount > in.high THEN table
        ELSE table \cup {x \in new : \A y \in table : Slot(y) # Slot(x)}

\* One turn of the loop.  An amount that is not positive, or above the upper
\* bound by itself, is passed over.
AddAmount(in, table, index) ==
    LET amount == in.amounts[index]
        grown  == {[size |-> x.size + 1, total |-> x.total + amount, ways |-> x.ways,
                    witness |-> x.witness \cup {index}] :
                   x \in {y \in table : y.size < in.max /\ y.total + amount <= in.high}}
        alone  == [size |-> 1, total |-> amount, ways |-> 1, witness |-> {index}]
    IN  IF amount <= 0 \/ amount > in.high THEN table
        ELSE _merge(table, grown \cup {alone})

TooLarge(table) == Cardinality(table) > MaxStates

Verdict(in, table) ==
    LET hits == {x \in table : x.size >= MIN_SIZE /\ x.total \in in.low .. in.high}
    IN  IF hits = {} THEN [outcome |-> "NONE", indices |-> {}]
        ELSE IF Cardinality(hits) > 1 \/ \E x \in hits : x.ways >= _CAP
             THEN [outcome |-> "AMBIGUOUS", indices |-> {}]
             ELSE [outcome |-> "UNIQUE", indices |-> (CHOOSE x \in hits : TRUE).witness]

TOO_COMPLEX == [outcome |-> "TOO_COMPLEX", indices |-> {}]

\* The loop after n of the amounts.
After(in) ==
    LET after[n \in 0 .. Len(in.amounts)] ==
            IF n = 0 THEN [table |-> {}, over |-> FALSE]
            ELSE LET last == after[n - 1]
                     next == AddAmount(in, last.table, n)
                 IN  IF last.over THEN last ELSE [table |-> next, over |-> TooLarge(next)]
    IN  after

\* The whole search.
find_unique_subset(in) ==
    LET last == After(in)[Len(in.amounts)]
    IN  IF last.over THEN TOO_COMPLEX ELSE Verdict(in, last.table)

=============================================================================

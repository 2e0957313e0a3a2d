---------------------------- MODULE SubsetSearch ----------------------------
(***************************************************************************)
(* The loop of find_unique_subset, one amount at a time, against its       *)
(* definition: all subsets.                                                *)
(***************************************************************************)
EXTENDS SubsetSum

CONSTANT SearchInputs   \* arguments to try

\* Minor units.  What the search refuses with a ValueError, a lower bound above
\* the upper or a maximum below MIN_SIZE, is answered NONE here.
SearchInput == [amounts : Seq(Int), low : Int, high : Int, max : Nat]
ASSUME SearchAssumption == SearchInputs \subseteq SearchInput

VARIABLES
    input,    \* the arguments
    table,    \* states
    index,    \* the amounts seen
    answer    \* <<>>, or what was returned

searchVars == <<input, table, index, answer>>

SearchInit ==
    /\ input \in SearchInputs
    /\ table = {}
    /\ index = 0
    /\ answer = <<>>

SearchStep ==
    /\ answer = <<>>
    /\ index < Len(input.amounts)
    /\ index' = index + 1
    /\ table' = AddAmount(input, table, index + 1)
    /\ answer' = IF TooLarge(table') THEN <<TOO_COMPLEX>> ELSE <<>>
    /\ UNCHANGED input

SearchReturn ==
    /\ answer = <<>>
    /\ index = Len(input.amounts)
    /\ answer' = <<Verdict(input, table)>>
    /\ UNCHANGED <<input, table, index>>

SearchNext == SearchStep \/ SearchReturn

SearchSpec == SearchInit /\ [][SearchNext]_searchVars

\* The sets of two or more, and of at most `max`, positions whose amounts sum
\* to something within the bounds.  Amounts that are not positive never count.
Fitting(in) ==
    {S \in SUBSET {j \in 1 .. Len(in.amounts) : in.amounts[j] > 0} :
        /\ Cardinality(S) \in MIN_SIZE .. in.max
        /\ SumFunctionOnSet(in.amounts, S) \in in.low .. in.high}

\* find_unique_subset answers UNIQUE with a subset only if that subset is the
\* only one that fits, NONE only if none does and AMBIGUOUS only if several
\* do; what it gives up on, it calls TOO_COMPLEX.  The operator the group
\* stage uses answers the same as the loop.
SearchAnswersRight ==
    answer # <<>> =>
        /\ answer[1] = find_unique_subset(input)
        /\ answer[1].outcome = "UNIQUE" => Fitting(input) = {answer[1].indices}
        /\ answer[1].outcome = "NONE" => Fitting(input) = {}
        /\ answer[1].outcome = "AMBIGUOUS" => Cardinality(Fitting(input)) > 1
=============================================================================

------------------------------ MODULE Findings ------------------------------
(***************************************************************************)
(* What is wrong with a pair or with a transaction nobody matched          *)
(* (excmgmt/pair_analysis.py, classifier._single_candidate), and which     *)
(* tier gets it (excmgmt/routing.py with config/exceptions/taxonomy.yaml). *)
(* inr holds the two values in paise, -1 where no rate is known.          *)
(***************************************************************************)
EXTENDS Scoring

CONSTANTS
    FxTolerance,      \* of the bank, in hundredths of a percent
    SettlementDays,   \* of the bank, in business days
    Fee,              \* of the bank: [fixed, percent, tolerance]
    StaleAfterDays,   \* of the run
    HighValue,        \* critical_individual_inr_minor
    HighDay,          \* critical_cumulative_daily_inr_minor
    Systemic          \* systemic_exception_count

ASSUME FindingsAssumption ==
    {FxTolerance, SettlementDays, StaleAfterDays, HighValue, HighDay, Systemic} \subseteq Nat

\* A finding; amounts, days and confidences that route() may ask for.
NA == -1
Finding(category) ==
    [category |-> category, difference |-> NA, days |-> NA, confidence |-> NA,
     variance |-> FALSE]

has_regulatory_hold(t) == t.note = "hold"
is_posted_reversal(t) == t.note = "reversal"

is_truncated_pair(i, e) ==
    /\ NoRef \notin {i.ref, e.ref}
    /\ i.ref.cut # e.ref.cut
    /\ [i.ref EXCEPT !.cut = e.ref.cut] = e.ref

-----------------------------------------------------------------------------
(* pair_analysis.py.                                                       *)

expected_fee_minor(amount) == Fee.fixed + RoundHalfEven(amount * Fee.percent, 10000)

\* A bank takes its fee out of a credit and adds it to a debit.
FeeGap(i, e) == IF i.dir = "CR" THEN i.amount - e.amount ELSE e.amount - i.amount

_fee_explains(i, e) ==
    LET fee == expected_fee_minor(i.amount)
    IN  fee > 0 /\ FeeGap(i, e) > 0 /\ Distance(FeeGap(i, e), fee) <= Fee.tolerance

_date_finding(i, e) ==
    IF i.day = e.day THEN <<>>
    ELSE IF Distance(i.day, e.day) = 1 /\ Distance(24 * i.day + i.hour, 24 * e.day + e.hour) < 24
    THEN <<[Finding("TIMEZONE_OFFSET") EXCEPT !.days = 1]>>
    ELSE <<[Finding("DATE_MISMATCH") EXCEPT !.days = Max({1, business_days_between(i.day, e.day)})]>>

_settlement_delay(i, e) ==
    LET late == business_days_between(i.day, e.settled)
    IN  IF late <= SettlementDays THEN <<>>
        ELSE <<[Finding("SETTLEMENT_DELAY") EXCEPT !.days = late]>>

\* With both rates known and the amounts further apart than the tolerance it
\* is the rate that is wrong, otherwise the currency.
_currency_finding(inr) ==
    IF /\ NA \notin {inr.int, inr.ext}
       /\ ~WithinPercent(inr.int, inr.ext, FxTolerance)
    THEN <<[Finding("FX_VARIANCE") EXCEPT !.variance = ~WithinPercent(inr.int, inr.ext, 300)]>>
    ELSE <<Finding("CURRENCY_MISMATCH")>>

_amount_finding(i, e) ==
    <<[Finding(IF _fee_explains(i, e) THEN "FEE_DEDUCTION" ELSE "AMOUNT_MISMATCH")
          EXCEPT !.difference = Distance(i.amount, e.amount)]>>

_truncation_finding(confidence) ==
    <<[Finding("REFERENCE_TRUNCATED") EXCEPT !.confidence = confidence]>>

_hold(i, e) ==
    IF has_regulatory_hold(i) \/ has_regulatory_hold(e)
    THEN <<Finding("REGULATORY_HOLD")>> ELSE <<>>

_analyse_unmatched(i, e, confidence, inr) ==
    LET same_money == i.amount = e.amount /\ i.ccy = e.ccy
    IN  IF i.dir # e.dir
        THEN IF same_money THEN <<Finding("DIRECTION_REVERSAL")>> ELSE <<>>
        ELSE IF i.ccy # e.ccy THEN _currency_finding(inr)
        ELSE IF same_money /\ is_truncated_pair(i, e) THEN _truncation_finding(confidence)
        ELSE IF i.amount # e.amount THEN _amount_finding(i, e)
        ELSE _date_finding(i, e)

\* What a match leaves to report; each is an exception of its own.
_analyse_matched(i, e, confidence) ==
    _hold(i, e)
    \o (IF is_truncated_pair(i, e) THEN _truncation_finding(confidence) ELSE <<>>)
    \o _date_finding(i, e)
    \o _settlement_delay(i, e)

analyse_pair(i, e, matched, confidence, inr) ==
    IF matched THEN _analyse_matched(i, e, confidence)
    ELSE IF _hold(i, e) # <<>> THEN _hold(i, e)
    ELSE _analyse_unmatched(i, e, confidence, inr)

-----------------------------------------------------------------------------
(* classifier._single_candidate: a hold outranks a reversal, which         *)
(* outranks staleness, which outranks a delay.                             *)

_is_stale(t, today) == today - t.day > StaleAfterDays

SingleCategory_StaleFirst(t, today) ==
    IF _is_stale(t, today) THEN "STALE_TRANSACTION"
    ELSE IF has_regulatory_hold(t) THEN "REGULATORY_HOLD"
    ELSE IF t.src = "EXTERNAL" THEN "MISSING_INTERNAL" ELSE "MISSING_EXTERNAL"

SingleCategory(t, today) ==
    LET base == IF t.src = "EXTERNAL" THEN "MISSING_INTERNAL" ELSE "MISSING_EXTERNAL"
    IN  IF has_regulatory_hold(t) THEN "REGULATORY_HOLD"
        ELSE IF t.src = "INTERNAL" /\ is_posted_reversal(t) THEN "REVERSAL_PENDING"
        ELSE IF _is_stale(t, today) THEN "STALE_TRANSACTION"
        ELSE IF t.src = "INTERNAL" /\ business_days_between(t.day, today) > SettlementDays
             THEN "SETTLEMENT_DELAY"
        ELSE base

-----------------------------------------------------------------------------
(* taxonomy.yaml and routing.py.                                           *)

ComplianceCategories == {"DIRECTION_REVERSAL", "REGULATORY_HOLD"}
AlwaysResolvable ==
    {"DUPLICATE_INTERNAL", "PARTIAL_MATCH", "NETTED_SETTLEMENT", "FEE_DEDUCTION", "TIMEZONE_OFFSET"}
DefaultTier(category) == IF category \in ComplianceCategories THEN 4 ELSE 2

\* A conditional category without its measure is never resolved by itself.
_auto_resolve_eligible(f) ==
    \/ f.category \in AlwaysResolvable
    \/ f.category = "AMOUNT_MISMATCH" /\ f.difference \in 0 .. 1
    \/ f.category = "DATE_MISMATCH" /\ f.days \in 0 .. 1
    \/ f.category = "REFERENCE_TRUNCATED" /\ f.confidence > AUTO_MATCH_CONFIDENCE

\* Compliance first, then a high single value, then automation, then a high
\* total for the day, then the category's own tier.
_tier(f, value, day_total, batch) ==
    IF DefaultTier(f.category) = 4 \/ f.variance \/ batch > Systemic THEN 4
    ELSE IF value > HighValue THEN 3
    ELSE IF _auto_resolve_eligible(f) THEN 1
    ELSE IF day_total > HighDay THEN 3
    ELSE DefaultTier(f.category)
=============================================================================

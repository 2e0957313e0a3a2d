------------------------------ MODULE Scoring -------------------------------
(***************************************************************************)
(* What the matching levels think of a pair of transactions: the exact     *)
(* key, the weighted score and its verdict, the two rules, and which       *)
(* internals are looked at for an external at all (blocking).              *)
(*                                                                         *)
(* A transaction is [src, ref, amount, ccy, dir, day, hour, party, note,   *)
(* settled, line].  A reference is [root, num, part, cut]: its letters, its      *)
(* digits, the number of the instalment written after a separator (0 if    *)
(* none) and whether the bank cut it at its 16 characters; that is all the *)
(* text the decisions tell apart.  Scores are 3000ths, confidences         *)
(* thousandths, as they are quantised.                                     *)
(***************************************************************************)
EXTENDS Money

CONSTANTS
    Alike,           \* pairs {a, b} of names, or letters of references, that are nearly one
    AmountTolerance, \* of the bank, in minor units
    DateOffsetDays,  \* of the bank, in business days
    BucketWidth,     \* blocking: amount_bucket_width_minor
    WindowDays,      \* blocking: date_window_days, the bank's reconciliation window
    MaxCandidates    \* blocking: max_candidates_per_transaction

ASSUME ScoringAssumption ==
    /\ {AmountTolerance, DateOffsetDays} \subseteq Nat
    /\ {BucketWidth, WindowDays, MaxCandidates} \subseteq Nat \ {0}

NoRef == [root |-> "", num |-> 0, part |-> 0, cut |-> FALSE]
ONE == 3000

-----------------------------------------------------------------------------
(* keys.py: ExactMatchKey.                                                 *)

build_key(t) == <<t.ref, t.amount, t.ccy, t.dir>>
HasKey(t) == t.ref # NoRef

-----------------------------------------------------------------------------
(* scoring/fields.py.                                                      *)

differs_only_in_digits(a, b) ==
    a # b /\ a.root = b.root /\ a.cut = b.cut /\ (a.part = 0) = (b.part = 0)

\* rapidfuzz on the references the model has: digits or an instalment apart,
\* or one the cut of the other, is above the threshold; two mistyped letters
\* are below it and two edits away; other letters are neither.
Mistyped(a, b) == {a.root, b.root} \in Alike /\ [a EXCEPT !.root = b.root] = b
JaroWinkler(a, b) ==
    IF a.root # b.root THEN (IF Mistyped(a, b) THEN 2700 ELSE 1200)
    ELSE IF a.num = b.num THEN 2880 ELSE 2820
Levenshtein(a, b) == IF Mistyped(a, b) THEN 2 ELSE 9

REFERENCE_JARO_WINKLER == 2760
LEVENSHTEIN_MAX_DISTANCE == 2

score_reference(a, b) ==
    CASE a = b -> ONE
      [] a # b /\ JaroWinkler(a, b) > REFERENCE_JARO_WINKLER -> JaroWinkler(a, b)
      [] /\ a # b /\ JaroWinkler(a, b) <= REFERENCE_JARO_WINKLER
         /\ Levenshtein(a, b) <= LEVENSHTEIN_MAX_DISTANCE ->
             ONE - Levenshtein(a, b) * 1000
      [] OTHER -> 0

score_amount(a, b) ==
    IF a = b THEN ONE ELSE IF Distance(a, b) <= AmountTolerance THEN 2400 ELSE 0

score_date(a, b) ==
    LET offset == Distance(a, b)
    IN  IF offset <= 2 THEN <<ONE, 2400, 1500>>[offset + 1] ELSE 0

TokenSetRatio(a, b) == IF a = b \/ {a, b} \in Alike THEN ONE ELSE 900

score_counterparty(a, b) == IF "" \in {a, b} THEN 0 ELSE TokenSetRatio(a, b)

score_gate(a, b) == IF a = b THEN ONE ELSE 0

-----------------------------------------------------------------------------
(* scoring/weighted.py.                                                    *)

COUNTERPARTY_RATIO == 2400
AUTO_MATCH_CONFIDENCE == 850
REVIEW_CONFIDENCE == 600
MIN_SIGNALS == 2

FieldScores(i, e) ==
    [reference    |-> score_reference(i.ref, e.ref),
     amount       |-> score_amount(i.amount, e.amount),
     date         |-> score_date(i.day, e.day),
     counterparty |-> score_counterparty(i.party, e.party),
     direction    |-> score_gate(i.dir, e.dir),
     currency     |-> score_gate(i.ccy, e.ccy)]

Confidence(s) ==
    RoundHalfEven(35 * s.reference + 25 * s.amount + 15 * s.date
                  + 10 * s.counterparty + 10 * s.direction + 5 * s.currency, 300)

Signals(s) ==
    Cardinality({f \in {"reference", "amount", "date", "counterparty"} :
        CASE f = "reference"    -> s.reference > REFERENCE_JARO_WINKLER
          [] f = "amount"       -> s.amount >= 2400
          [] f = "date"         -> s.date >= 2400
          [] f = "counterparty" -> s.counterparty >= COUNTERPARTY_RATIO})

_decide_AtThreshold(i, e, s) ==
    CASE Confidence(s) < REVIEW_CONFIDENCE -> "NO_MATCH"
      [] Confidence(s) >= AUTO_MATCH_CONFIDENCE /\ Signals(s) >= MIN_SIGNALS -> "AUTO_MATCH"
      [] OTHER -> "REVIEW"

_decide(i, e, s) ==
    LET uncorroborated == /\ differs_only_in_digits(i.ref, e.ref)
                          /\ s.counterparty < COUNTERPARTY_RATIO
        passed == s.direction = ONE /\ s.currency = ONE
        certain == /\ Confidence(s) > AUTO_MATCH_CONFIDENCE
                   /\ Signals(s) >= MIN_SIGNALS
                   /\ ~uncorroborated
    IN  IF ~passed \/ Confidence(s) < REVIEW_CONFIDENCE THEN "NO_MATCH"
        ELSE IF certain THEN "AUTO_MATCH" ELSE "REVIEW"

score_candidate(i, e) ==
    LET s == FieldScores(i, e)
    IN  [confidence |-> Confidence(s), decision |-> _decide(i, e, s)]

-----------------------------------------------------------------------------
(* rules/: priority 10 AMOUNT_TOLERANCE, then 20 DATE_OFFSET.  A currency  *)
(* without a two-decimal minor unit has its own tolerance                  *)
(* (stage_config.penny_tolerances).                                        *)

RULE_MAX_CALENDAR_DAYS == 3

\* The bank's tolerance; 0.01 in a currency that has not two decimals.
penny_tolerance(ccy) ==
    LET exponent == _CURRENCY_EXPONENTS[ccy]
    IN  IF exponent = 2 THEN AmountTolerance
        ELSE IF exponent > 2 THEN Pow10(exponent - 2) ELSE 0

SameReference(i, e) == i.ccy = e.ccy /\ i.dir = e.dir /\ i.ref = e.ref /\ HasKey(i)

AmountToleranceRule(i, e) ==
    /\ SameReference(i, e)
    /\ Distance(i.day, e.day) <= RULE_MAX_CALENDAR_DAYS
    /\ Distance(i.amount, e.amount) <= penny_tolerance(i.ccy)

DateOffsetRule(i, e) ==
    /\ SameReference(i, e)
    /\ i.amount = e.amount
    /\ business_days_between(i.day, e.day) \in 1 .. DateOffsetDays

RuleHit(i, e) == AmountToleranceRule(i, e) \/ DateOffsetRule(i, e)
RULE_CONFIDENCE == 900

-----------------------------------------------------------------------------
(* blocking/: fixed-width bands, so two amounts within the tolerance may   *)
(* be in different ones.  The passes one after the other, each candidate   *)
(* once, cut at the maximum.                                               *)

amount_bucket(amount) == amount \div BucketWidth
date_bucket(day) == day \div WindowDays
Gates(t) == <<t.ccy, t.dir>>

SameAmountBand(i, e) ==
    /\ Gates(i) = Gates(e)
    /\ amount_bucket(i.amount) = amount_bucket(e.amount)
    /\ date_bucket(i.day) = date_bucket(e.day)

SamePrefix(i, e) ==
    /\ Gates(i) = Gates(e)
    /\ HasKey(i) /\ HasKey(e) /\ i.ref.root = e.ref.root

SameParty(i, e) ==
    /\ Gates(i) = Gates(e)
    /\ i.party # "" /\ i.party = e.party
    /\ date_bucket(i.day) = date_bucket(e.day)

\* The order transactions are fetched in: by day, then by their line in the file
\* they are from, whichever file that is, then by id.
Before(txn, a, b) ==
    \/ txn[a].day < txn[b].day
    \/ txn[a].day = txn[b].day /\ txn[a].line < txn[b].line
    \/ txn[a].day = txn[b].day /\ txn[a].line = txn[b].line /\ a < b

\* The pass that finds internal i for external e.
BlockOf(i, e) ==
    IF SameAmountBand(i, e) THEN 1 ELSE IF SamePrefix(i, e) THEN 2
    ELSE IF SameParty(i, e) THEN 3 ELSE 4

\* a is found before b: by an earlier pass, or by the same one, earlier.
FoundBefore(txn, a, b, e) ==
    \/ BlockOf(txn[a], txn[e]) < BlockOf(txn[b], txn[e])
    \/ BlockOf(txn[a], txn[e]) = BlockOf(txn[b], txn[e]) /\ Before(txn, a, b)

\* The internals of `pool` (a set of ids of txn) offered for external e.
generate(txn, pool, e) ==
    LET all == {i \in pool : BlockOf(txn[i], txn[e]) <= 3}
        ahead(i) == {k \in all : FoundBefore(txn, k, i, e)}
    IN  [candidates |-> {i \in all : Cardinality(ahead(i)) < MaxCandidates},
         truncated  |-> Cardinality(all) > MaxCandidates]
=============================================================================

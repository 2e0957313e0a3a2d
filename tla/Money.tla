------------------------------- MODULE Money --------------------------------
(***************************************************************************)
(* The arithmetic the decisions rest on: integer minor units and their     *)
(* rounding (domain/money.py, fx/convert.py), which exchange rate applies  *)
(* on a day (fx/service.py), which rates of a file are suspect             *)
(* (fx/loader.py), and business days (calendar.py).  A day is a number,    *)
(* a rate is a whole number of RateUnit-ths of a rupee.                    *)
(***************************************************************************)
EXTENDS Integers, FiniteSets, FiniteSetsExt, SequencesExt

CONSTANTS
    Holidays,      \* the days that are weekends or holidays
    RateUnit,      \* a rate of r stands for r / RateUnit rupees
    MaxStaleDays   \* how many days back a rate may be (DEFAULT_MAX_STALE_DAYS)

ASSUME RateAssumption == RateUnit \in Nat \ {0} /\ MaxStaleDays \in Nat

Distance(a, b) == IF a < b THEN b - a ELSE a - b

\* n / d rounded half to even, for n >= 0 and d > 0 (ROUND_HALF_EVEN).
RoundHalfEven(n, d) ==
    LET q == n \div d
        r == n % d
    IN  IF 2 * r < d THEN q ELSE IF 2 * r > d THEN q + 1 ELSE q + (q % 2)

CeilDiv(n, d) == (n + d - 1) \div d

_CURRENCY_EXPONENTS ==
    [INR |-> 2, USD |-> 2, GBP |-> 2, EUR |-> 2, SGD |-> 2, AED |-> 2,
     JPY |-> 0, KWD |-> 3, BHD |-> 3, OMR |-> 3]
Pow10(n) == <<1, 10, 100, 1000>>[n + 1]

\* One rounding, of the exact product.
to_inr_minor(amount, currency, rate) ==
    IF currency = "INR" THEN amount
    ELSE RoundHalfEven(amount * rate * Pow10(_CURRENCY_EXPONENTS["INR"]),
                       RateUnit * Pow10(_CURRENCY_EXPONENTS[currency]))

\* |a - b| / mean(a, b) <= tolerance, the tolerance in hundredths of a
\* percent; multiplied out, since nothing is rounded here.
WithinPercent(a, b, tolerance) ==
    a + b = 0 \/ 2 * Distance(a, b) * 10000 <= tolerance * (a + b)

-----------------------------------------------------------------------------
(* Exchange rates.                                                         *)

_SOURCE_RANK == [RBI |-> 0, FBIL |-> 1, BANK_CARD |-> 2]

\* A row of fx_rates; a rate that is not positive is not loaded.
FxRate == [currency : DOMAIN _CURRENCY_EXPONENTS, day : Nat, rate : Nat \ {0},
           source : DOMAIN _SOURCE_RANK, suspect : BOOLEAN]

NoQuote == [rate |-> 0, source |-> "NONE", day |-> 0]

\* Later day first, then the source hierarchy.
Fresher(r, s) ==
    r.day > s.day \/ (r.day = s.day /\ _SOURCE_RANK[r.source] <= _SOURCE_RANK[s.source])

FreshestOf(rows) == CHOOSE r \in rows : \A s \in rows : Fresher(r, s)

\* The latest day wins, on it a clean rate over a suspect one; and a clean
\* rate of an older day over a suspect one of the day itself.  Both together
\* are: the freshest clean rate if there is one at all.
pick_quote(rows, on) ==
    LET eligible == {r \in rows : on - r.day \in 0 .. MaxStaleDays}
        clean    == {r \in eligible : ~r.suspect}
        best     == FreshestOf(IF clean # {} THEN clean ELSE eligible)
    IN  IF eligible = {} THEN NoQuote
        ELSE [rate |-> best.rate, source |-> best.source, day |-> best.day]

\* The median of a set of rows' rates, doubled (an even count has two middles).
Median2(rows) ==
    LET sorted == SetToSortSeq(rows, LAMBDA r, s : r.rate < s.rate
                      \/ (r.rate = s.rate /\ r.day < s.day))
        n == Len(sorted)
    IN  sorted[(n + 1) \div 2].rate + sorted[(n \div 2) + 1].rate

MIN_POINTS == 3

\* A rate more than 5% from the median of its currency and source in the
\* file is marked suspect; a group of fewer than MIN_POINTS is not judged.
_flag_outliers(file) ==
    LET group(r) == {s \in file : s.currency = r.currency /\ s.source = r.source}
        odd(r)   == /\ Cardinality(group(r)) >= MIN_POINTS
                    /\ 100 * Distance(2 * r.rate, Median2(group(r))) > 5 * Median2(group(r))
    IN  {[r EXCEPT !.suspect = odd(r)] : r \in file}

\* insert_many: a (day, currency, source) that has a rate keeps it.
insert_many(rates, file) ==
    rates \cup {r \in _flag_outliers(file) :
                   \A s \in rates : s.day # r.day \/ s.currency # r.currency \/ s.source # r.source}

-----------------------------------------------------------------------------
(* Business days.                                                          *)

is_business_day(day) == day \notin Holidays

\* Those after the earlier day up to and including the later one.
business_days_between(a, b) ==
    Cardinality({d \in (Min({a, b}) + 1) .. Max({a, b}) : is_business_day(d)})
=============================================================================

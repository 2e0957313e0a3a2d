------------------------------ MODULE Matching ------------------------------
(***************************************************************************)
(* What a reconciliation run decides about the transactions of one bank:   *)
(* the orchestrator's stages in their order, each looking at one           *)
(* transaction after the other, then the classifier's four passes.  The    *)
(* ledger has no other writer here (MatchLedger has the races for claims,  *)
(* Exceptions those for exception rows); exchange-rate files are loaded    *)
(* while the run is on its way.  A bank may be run again on a later day.   *)
(***************************************************************************)
EXTENDS Findings, SubsetSum

CONSTANTS
    Ledgers,        \* starting points: [txn, late, rejected]
    FirstRates,     \* the exchange rates known at first
    RateFiles,      \* files of rates that may be loaded
    Modes,          \* of runs: "FULL", "FAST"
    FirstDay,       \* the day of the first run
    MaxRuns,        \* bound: runs of the bank
    MaxMembers,     \* GroupMatchConfig: max_split_members, max_netted_members
    MaxSearch       \* GroupMatchConfig: max_search_candidates

ASSUME MatchingAssumption == {MaxRuns, MaxMembers, MaxSearch, FirstDay} \subseteq Nat

\* normalised_transactions: the columns the decisions read.
Txn == [src : {"INTERNAL", "EXTERNAL"},
        ref : [root : STRING, num : Nat, part : Nat, cut : BOOLEAN],
        amount : Nat, ccy : DOMAIN _CURRENCY_EXPONENTS, dir : {"CR", "DR"}, day : Nat, hour : Nat,
        party : STRING, note : STRING, settled : Nat, line : Nat]

ASSUME LedgersAssumption == \A l \in Ledgers : l.txn \in Seq(Txn) /\ l.late \in Seq(Txn)
ASSUME RatesAssumption == FirstRates \subseteq FxRate /\ \A file \in RateFiles : file \subseteq FxRate

\* Below 200 %: from there on _legs divides by zero or by a negative number.
ASSUME ToleranceAssumption == FxTolerance < 20000

VARIABLES
    txn,        \* txn[t]: the transaction; ids are in order of ingestion
    late,       \* transactions that arrive before the next run
    rejected,   \* pairs <<internal, external>> that people took apart
    rates,      \* fx_rates
    loaded,     \* the files of rates loaded
    quoted,     \* the run's FxService cache
    used,       \* <<currency, day, rate>>: what the run has been told
    mode,
    today,
    runs,       \* runs begun
    stage,
    pool,       \* the candidates the stage fetched
    queue,      \* what the stage has still to look at
    matches,    \* match results
    raised      \* exceptions

matchingVars == <<txn, late, rejected, rates, loaded, quoted, used, mode, today, runs,
                  stage, pool, queue, matches, raised>>
run_fixed == <<txn, late, rejected, mode, today, runs>>
fx_fixed == <<rates, loaded>>

-----------------------------------------------------------------------------
(* The ledger.                                                             *)

Claimed == UNION {m.int \cup m.ext : m \in matches}
Free(t) == t \notin Claimed
Allowed(i, e) == <<i, e>> \notin rejected

find_unmatched(src) == {t \in DOMAIN txn : txn[t].src = src /\ Free(t)}

\* Transactions are fetched, and looked at, in order of day, line and id.
First(ts) == CHOOSE t \in ts : \A u \in ts \ {t} : Before(txn, t, u)
InOrder(ts) ==
    [j \in 1 .. Cardinality(ts) |->
        CHOOSE t \in ts : Cardinality({u \in ts : Before(txn, u, t)}) = j - 1]

Result(type, status, int, ext, confidence, inr) ==
    [type |-> type, status |-> status, int |-> int, ext |-> ext,
     confidence |-> confidence, inr |-> inr, run |-> runs]

-----------------------------------------------------------------------------
(* FxService: a currency's rate of a day is looked up once per run.        *)

quote_NoCache(ccy, day) ==
    IF ccy = "INR" THEN [rate |-> RateUnit, source |-> "IDENTITY", day |-> day]
    ELSE pick_quote({r \in rates : r.currency = ccy}, day)

quote(ccy, day) ==
    IF ccy = "INR" THEN [rate |-> RateUnit, source |-> "IDENTITY", day |-> day]
    ELSE IF <<ccy, day>> \in DOMAIN quoted THEN quoted[<<ccy, day>>]
    ELSE pick_quote({r \in rates : r.currency = ccy}, day)

QuoteOf(t) == quote(txn[t].ccy, txn[t].day)

\* _inr_minor
InrOf(t) ==
    IF QuoteOf(t) = NoQuote THEN NA
    ELSE to_inr_minor(txn[t].amount, txn[t].ccy, QuoteOf(t).rate)

\* The lookups, for s and then for `ts` in order, end with the first that fails.
Asked(s, ts) ==
    {s} \cup {t \in ts : /\ QuoteOf(s) # NoQuote
                         /\ \A u \in ts : Before(txn, u, t) => QuoteOf(u) # NoQuote}

\* The effect of asking for the rates of the transactions `ts`.
AskRates(ts) ==
    LET keys == {<<txn[t].ccy, txn[t].day>> : t \in {u \in ts : txn[u].ccy # "INR"}}
    IN  /\ quoted' = [k \in DOMAIN quoted \cup keys |-> quote(k[1], k[2])]
        /\ used' = used \cup {<<k[1], k[2], quote(k[1], k[2]).rate>> : k \in keys}

\* api/v1/fx.py: a file is parsed, judged and inserted in one transaction.  A
\* file loaded between two runs is as one loaded when the second begins.
upload_fx_rates ==
    /\ stage \notin {"done", "failed"}
    /\ \E file \in RateFiles \ loaded :
          /\ loaded' = loaded \cup {file}
          /\ rates' = insert_many(rates, file)
    /\ UNCHANGED <<run_fixed, quoted, used, stage, pool, queue, matches, raised>>

-----------------------------------------------------------------------------
(* The orchestrator.                                                       *)

StageAfter ==
    [set |-> "exact", exact |-> IF mode = "FULL" THEN "cross" ELSE "leftovers",
     cross |-> "split", split |-> "netted", netted |-> "fuzzy", fuzzy |-> "rule",
     rule |-> "leftovers", leftovers |-> "review", review |-> "matched",
     matched |-> "groups", groups |-> "done"]

\* The stages that look at one external after the other; "split" looks at
\* internals.
ByExternal == {"exact", "cross", "netted", "fuzzy", "rule"}

\* The next stage begins with what is unmatched then.
GoOn ==
    /\ stage' = StageAfter[stage]
    /\ pool' = IF stage' \in ByExternal THEN find_unmatched("INTERNAL")
               ELSE IF stage' = "split" THEN find_unmatched("EXTERNAL") ELSE {}
    /\ queue' = IF stage' \in ByExternal THEN find_unmatched("EXTERNAL")
                ELSE IF stage' = "split" THEN find_unmatched("INTERNAL") ELSE {}

NextStage ==
    /\ stage \in ByExternal \cup {"split"}
    /\ queue = {}
    /\ GoOn
    /\ UNCHANGED <<run_fixed, fx_fixed, quoted, used, matches, raised>>

\* The frame of a stage's look at First(queue).
Look(s) ==
    /\ stage = s
    /\ queue # {}
    /\ queue' = queue \ {First(queue)}
    /\ UNCHANGED <<run_fixed, fx_fixed, stage, pool, raised>>

Record(new) == matches' = matches \cup new

-----------------------------------------------------------------------------
(* Exact matching.                                                         *)

\* One statement pairs every key that one internal and one external have.
SetBasedExact ==
    LET avail == {t \in DOMAIN txn : Free(t) /\ HasKey(txn[t])}
        same(t) == {u \in avail : build_key(txn[u]) = build_key(txn[t])}
        pairs == {p \in avail \X avail :
                     /\ txn[p[1]].src = "INTERNAL" /\ txn[p[2]].src = "EXTERNAL"
                     /\ same(p[1]) = {p[1], p[2]} /\ Allowed(p[1], p[2])}
    IN  /\ stage = "set"
        /\ stage' = "exact"
        /\ matches' = matches \cup
               {Result("EXACT", "AUTO_MATCHED", {p[1]}, {p[2]}, 1000, FALSE) : p \in pairs}
        /\ pool' = find_unmatched("INTERNAL") \ {p[1] : p \in pairs}
        /\ queue' = find_unmatched("EXTERNAL") \ {p[2] : p \in pairs}
        /\ UNCHANGED <<run_fixed, fx_fixed, quoted, used, raised>>

\* The candidate closest in time, the first of those.
_disambiguate(bucket, e) ==
    LET gap(i) == Distance(txn[i].day, txn[e].day)
    IN  CHOOSE i \in bucket : \A k \in bucket \ {i} :
            gap(i) < gap(k) \/ (gap(i) = gap(k) /\ Before(txn, i, k))

Exact ==
    LET e == First(queue)
        bucket == {i \in pool : /\ Free(i) /\ HasKey(txn[e]) /\ Allowed(i, e)
                                /\ build_key(txn[i]) = build_key(txn[e])}
    IN  /\ Look("exact")
        /\ Record(IF bucket = {} THEN {}
                  ELSE {Result("EXACT", "AUTO_MATCHED", {_disambiguate(bucket, e)}, {e}, 1000, FALSE)})
        /\ UNCHANGED <<quoted, used>>

-----------------------------------------------------------------------------
(* Cross-currency pairs: one peer of the same reference and direction, and *)
(* its value in rupees within the tolerance.                               *)

CROSS_MAX_DAYS == 3

Cross ==
    LET e == First(queue)
        peers == {i \in pool :
                     /\ Free(i) /\ Allowed(i, e)
                     /\ HasKey(txn[e]) /\ txn[i].ref = txn[e].ref
                     /\ txn[i].ccy # txn[e].ccy /\ txn[i].dir = txn[e].dir
                     /\ Distance(txn[i].day, txn[e].day) <= CROSS_MAX_DAYS}
        i == CHOOSE p \in peers : TRUE
        agrees == /\ NA \notin {InrOf(i), InrOf(e)}
                  /\ WithinPercent(InrOf(i), InrOf(e), FxTolerance)
    IN  /\ Look("cross")
        /\ IF Cardinality(peers) # 1
           THEN UNCHANGED <<matches, quoted, used>>
           ELSE /\ AskRates(Asked(i, {e}))
                /\ Record(IF agrees
                          THEN {Result("CROSS_CURRENCY", "AUTO_MATCHED", {i}, {e}, 900, TRUE)}
                          ELSE {})

-----------------------------------------------------------------------------
(* Split and netted groups.                                                *)

\* A whole reference, and without its instalment.
_stem_keys(ref) == IF ref = NoRef THEN {} ELSE {ref, [ref EXCEPT !.part = 0]}

SharedStem(s) == {c \in DOMAIN txn : _stem_keys(txn[s].ref) \cap _stem_keys(txn[c].ref) # {}}
SharedParty(s) == {c \in DOMAIN txn : txn[s].party # "" /\ txn[s].party = txn[c].party}
GroupWindow == Max({2, DateOffsetDays})

_candidates(s, linked) ==
    {c \in pool : /\ Free(c) /\ c \in linked
                  /\ IF txn[s].src = "INTERNAL" THEN Allowed(s, c) ELSE Allowed(c, s)
                  /\ txn[c].dir = txn[s].dir
                  /\ Distance(txn[c].day, txn[s].day) <= GroupWindow}

Mixed(ts) == Cardinality({txn[t].ccy : t \in ts}) > 1

\* Target, members and bounds in one currency.  All amounts in one currency
\* are compared as they are; otherwise every leg is in paise and the bounds
\* are where |a - b| / mean is the tolerance.
_legs(s, cands) ==
    LET mixed == Mixed({s} \cup cands)
        value(t) == IF mixed THEN InrOf(t) ELSE txn[t].amount
        order == InOrder(cands)
        target == value(s)
    IN  [amounts |-> [j \in 1 .. Len(order) |-> value(order[j])],
         low  |-> IF mixed THEN CeilDiv(target * (20000 - FxTolerance), 20000 + FxTolerance)
                  ELSE target - AmountTolerance,
         high |-> IF mixed THEN (target * (20000 + FxTolerance)) \div (20000 - FxTolerance)
                  ELSE target + AmountTolerance,
         max  |-> MaxMembers]

\* All of the linked candidates if they fit together, else the one subset of
\* them that does; {} if there is none, or several, or too many to search.
Choose(cands, legs) ==
    LET whole == SumFunction(legs.amounts)
        order == InOrder(cands)
        found == find_unique_subset(legs).indices
    IN  IF Cardinality(cands) <= MaxMembers /\ whole \in legs.low .. legs.high THEN cands
        ELSE IF Cardinality(cands) > MaxSearch THEN {}
        ELSE {c \in cands : \E j \in found : order[j] = c}

CONFIDENCE_STEM == 950
CONFIDENCE_COUNTERPARTY == 900
CONFIDENCE_FX == 900

\* What one kind of link gives: the members, and the rates asked for.
_fit(s, cands, confidence) ==
    LET legs  == {s} \cup cands
        mixed == Mixed(legs)
        enough == Cardinality(cands) >= 2
        known == ~mixed \/ \A t \in legs : QuoteOf(t) # NoQuote
    IN  [members |-> IF enough /\ known THEN Choose(cands, _legs(s, cands)) ELSE {},
         asked |-> IF mixed /\ enough THEN Asked(s, cands) ELSE {},
         inr |-> mixed,
         confidence |-> IF mixed THEN CONFIDENCE_FX ELSE confidence]

\* The reference link is tried before the counterparty's.
Prefer(a, b) == IF a.members # {} THEN a ELSE [b EXCEPT !.asked = @ \cup a.asked]

_solve(s) ==
    Prefer(_fit(s, _candidates(s, SharedStem(s)), CONFIDENCE_STEM),
           _fit(s, _candidates(s, SharedParty(s)), CONFIDENCE_COUNTERPARTY))

\* _fx_details takes the first leg that is not in rupees; a group of rupee
\* legs that was compared in rupees because another candidate was foreign has
\* none, and the IndexError ends the run.
NoForeignLeg(s, found) ==
    /\ found.inr /\ found.members # {}
    /\ \A t \in {s} \cup found.members : txn[t].ccy = "INR"

Group(s, kind, found) ==
    /\ ~NoForeignLeg(s, found)
    /\ AskRates(found.asked)
    /\ Record(IF found.members = {} THEN {}
              ELSE {Result(kind, "AUTO_MATCHED",
                           IF kind = "SPLIT" THEN {s} ELSE found.members,
                           IF kind = "SPLIT" THEN found.members ELSE {s},
                           found.confidence, found.inr)})

GroupStage(kind, s) ==
    IF Free(s) THEN Group(s, kind, _solve(s)) ELSE UNCHANGED <<matches, quoted, used>>

Split == Look("split") /\ GroupStage("SPLIT", First(queue))
Netted == Look("netted") /\ GroupStage("NETTED", First(queue))

\* The run rolls back and is FAILED (RunService.execute).
GroupFails ==
    /\ stage \in {"split", "netted"}
    /\ queue # {}
    /\ Free(First(queue))
    /\ NoForeignLeg(First(queue), _solve(First(queue)))
    /\ stage' = "failed"
    /\ matches' = {m \in matches : m.run # runs}
    /\ raised' = {x \in raised : x.run # runs}
    /\ queue' = {}
    /\ pool' = {}
    /\ UNCHANGED <<run_fixed, fx_fixed, quoted, used>>

-----------------------------------------------------------------------------
(* Fuzzy and rule matching.                                                *)

Offered(e) ==
    {i \in generate(txn, pool, e).candidates : Free(i) /\ Allowed(i, e)}

\* The highest confidence, the first of those found with it.
_best_candidate(cands, e) ==
    LET confidence(i) == score_candidate(txn[i], txn[e]).confidence
    IN  CHOOSE i \in cands : \A k \in cands \ {i} :
            \/ confidence(i) > confidence(k)
            \/ confidence(i) = confidence(k) /\ FoundBefore(txn, i, k, e)

Fuzzy ==
    LET e == First(queue)
        decision(i) == score_candidate(txn[i], txn[e]).decision
        good == {i \in Offered(e) : decision(i) # "NO_MATCH"}
        best == _best_candidate(good, e)
        status == IF decision(best) = "AUTO_MATCH" THEN "AUTO_MATCHED" ELSE "PENDING_REVIEW"
    IN  /\ Look("fuzzy")
        /\ Record(IF good = {} THEN {}
                  ELSE {Result("FUZZY", status, {best}, {e},
                               score_candidate(txn[best], txn[e]).confidence, FALSE)})
        /\ UNCHANGED <<quoted, used>>

\* One hit among the candidates, none of which was cut off.
RuleBased ==
    LET e == First(queue)
        hits == {i \in Offered(e) : RuleHit(txn[i], txn[e])}
        certain == Cardinality(hits) = 1 /\ ~generate(txn, pool, e).truncated
    IN  /\ Look("rule")
        /\ Record(IF ~certain THEN {}
                  ELSE {Result("RULE", "AUTO_MATCHED", hits, {e}, RULE_CONFIDENCE, FALSE)})
        /\ UNCHANGED <<quoted, used>>

-----------------------------------------------------------------------------
(* The classifier.                                                         *)

\* A candidate exception: its dedupe key, the transactions it names, and the
\* one whose value and day it is routed by.
Candidate(key, ids, finding, of) ==
    [key |-> key, ids |-> ids, finding |-> finding, of |-> of]

AnalysePair(i, e, matched, confidence) ==
    analyse_pair(txn[i], txn[e], matched, confidence, [int |-> InrOf(i), ext |-> InrOf(e)])

\* Everything after the first of transactions that agree in all but the id,
\* matched or not.
Twins(a, b) == build_key(a) = build_key(b) /\ a.src = b.src /\ a.day = b.day
Duplicates ==
    {d \in DOMAIN txn : /\ HasKey(txn[d])
                        /\ \E o \in 1 .. d - 1 : Twins(txn[o], txn[d])}

Key(category, kind, ids, of_run) == <<category, kind, ids, of_run>>

_duplicate_candidates ==
    {LET category == IF txn[d].src = "INTERNAL" THEN "DUPLICATE_INTERNAL" ELSE "DUPLICATE_EXTERNAL"
     IN  Candidate(Key(category, "txn", {d}, 0), {d}, Finding(category), d) : d \in Duplicates}

_pair_candidate_from(i, e, finding, kind, of_run) ==
    Candidate(Key(finding.category, kind, {i, e}, of_run), {i, e}, finding, e)

_single_candidate(t) ==
    LET category == SingleCategory(txn[t], today)
    IN  Candidate(Key(category, "txn", {t}, 0), {t}, Finding(category), t)

\* Leftovers that are no copies.
Leftovers(src) == find_unmatched(src) \ Duplicates

\* The one internal that has e's reference, if there is one.
Peers(e) == {i \in Leftovers("INTERNAL") : HasKey(txn[e]) /\ txn[i].ref = txn[e].ref}

\* Externals are taken in order; one that finds its peer alone and something
\* to say about the two takes it.
Pairs_BeforeFindings ==
    {p \in Leftovers("INTERNAL") \X Leftovers("EXTERNAL") :
        /\ Peers(p[2]) = {p[1]}
        /\ \A f \in Leftovers("EXTERNAL") : Before(txn, f, p[2]) => Peers(f) # {p[1]}}

Takes(i, e) == Peers(e) = {i} /\ AnalysePair(i, e, FALSE, NA) # <<>>
Pairs ==
    {p \in Leftovers("INTERNAL") \X Leftovers("EXTERNAL") :
        /\ Takes(p[1], p[2])
        /\ \A f \in Leftovers("EXTERNAL") : Before(txn, f, p[2]) => ~Takes(p[1], f)}

FirstOf(found) == IF found = <<>> THEN {} ELSE {found[1]}

_unmatched_candidates ==
    LET paired == UNION {{p[1], p[2]} : p \in Pairs}
        single == (Leftovers("INTERNAL") \cup Leftovers("EXTERNAL")) \ paired
    IN  (UNION {{_pair_candidate_from(p[1], p[2], f, "pair", 0) :
                     f \in FirstOf(AnalysePair(p[1], p[2], FALSE, NA))} : p \in Pairs})
        \cup {_single_candidate(t) : t \in single}

\* The value of the candidates `new` of a day.
_cumulative_daily_inr(new, day) ==
    MapThenSumSet(LAMBDA c : Max({0, InrOf(c.of)}), {c \in new : txn[c.of].day = day})

\* _persist: a key that has an exception is skipped; what is new is routed,
\* with the day's total over what is new.
_persist(cands) ==
    LET existing == {x.key : x \in raised}
        new == {c \in cands : c.key \notin existing}
        tier(c) == _tier(c.finding, InrOf(c.of), _cumulative_daily_inr(new, txn[c.of].day),
                         Cardinality(cands))
    IN  raised' = raised \cup
            {[key |-> c.key, category |-> c.finding.category, ids |-> c.ids, run |-> runs,
              tier |-> tier(c)] : c \in new}

\* A pass over `cands`: each is valued, a currency finding asked for both legs.
Pass(s, cands) ==
    /\ stage = s
    /\ stage' = StageAfter[s]
    /\ _persist(cands)
    /\ AskRates(UNION {IF c.finding.category \in {"CURRENCY_MISMATCH", "FX_VARIANCE"}
                       THEN c.ids ELSE {c.of} : c \in cands})
    /\ UNCHANGED <<run_fixed, fx_fixed, pool, queue, matches>>

OfRun(types, status) == {m \in matches : m.run = runs /\ m.type \in types /\ m.status = status}
PairTypes == {"EXACT", "CROSS_CURRENCY", "FUZZY", "RULE"}
InternalOf(m) == CHOOSE i \in m.int : TRUE
ExternalOf(m) == CHOOSE e \in m.ext : TRUE

classify_unmatched == Pass("leftovers", _duplicate_candidates \cup _unmatched_candidates)

\* The review band: the first finding of each pair, if any.
classify_pending_review ==
    Pass("review",
         UNION {{_pair_candidate_from(InternalOf(m), ExternalOf(m), f, "pair", 0) :
                     f \in FirstOf(AnalysePair(InternalOf(m), ExternalOf(m), FALSE, m.confidence))} :
                m \in OfRun(PairTypes, "PENDING_REVIEW")})

\* Only pairs that could have a finding are loaded.
Loaded(i, e) ==
    \/ txn[i].day # txn[e].day
    \/ txn[e].settled # txn[i].day
    \/ txn[i].ref # txn[e].ref
    \/ has_regulatory_hold(txn[i]) \/ has_regulatory_hold(txn[e])

classify_matched ==
    Pass("matched",
         UNION {{_pair_candidate_from(InternalOf(m), ExternalOf(m), f, "matched", runs) :
                     f \in Range(AnalysePair(InternalOf(m), ExternalOf(m), TRUE, m.confidence))} :
                m \in {n \in OfRun(PairTypes, "AUTO_MATCHED") : Loaded(InternalOf(n), ExternalOf(n))}})

classify_groups ==
    Pass("groups",
         {LET category == IF m.type = "SPLIT" THEN "PARTIAL_MATCH" ELSE "NETTED_SETTLEMENT"
              ids == m.int \cup m.ext
          IN  Candidate(Key(category, "group", ids, runs), ids, Finding(category),
                        IF m.type = "SPLIT" THEN InternalOf(m) ELSE ExternalOf(m)) :
          m \in OfRun({"SPLIT", "NETTED"}, "AUTO_MATCHED")})

-----------------------------------------------------------------------------
(* Runs.                                                                   *)

\* The next run, a day later, has its own FxService.
NewRun ==
    /\ stage \in {"done", "failed"}
    /\ runs < MaxRuns
    /\ runs' = runs + 1
    /\ today' = today + 1
    /\ mode' \in Modes
    /\ stage' = "set"
    /\ txn' = txn \o late
    /\ late' = <<>>
    /\ quoted' = <<>>
    /\ used' = {}
    /\ UNCHANGED <<rejected, fx_fixed, pool, queue, matches, raised>>

MatchingInit ==
    /\ \E l \in Ledgers : txn = l.txn /\ late = l.late /\ rejected = l.rejected
    /\ rates = FirstRates
    /\ loaded = {}
    /\ quoted = <<>>
    /\ used = {}
    /\ mode \in Modes
    /\ today = FirstDay
    /\ runs = 1
    /\ stage = "set"
    /\ pool = {}
    /\ queue = {}
    /\ matches = {}
    /\ raised = {}

MatchingNext ==
    \/ upload_fx_rates
    \/ SetBasedExact \/ Exact \/ Cross \/ Split \/ Netted \/ GroupFails \/ Fuzzy \/ RuleBased
    \/ NextStage
    \/ classify_unmatched \/ classify_pending_review \/ classify_matched \/ classify_groups
    \/ NewRun

MatchingSpec == MatchingInit /\ [][MatchingNext]_matchingVars

-----------------------------------------------------------------------------
(* Properties.                                                             *)

SumOf(ts, value(_)) == SumFunction([t \in ts |-> value(t)])
AmountOf(t) == txn[t].amount

\* A rule takes 0.01 in a currency that has not two decimals.
ToleranceOf(m) ==
    IF m.type = "RULE" THEN penny_tolerance(txn[ExternalOf(m)].ccy) ELSE AmountTolerance

\* A pair that is matched without asking a person agrees: one direction; the
\* amounts within the tolerance or, when they were compared in rupees at the
\* run's rates, within the FX tolerance; and a fuzzy pair at most two days
\* apart.  No single test of a stage says so for fuzzy pairs: it is the weights
\* and the threshold of weighted.py that leave no room for a difference in
\* amount or date.
PairsAgree ==
    \A m \in OfRun(PairTypes, "AUTO_MATCHED") :
        LET i == InternalOf(m)
            e == ExternalOf(m)
        IN  /\ txn[i].dir = txn[e].dir
            /\ IF m.inr THEN WithinPercent(InrOf(i), InrOf(e), FxTolerance)
               ELSE /\ txn[i].ccy = txn[e].ccy
                    /\ Distance(txn[i].amount, txn[e].amount) <= ToleranceOf(m)
            /\ m.type = "FUZZY" => Distance(txn[i].day, txn[e].day) <= 2

\* So do the two sides of a group, the sum of the members for one of them.
GroupsAgree ==
    \A m \in OfRun({"SPLIT", "NETTED"}, "AUTO_MATCHED") :
        /\ \A t, u \in m.int \cup m.ext : txn[t].dir = txn[u].dir
        /\ IF m.inr THEN WithinPercent(SumOf(m.int, InrOf), SumOf(m.ext, InrOf), FxTolerance)
           ELSE /\ ~Mixed(m.int \cup m.ext)
                /\ Distance(SumOf(m.int, AmountOf), SumOf(m.ext, AmountOf)) <= AmountTolerance

\* What the stages match without asking a person agrees, pairs and groups.
MatchesAgree == PairsAgree /\ GroupsAgree

Classified == {"review", "matched", "groups", "done"}

\* Once the leftovers are classified, every transaction no match has is named
\* by an exception, of this run or of an earlier one, and by no two of this
\* run: the copies, the pairs by reference and the singles of
\* classify_unmatched are a partition of what is left.
LeftoversExplained ==
    stage \in Classified =>
        \A t \in {u \in DOMAIN txn : Free(u)} :
            /\ \E x \in raised : t \in x.ids
            /\ Cardinality({x \in raised : x.run = runs /\ t \in x.ids}) <= 1

\* When a run is done, a transaction whose narration puts it on hold is named
\* by a REGULATORY_HOLD that compliance has, whether it is left over or a
\* member of a pair, however stale it is and whatever it is worth.  Copies of
\* another transaction are reported as copies, and members of a group with
\* the group (see the README).
HoldsReachCompliance ==
    stage = "done" =>
        \A t \in {u \in DOMAIN txn : has_regulatory_hold(txn[u])} :
            \/ t \in Duplicates
            \/ \E m \in matches : m.type \notin PairTypes /\ t \in m.int \cup m.ext
            \/ \E x \in raised : x.category = "REGULATORY_HOLD" /\ x.tier = 4 /\ t \in x.ids

\* All stages and passes of a run use one rate for a currency and day,
\* although files are loaded while it runs: a pair that matched is not later
\* valued, or found wrong, at another rate.
OneRatePerDay ==
    \A u, v \in used : u[1] = v[1] /\ u[2] = v[2] => u[3] = v[3]

\* "Same-currency sums must agree within tolerance_minor": a group whose
\* single side and members have one currency agrees to the bank's tolerance.
SameCurrencyExact ==
    \A m \in matches :
        m.type \in {"SPLIT", "NETTED"} /\ ~Mixed(m.int \cup m.ext) =>
            Distance(SumOf(m.int, AmountOf), SumOf(m.ext, AmountOf)) <= AmountTolerance
=============================================================================

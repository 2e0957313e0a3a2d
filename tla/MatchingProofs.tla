--------------------------- MODULE MatchingProofs ---------------------------
(***************************************************************************)
(* What a run decides, for any ledgers, rates, tolerances and number of    *)
(* runs: pairs and groups that are matched agree, nothing left over is     *)
(* unexplained, no hold misses compliance, and a run has one rate per      *)
(* currency and day.  What the sums of a group are rests on SubsetProofs.  *)
(***************************************************************************)
EXTENDS Matching, SubsetProofs

-----------------------------------------------------------------------------
(* Choosing the least.                                                     *)

\* Any set has an element where a function to the naturals is least.
LEMMA LeastBy ==
    ASSUME NEW S, S # {}, NEW f \in [S -> Nat]
    PROVE  \E x \in S : \A y \in S : f[x] <= f[y]
<1> DEFINE T == {f[x] : x \in S}
<1>1. T \subseteq Nat /\ T # {}
  OBVIOUS
<1> HIDE DEF T
<1>2. \E n \in T : \A k \in T : ~ (<<k, n>> \in OpToRel(<, Nat))
  BY <1>1, WFMin, NatLessThanWellFounded, Zenon
<1>3. PICK n \in T : \A k \in T : ~ (<<k, n>> \in OpToRel(<, Nat))
  BY <1>2
<1>4. \A k \in T : ~ (k < n)
  BY <1>1, <1>3 DEF OpToRel
<1>5. \A k \in T : n <= k
  BY <1>1, <1>4
<1>6. QED
  BY <1>5 DEF T

\* A transaction of the ledger has its columns, and an id that is a number.
LEMMA Columns ==
    ASSUME txn \in Seq(Txn), NEW t \in DOMAIN txn
    PROVE  /\ t \in Nat /\ t \in 1 .. Len(txn) /\ txn[t] \in Txn
           /\ txn[t].day \in Nat /\ txn[t].line \in Nat /\ txn[t].amount \in Nat
           /\ txn[t].src \in {"INTERNAL", "EXTERNAL"}
<1>1. t \in 1 .. Len(txn) /\ txn[t] \in Txn
  OBVIOUS
<1>2. QED
  BY <1>1 DEF Txn

\* Among transactions of the ledger there is a first in order of day, line, id.
LEMMA Earliest ==
    ASSUME txn \in Seq(Txn), NEW S, S \subseteq DOMAIN txn, S # {}
    PROVE  \E t \in S : \A u \in S \ {t} : Before(txn, t, u)
<1> DEFINE day == [t \in S |-> txn[t].day]
<1>1. day \in [S -> Nat]
  BY Columns
<1>2. PICK x \in S : \A y \in S : day[x] <= day[y]
  BY <1>1, LeastBy
<1> DEFINE D == {t \in S : txn[t].day = txn[x].day}
           row == [t \in D |-> txn[t].line]
<1>3. D # {} /\ row \in [D -> Nat]
  BY Columns
<1>4. PICK y \in D : \A u \in D : row[y] <= row[u]
  BY <1>3, LeastBy
<1> DEFINE R == {t \in D : txn[t].line = txn[y].line}
           id == [t \in R |-> t]
<1>5. R # {} /\ id \in [R -> Nat]
  BY Columns
<1>6. PICK t \in R : \A u \in R : id[t] <= id[u]
  BY <1>5, LeastBy
<1>7. ASSUME NEW u \in S, u # t PROVE Before(txn, t, u)
  <2>1. /\ txn[t].day <= txn[u].day /\ txn[t].day = txn[x].day
        /\ txn[t].line = txn[y].line
    BY <1>2
  <2>2. /\ txn[t].day \in Nat /\ txn[u].day \in Nat /\ t \in Nat /\ u \in Nat
        /\ txn[t].line \in Nat /\ txn[u].line \in Nat
    BY Columns
  <2>3. txn[u].day = txn[t].day => txn[t].line <= txn[u].line
    BY <1>4, <2>1
  <2>4. txn[u].day = txn[t].day /\ txn[u].line = txn[t].line => t < u
    BY <1>6, <1>7, <2>1, <2>2
  <2>5. QED
    BY <2>1, <2>2, <2>3, <2>4 DEF Before
<1>8. QED
  BY <1>7

\* The order is total, and nothing is before itself.
LEMMA InTurn ==
    ASSUME txn \in Seq(Txn), NEW a \in DOMAIN txn, NEW b \in DOMAIN txn
    PROVE  a # b => Before(txn, a, b) \/ Before(txn, b, a)
BY Columns DEF Before

\* What a stage looks at is in its queue.
LEMMA FirstIn ==
    ASSUME txn \in Seq(Txn), NEW S, S \subseteq DOMAIN txn, S # {}
    PROVE  First(S) \in S
<1>1. PICK t \in S : \A u \in S \ {t} : Before(txn, t, u)
  BY Earliest
<1>2. QED
  BY <1>1 DEF First

\* The exact stage takes a candidate of the bucket.
LEMMA DisambiguateIn ==
    ASSUME txn \in Seq(Txn), NEW S, S \subseteq DOMAIN txn, S # {}, NEW e \in DOMAIN txn
    PROVE  _disambiguate(S, e) \in S
<1> DEFINE gap == [i \in S |-> Distance(txn[i].day, txn[e].day)]
<1>1. gap \in [S -> Nat]
  BY Columns DEF Distance
<1>2. PICK x \in S : \A y \in S : gap[x] <= gap[y]
  BY <1>1, LeastBy
<1> DEFINE D == {i \in S : gap[i] = gap[x]}
<1>3. D # {} /\ D \subseteq DOMAIN txn
  OBVIOUS
<1>4. PICK i \in D : \A k \in D \ {i} : Before(txn, i, k)
  BY <1>3, Earliest
<1>5. \A k \in S \ {i} : gap[i] < gap[k] \/ (gap[i] = gap[k] /\ Before(txn, i, k))
  BY <1>1, <1>2, <1>4
<1>6. QED
  BY <1>4, <1>5 DEF _disambiguate

-----------------------------------------------------------------------------
(* The weighted score.                                                     *)

\* Every field's score is between 0 and ONE.
LEMMA ScoreBounds ==
    ASSUME NEW i \in Txn, NEW e \in Txn
    PROVE  /\ score_reference(i.ref, e.ref) \in 0 .. ONE
           /\ score_amount(i.amount, e.amount) \in 0 .. ONE
           /\ score_date(i.day, e.day) \in 0 .. ONE
           /\ score_counterparty(i.party, e.party) \in 0 .. ONE
           /\ score_gate(i.dir, e.dir) \in 0 .. ONE
           /\ score_gate(i.ccy, e.ccy) \in 0 .. ONE
<1>1. score_reference(i.ref, e.ref) \in 0 .. ONE
  BY DEF score_reference, JaroWinkler, Levenshtein, ONE, REFERENCE_JARO_WINKLER,
     LEVENSHTEIN_MAX_DISTANCE
<1>2. score_amount(i.amount, e.amount) \in 0 .. ONE
  BY DEF score_amount, ONE
<1>3. score_date(i.day, e.day) \in 0 .. ONE
  <2>1. Distance(i.day, e.day) \in Nat
    BY DEF Txn, Distance
  <2>2. Distance(i.day, e.day) <= 2 => Distance(i.day, e.day) + 1 \in 1 .. 3
    BY <2>1
  <2>3. \A n \in 1 .. 3 : <<ONE, 2400, 1500>>[n] \in 0 .. ONE
    BY DEF ONE
  <2>4. 0 \in 0 .. ONE
    BY DEF ONE
  <2>5. QED
    BY <2>2, <2>3, <2>4 DEF score_date
<1>4. score_counterparty(i.party, e.party) \in 0 .. ONE
  BY DEF score_counterparty, TokenSetRatio, ONE
<1>5. score_gate(i.dir, e.dir) \in 0 .. ONE
  BY DEF score_gate, ONE
<1>6. score_gate(i.ccy, e.ccy) \in 0 .. ONE
  BY DEF score_gate, ONE
<1>7. QED
  BY <1>1, <1>2, <1>3, <1>4, <1>5, <1>6, Zenon

\* The weights add up to 1: without the amount, or without the date, at most
\* 850 thousandths are left.
LEMMA Weights ==
    ASSUME NEW r \in Nat, NEW a \in Nat, NEW d \in Nat, NEW c \in Nat, NEW g \in Nat,
           NEW h \in Nat, r <= 3000, a <= 3000, d <= 3000, c <= 3000, g <= 3000, h <= 3000
    PROVE  /\ 35 * r + 25 * a + 15 * d + 10 * c + 10 * g + 5 * h \in Nat
           /\ 35 * r + 25 * a + 15 * d + 10 * c + 10 * g + 5 * h <= 300000
           /\ 35 * r + 25 * a + 15 * d + 10 * c + 10 * g + 5 * h > 255000 => a > 0 /\ d > 0
BY SMTT(40)

\* Rounding stays within thousandths and passes no threshold.
LEMMA Rounded ==
    ASSUME NEW n \in Nat, n <= 300000
    PROVE  RoundHalfEven(n, 300) \in 0 .. 1000 /\ (RoundHalfEven(n, 300) > 850 => n > 255000)
<1>1. PICK q \in Nat, r \in Nat : q = n \div 300 /\ r = n % 300 /\ n = 300 * q + r /\ r < 300
  BY SMTT(40)
<1>2. PICK b \in {0, 1} : q % 2 = b
  BY SMTT(40)
<1>3. RoundHalfEven(n, 300) = IF 2 * r < 300 THEN q ELSE IF 2 * r > 300 THEN q + 1 ELSE q + b
  BY <1>1, <1>2, SMTT(40) DEF RoundHalfEven
<1>4. QED
  BY <1>1, <1>2, <1>3, SMTT(40)

\* A weighted sum is at most ONE; above the threshold the amount and the date
\* count.
LEMMA Weighed ==
    ASSUME NEW r \in 0 .. ONE, NEW a \in 0 .. ONE, NEW d \in 0 .. ONE, NEW c \in 0 .. ONE,
           NEW g \in 0 .. ONE, NEW h \in 0 .. ONE,
           NEW n, n = 35 * r + 25 * a + 15 * d + 10 * c + 10 * g + 5 * h
    PROVE  /\ RoundHalfEven(n, 300) \in 0 .. ONE
           /\ RoundHalfEven(n, 300) > AUTO_MATCH_CONFIDENCE => a > 0 /\ d > 0
<1>1. n \in Nat /\ n <= 300000 /\ (n > 255000 => a > 0 /\ d > 0)
  <2>1. /\ {r, a, d, c, g, h} \subseteq Nat
        /\ r <= 3000 /\ a <= 3000 /\ d <= 3000 /\ c <= 3000 /\ g <= 3000 /\ h <= 3000
    BY SMTT(40) DEF ONE
  <2>2. QED
    BY <2>1, Weights, SMTT(40)
<1>2. RoundHalfEven(n, 300) \in 0 .. 1000 /\ (RoundHalfEven(n, 300) > 850 => n > 255000)
  BY <1>1, Rounded, SMTT(40)
<1>3. QED
  BY <1>1, <1>2, SMTT(40) DEF ONE, AUTO_MATCH_CONFIDENCE

\* The confidence of a pair, likewise.
LEMMA ConfidenceBounds ==
    ASSUME NEW i \in Txn, NEW e \in Txn
    PROVE  /\ Confidence(FieldScores(i, e)) \in 0 .. ONE
           /\ Confidence(FieldScores(i, e)) > AUTO_MATCH_CONFIDENCE =>
                 /\ score_amount(i.amount, e.amount) > 0
                 /\ score_date(i.day, e.day) > 0
<1>1. PICK r \in 0 .. ONE : r = score_reference(i.ref, e.ref)
  BY ScoreBounds
<1>2. PICK a \in 0 .. ONE : a = score_amount(i.amount, e.amount)
  BY ScoreBounds
<1>3. PICK d \in 0 .. ONE : d = score_date(i.day, e.day)
  BY ScoreBounds
<1>4. PICK c \in 0 .. ONE : c = score_counterparty(i.party, e.party)
  BY ScoreBounds
<1>5. PICK g \in 0 .. ONE : g = score_gate(i.dir, e.dir)
  BY ScoreBounds
<1>6. PICK h \in 0 .. ONE : h = score_gate(i.ccy, e.ccy)
  BY ScoreBounds
<1> DEFINE n == 35 * r + 25 * a + 15 * d + 10 * c + 10 * g + 5 * h
<1>7. Confidence(FieldScores(i, e)) = RoundHalfEven(n, 300)
  BY <1>1, <1>2, <1>3, <1>4, <1>5, <1>6 DEF Confidence, FieldScores
<1>8. /\ RoundHalfEven(n, 300) \in 0 .. ONE
      /\ RoundHalfEven(n, 300) > AUTO_MATCH_CONFIDENCE => a > 0 /\ d > 0
  BY Weighed
<1> HIDE DEF n
<1>9. QED
  BY <1>2, <1>3, <1>7, <1>8, Zenon

\* An automatic match passed both gates and the threshold.
LEMMA AutoPassed ==
    ASSUME NEW i, NEW e, score_candidate(i, e).decision = "AUTO_MATCH"
    PROVE  /\ score_gate(i.dir, e.dir) = ONE /\ score_gate(i.ccy, e.ccy) = ONE
           /\ Confidence(FieldScores(i, e)) > AUTO_MATCH_CONFIDENCE
<1> DEFINE s == FieldScores(i, e)
<1>1. _decide(i, e, s) = "AUTO_MATCH"
  BY DEF score_candidate
<1>2. s.direction = score_gate(i.dir, e.dir) /\ s.currency = score_gate(i.ccy, e.ccy)
  BY DEF FieldScores
<1> HIDE DEF s
<1>3. s.direction = ONE /\ s.currency = ONE /\ Confidence(s) > AUTO_MATCH_CONFIDENCE
  BY <1>1 DEF _decide
<1>4. QED
  BY <1>2, <1>3, Zenon DEF s

\* The weights leave no room for an amount outside the tolerance, or for three
\* days: a match above the threshold has neither.
LEMMA AutoAgrees ==
    ASSUME NEW i \in Txn, NEW e \in Txn, score_candidate(i, e).decision = "AUTO_MATCH"
    PROVE  /\ i.dir = e.dir /\ i.ccy = e.ccy
           /\ Distance(i.amount, e.amount) <= AmountTolerance
           /\ Distance(i.day, e.day) <= 2
<1>1. /\ score_amount(i.amount, e.amount) > 0 /\ score_date(i.day, e.day) > 0
      /\ score_gate(i.dir, e.dir) = ONE /\ score_gate(i.ccy, e.ccy) = ONE
  BY AutoPassed, ConfidenceBounds, Zenon
<1>2. i.dir = e.dir /\ i.ccy = e.ccy
  BY <1>1 DEF score_gate, ONE
<1>3. Distance(i.day, e.day) <= 2
  BY <1>1 DEF score_date
<1>4. i.amount \in Nat /\ AmountTolerance \in Nat
  BY ScoringAssumption DEF Txn
<1>5. i.amount = e.amount => Distance(i.amount, e.amount) <= AmountTolerance
  BY <1>4 DEF Distance
<1>6. Distance(i.amount, e.amount) <= AmountTolerance
  BY <1>1, <1>5 DEF score_amount
<1>7. QED
  BY <1>2, <1>3, <1>6

\* The fuzzy stage takes one of the candidates it scored.
LEMMA BestIn ==
    ASSUME txn \in Seq(Txn), NEW S, S \subseteq DOMAIN txn, S # {}, NEW e \in DOMAIN txn
    PROVE  _best_candidate(S, e) \in S
<1> DEFINE conf(i) == score_candidate(txn[i], txn[e]).confidence
           miss == [i \in S |-> ONE - conf(i)]
<1>1. \A i \in S : conf(i) \in 0 .. ONE
  BY Columns, ConfidenceBounds DEF score_candidate
<1> HIDE DEF conf
<1>2. \A i \in S : conf(i) \in Int /\ miss[i] = ONE - conf(i)
  BY <1>1
<1>3. miss \in [S -> Nat]
  <2>1. \A n \in 0 .. ONE : ONE - n \in Nat
    BY DEF ONE
  <2>2. QED
    BY <1>1, <2>1, Zenon
<1>4. PICK x \in S : \A y \in S : miss[x] <= miss[y]
  BY <1>3, LeastBy
<1> DEFINE B == {i \in S : conf(i) = conf(x)}
           block == [i \in B |-> BlockOf(txn[i], txn[e])]
<1>5. B # {} /\ B \subseteq S
  OBVIOUS
<1>6. block \in [B -> Nat]
  BY DEF BlockOf
<1>7. PICK y \in B : \A z \in B : block[y] <= block[z]
  BY <1>5, <1>6, LeastBy
<1> DEFINE D == {i \in B : block[i] = block[y]}
<1>8. D # {} /\ D \subseteq DOMAIN txn
  BY <1>5
<1>9. PICK i \in D : \A k \in D \ {i} : Before(txn, i, k)
  BY <1>8, Earliest
<1>10. ASSUME NEW k \in S \ {i}
       PROVE  conf(i) > conf(k) \/ (conf(i) = conf(k) /\ FoundBefore(txn, i, k, e))
  <2>1. conf(i) = conf(x) /\ i \in S
    OBVIOUS
  <2>2. conf(x) >= conf(k)
    BY <1>2, <1>4 DEF ONE
  <2>3. CASE conf(k) # conf(x)
    BY <1>2, <2>1, <2>2, <2>3
  <2>4. CASE conf(k) = conf(x)
    <3>1. k \in B /\ block[y] <= block[k] /\ block[i] = block[y]
      BY <1>7, <2>4
    <3>2. CASE block[k] = block[y]
      BY <1>9, <2>1, <2>4, <3>1, <3>2 DEF FoundBefore
    <3>3. CASE block[k] # block[y]
      <4>1. block[i] < block[k]
        BY <1>6, <3>1, <3>3
      <4>2. QED
        BY <2>1, <2>4, <3>1, <4>1 DEF FoundBefore
    <3>4. QED
      BY <3>2, <3>3
  <2>5. QED
    BY <2>3, <2>4
<1>11. i \in S
  OBVIOUS
<1>12. QED
  BY <1>10, <1>11 DEF _best_candidate, conf
-----------------------------------------------------------------------------
(* The rates of a run.                                                     *)

\* The cache has a quote for every rate the run has been told, and no rate was
\* forgotten or changed since.
CacheAnswers ==
    /\ \A k \in DOMAIN quoted : k = <<k[1], k[2]>> /\ k[1] # "INR"
    /\ \A u \in used : /\ u = <<u[1], u[2], u[3]>>
                       /\ <<u[1], u[2]>> \in DOMAIN quoted
                       /\ u[3] = quoted[<<u[1], u[2]>>].rate

\* What a step of a run does to the answers: those in the cache stay there.
RatesStay == \A k \in DOMAIN quoted : k \in DOMAIN quoted' /\ quoted'[k] = quoted[k]

\* Asking for rates puts the answers into the cache.
LEMMA Asking ==
    ASSUME CacheAnswers, NEW ts, AskRates(ts)
    PROVE  /\ CacheAnswers' /\ RatesStay
           /\ \A t \in ts : txn[t].ccy = "INR" \/ <<txn[t].ccy, txn[t].day>> \in DOMAIN quoted'
           /\ \A k \in DOMAIN quoted' : quoted'[k] = quote(k[1], k[2])
<1> DEFINE keys == {<<txn[t].ccy, txn[t].day>> : t \in {u \in ts : txn[u].ccy # "INR"}}
           new == {<<k[1], k[2], quote(k[1], k[2]).rate>> : k \in keys}
<1>1. /\ quoted' = [k \in DOMAIN quoted \cup keys |-> quote(k[1], k[2])]
      /\ used' = used \cup new
  BY DEF AskRates
<1>2. \A k \in keys : k = <<k[1], k[2]>> /\ k[1] # "INR"
  OBVIOUS
<1>3. \A t \in ts : txn[t].ccy = "INR" \/ <<txn[t].ccy, txn[t].day>> \in keys
  OBVIOUS
<1> HIDE DEF keys
<1>4. DOMAIN quoted' = DOMAIN quoted \cup keys /\ \A k \in DOMAIN quoted' : quoted'[k] = quote(k[1], k[2])
  BY <1>1
<1>5. \A k \in DOMAIN quoted : k = <<k[1], k[2]>> /\ k[1] # "INR"
  BY DEF CacheAnswers
<1>6. \A k \in DOMAIN quoted : quote(k[1], k[2]) = quoted[k]
  BY <1>5 DEF quote
<1>7. RatesStay
  BY <1>4, <1>6 DEF RatesStay
<1>8. \A k \in DOMAIN quoted' : k = <<k[1], k[2]>> /\ k[1] # "INR"
  BY <1>2, <1>4, <1>5
<1>9. ASSUME NEW u \in used
      PROVE  u = <<u[1], u[2], u[3]>> /\ <<u[1], u[2]>> \in DOMAIN quoted' /\ u[3] = quoted'[<<u[1], u[2]>>].rate
  BY <1>7 DEF CacheAnswers, RatesStay
<1>10. ASSUME NEW u \in new
       PROVE  u = <<u[1], u[2], u[3]>> /\ <<u[1], u[2]>> \in DOMAIN quoted' /\ u[3] = quoted'[<<u[1], u[2]>>].rate
  <2>1. PICK k \in keys : u = <<k[1], k[2], quote(k[1], k[2]).rate>>
    OBVIOUS
  <2>2. <<u[1], u[2]>> = k /\ u[3] = quote(k[1], k[2]).rate
    BY <1>2, <2>1
  <2>3. QED
    BY <1>4, <2>1, <2>2
<1>11. CacheAnswers'
  BY <1>1, <1>8, <1>9, <1>10 DEF CacheAnswers
<1>12. QED
  BY <1>3, <1>4, <1>7, <1>11

\* No step makes the cache forget, but for the next run, which has its own.
LEMMA RatesStep ==
    ASSUME CacheAnswers, [MatchingNext]_matchingVars
    PROVE  CacheAnswers'
<1>1. CASE UNCHANGED <<quoted, used>>
  BY <1>1 DEF CacheAnswers
<1>2. CASE \E ts : AskRates(ts)
  BY <1>2, Asking
<1>3. CASE NewRun
  <2>1. quoted' = <<>> /\ used' = {}
    BY <1>3 DEF NewRun
  <2>2. DOMAIN quoted' = {}
    BY <2>1
  <2>3. QED
    BY <2>1, <2>2 DEF CacheAnswers
<1>4. CASE Split \/ Netted
  BY <1>1, <1>2, <1>4 DEF Split, Netted, GroupStage, Group
<1>5. CASE Cross
  BY <1>1, <1>2, <1>5 DEF Cross
<1>6. CASE classify_unmatched \/ classify_pending_review \/ classify_matched \/ classify_groups
  BY <1>2, <1>6 DEF classify_unmatched, classify_pending_review, classify_matched,
     classify_groups, Pass
<1>7. CASE upload_fx_rates \/ SetBasedExact \/ Exact \/ GroupFails \/ Fuzzy \/ RuleBased \/ NextStage
  BY <1>1, <1>7 DEF upload_fx_rates, SetBasedExact, Exact, GroupFails, Fuzzy, RuleBased, NextStage
<1>8. CASE UNCHANGED matchingVars
  BY <1>1, <1>8 DEF matchingVars
<1>9. QED
  BY <1>3, <1>4, <1>5, <1>6, <1>7, <1>8 DEF MatchingNext

\* All stages and passes of a run use one rate for a currency and day, however
\* many files of rates are loaded while it runs (FxService.quote).
THEOREM OneRate == MatchingSpec => []OneRatePerDay
<1>1. MatchingInit => CacheAnswers
  BY DEF MatchingInit, CacheAnswers
<1>2. CacheAnswers /\ [MatchingNext]_matchingVars => CacheAnswers'
  BY RatesStep
<1>3. CacheAnswers => OneRatePerDay
  BY DEF CacheAnswers, OneRatePerDay
<1>4. QED
  BY <1>1, <1>2, <1>3, PTL DEF MatchingSpec
-----------------------------------------------------------------------------
(* The inductive invariant of what a run decides.                          *)

Looking == {"set", "split"} \cup ByExternal
Unclassified == Looking \cup {"leftovers", "failed"}

DecisionTypes ==
    /\ txn \in Seq(Txn) /\ late \in Seq(Txn)
    /\ runs \in Nat
    /\ stage \in Unclassified \cup Classified
    /\ pool \subseteq DOMAIN txn /\ queue \subseteq DOMAIN txn

\* A match of one internal and one external.
OneEach(m) ==
    /\ m.status \in {"AUTO_MATCHED", "PENDING_REVIEW"}
    /\ \E i \in m.int, e \in m.ext : m.int = {i} /\ m.ext = {e}

MatchFormed(m) ==
    /\ m.run \in Nat /\ m.run <= runs
    /\ m.int \cup m.ext \subseteq DOMAIN txn
    /\ m.type \in PairTypes => OneEach(m)

\* An exception names what its key names, and holds are for compliance.
RaisedFormed(x) ==
    /\ x.run \in Nat /\ x.run <= runs
    /\ x.ids = x.key[3] /\ x.category = x.key[1]
    /\ x.category = "REGULATORY_HOLD" => x.tier = 4

\* Stages raise nothing, and a run that failed has left nothing.
NothingYet ==
    /\ stage \in Unclassified => \A x \in raised : x.run # runs
    /\ stage = "failed" => \A m \in matches : m.run # runs

\* The rate t is valued with is in the cache, if it needs one.
Pinned(t) == txn[t].ccy = "INR" \/ <<txn[t].ccy, txn[t].day>> \in DOMAIN quoted

Agreed(m) ==
    LET i == InternalOf(m)
        e == ExternalOf(m)
    IN  /\ txn[i].dir = txn[e].dir
        /\ m.inr => /\ WithinPercent(InrOf(i), InrOf(e), FxTolerance)
                    /\ Pinned(i) /\ Pinned(e)
        /\ ~m.inr => /\ txn[i].ccy = txn[e].ccy
                     /\ Distance(txn[i].amount, txn[e].amount) <= ToleranceOf(m)
        /\ m.type = "FUZZY" => Distance(txn[i].day, txn[e].day) <= 2

\* Pairs that were compared in rupees were compared at rates that stay.
PairsAgreed == \A m \in OfRun(PairTypes, "AUTO_MATCHED") : Agreed(m)

OnHold(t) == has_regulatory_hold(txn[t])
Named(t) == \E x \in raised : x.category = "REGULATORY_HOLD" /\ x.tier = 4 /\ t \in x.ids

\* The pass that would report a hold of m is over.
PassOver(m) ==
    \/ m.run < runs
    \/ m.status = "PENDING_REVIEW" /\ stage \in {"matched", "groups", "done"}
    \/ m.status = "AUTO_MATCHED" /\ stage \in {"groups", "done"}

HeldLeftNamed ==
    stage \in Classified =>
        \A t \in DOMAIN txn : OnHold(t) /\ Free(t) /\ t \notin Duplicates => Named(t)

HeldPairsNamed ==
    \A m \in matches :
        m.type \in PairTypes /\ PassOver(m) => \A t \in m.int \cup m.ext : OnHold(t) => Named(t)

Formed ==
    /\ DecisionTypes
    /\ CacheAnswers
    /\ \A m \in matches : MatchFormed(m)
    /\ \A x \in raised : RaisedFormed(x)
    /\ NothingYet

HoldsNamed == HeldLeftNamed /\ HeldPairsNamed

Decided == Formed /\ PairsAgreed /\ LeftoversExplained /\ HoldsNamed

-----------------------------------------------------------------------------
(* Steps of the stages.                                                    *)

\* The legs of a pair.
LEMMA Legs ==
    ASSUME NEW m, OneEach(m)
    PROVE  m.int = {InternalOf(m)} /\ m.ext = {ExternalOf(m)}
BY DEF OneEach, InternalOf, ExternalOf

\* A value at a rate in the cache stays, whatever files are loaded.
LEMMA PinnedStays ==
    ASSUME NEW t, Pinned(t), RatesStay, txn' = txn
    PROVE  Pinned(t)' /\ InrOf(t)' = InrOf(t)
<1>1. Pinned(t)'
  BY DEF Pinned, RatesStay
<1>2. QuoteOf(t)' = QuoteOf(t)
  BY DEF Pinned, RatesStay, QuoteOf, quote
<1>3. QED
  BY <1>1, <1>2 DEF InrOf

\* So does the agreement of a pair.
LEMMA AgreedStays ==
    ASSUME NEW m, Agreed(m), RatesStay, txn' = txn
    PROVE  Agreed(m)'
<1> DEFINE i == InternalOf(m)
           e == ExternalOf(m)
<1>1. i' = i /\ e' = e
  BY DEF InternalOf, ExternalOf
<1>2. m.inr => Pinned(i)' /\ Pinned(e)' /\ InrOf(i)' = InrOf(i) /\ InrOf(e)' = InrOf(e)
  BY PinnedStays DEF Agreed
<1>3. ToleranceOf(m)' = ToleranceOf(m)
  BY <1>1 DEF ToleranceOf
<1>4. QED
  BY <1>1, <1>2, <1>3 DEF Agreed

\* A step of a stage: it records the matches `new`, and raises nothing.
Records(new) ==
    /\ matches' = matches \cup new
    /\ UNCHANGED <<txn, late, runs, raised>>
    /\ stage \in Looking /\ stage' \in Looking \cup {"leftovers"}
    /\ pool' \subseteq DOMAIN txn /\ queue' \subseteq DOMAIN txn

\* What a stage has to see to before it records a match.
Sound(m) ==
    /\ m.run = runs
    /\ m.int \cup m.ext \subseteq DOMAIN txn
    /\ m.type \in PairTypes => OneEach(m)
    /\ m.type \in PairTypes /\ m.status = "AUTO_MATCHED" => Agreed(m)'

\* Recording sound matches keeps the state well formed.
LEMMA RecordsFormed ==
    ASSUME Formed, NEW new, Records(new), \A m \in new : Sound(m), CacheAnswers'
    PROVE  Formed'
<1>1. DecisionTypes'
  BY DEF Formed, DecisionTypes, Records, Unclassified
<1>2. \A m \in matches' : MatchFormed(m)'
  <2>1. \A m \in matches : MatchFormed(m)'
    BY DEF Formed, MatchFormed, Records, OneEach
  <2>2. \A m \in new : MatchFormed(m)'
    BY DEF Formed, DecisionTypes, MatchFormed, Records, Sound, OneEach
  <2>3. QED
    BY <2>1, <2>2 DEF Records
<1>3. \A x \in raised' : RaisedFormed(x)'
  BY DEF Formed, Records, RaisedFormed
<1>4. NothingYet'
  BY DEF Formed, Records, NothingYet, Unclassified, Looking, ByExternal
<1>5. QED
  BY <1>1, <1>2, <1>3, <1>4 DEF Formed

\* A stage that records sound matches keeps the invariant.
LEMMA RecordsDecided ==
    ASSUME Decided, NEW new, Records(new), \A m \in new : Sound(m), CacheAnswers', RatesStay
    PROVE  Decided'
<1>1. Formed'
  BY RecordsFormed DEF Decided
<1>2. PairsAgreed'
  <2>1. ASSUME NEW m \in OfRun(PairTypes, "AUTO_MATCHED")' PROVE Agreed(m)'
    <3>1. CASE m \in matches
      <4>1. m \in OfRun(PairTypes, "AUTO_MATCHED")
        BY <2>1, <3>1 DEF OfRun, Records
      <4>2. QED
        BY <4>1, AgreedStays DEF Decided, PairsAgreed, Records
    <3>2. CASE m \in new
      BY <2>1, <3>2 DEF OfRun, Sound
    <3>3. QED
      BY <2>1, <3>1, <3>2 DEF OfRun, Records
  <2>2. QED
    BY <2>1 DEF PairsAgreed
<1>3. stage' \notin Classified /\ stage \notin Classified
  BY DEF Records, Looking, ByExternal, Classified
<1>4. LeftoversExplained'
  BY <1>3 DEF LeftoversExplained
<1>5. HeldLeftNamed'
  BY <1>3 DEF HeldLeftNamed
<1>6. HeldPairsNamed'
  <2>1. ASSUME NEW m \in matches', m.type \in PairTypes, PassOver(m)',
               NEW t \in m.int \cup m.ext, OnHold(t)'
        PROVE  Named(t)'
    <3>1. m.run < runs
      BY <1>3, <2>1 DEF PassOver, Classified, Records
    <3>2. m \in matches
      <4>1. m.run # runs
        BY <3>1 DEF Decided, Formed, DecisionTypes
      <4>2. QED
        BY <2>1, <4>1 DEF Records, Sound
    <3>3. Named(t)
      BY <2>1, <3>1, <3>2 DEF Decided, HoldsNamed, HeldPairsNamed, PassOver, OnHold, Records
    <3>4. QED
      BY <3>3 DEF Named, Records
  <2>2. QED
    BY <2>1 DEF HeldPairsNamed
<1>7. QED
  BY <1>1, <1>2, <1>4, <1>5, <1>6 DEF Decided, HoldsNamed

\* The frame of a look at one transaction.
LEMMA LookRecords ==
    ASSUME Formed, NEW s \in Looking, Look(s), NEW new, Record(new)
    PROVE  Records(new) /\ First(queue) \in DOMAIN txn /\ txn \in Seq(Txn) /\ txn' = txn
<1>1. txn \in Seq(Txn) /\ queue \subseteq DOMAIN txn /\ pool \subseteq DOMAIN txn
  BY DEF Formed, DecisionTypes
<1>2. First(queue) \in DOMAIN txn
  BY <1>1, FirstIn DEF Look
<1>3. UNCHANGED <<txn, late, runs, raised, stage, pool>> /\ stage = s
  BY DEF Look, run_fixed
<1>4. pool' \subseteq DOMAIN txn /\ queue' \subseteq DOMAIN txn
  BY <1>1, <1>3 DEF Look
<1>5. QED
  BY <1>1, <1>2, <1>3, <1>4 DEF Records, Record

\* A pair in one currency.
LEMMA PairSound ==
    ASSUME NEW m, m.type \in PairTypes, m.status \in {"AUTO_MATCHED", "PENDING_REVIEW"},
           m.run = runs, ~m.inr, txn' = txn,
           NEW i \in DOMAIN txn, NEW e \in DOMAIN txn, m.int = {i}, m.ext = {e},
           m.status = "AUTO_MATCHED" =>
               /\ txn[i].dir = txn[e].dir /\ txn[i].ccy = txn[e].ccy
               /\ m.type # "RULE" => Distance(txn[i].amount, txn[e].amount) <= AmountTolerance
               /\ m.type = "RULE" =>
                      Distance(txn[i].amount, txn[e].amount) <= penny_tolerance(txn[e].ccy)
               /\ m.type = "FUZZY" => Distance(txn[i].day, txn[e].day) <= 2
    PROVE  Sound(m)
<1>1. InternalOf(m)' = i /\ ExternalOf(m)' = e
  BY DEF InternalOf, ExternalOf
<1>2. m.status = "AUTO_MATCHED" => Agreed(m)'
  BY <1>1 DEF Agreed, ToleranceOf
<1>3. OneEach(m) /\ m.int \cup m.ext \subseteq DOMAIN txn
  BY DEF OneEach
<1>4. QED
  BY <1>2, <1>3 DEF Sound

\* Transactions of one key agree to the paisa.
LEMMA ExactSound ==
    ASSUME txn \in Seq(Txn), txn' = txn, NEW i \in DOMAIN txn, NEW e \in DOMAIN txn,
           build_key(txn[i]) = build_key(txn[e]),
           NEW m, m.type = "EXACT", m.status = "AUTO_MATCHED", m.run = runs, ~m.inr,
           m.int = {i}, m.ext = {e}
    PROVE  Sound(m)
<1>1. txn[i].dir = txn[e].dir /\ txn[i].ccy = txn[e].ccy /\ txn[i].amount = txn[e].amount
  BY DEF build_key
<1>2. txn[i].amount \in Nat /\ AmountTolerance \in Nat
  BY Columns, ScoringAssumption
<1>3. Distance(txn[i].amount, txn[e].amount) <= AmountTolerance
  BY <1>1, <1>2 DEF Distance
<1>4. m.type \in PairTypes /\ m.type # "FUZZY" /\ m.type # "RULE"
  BY DEF PairTypes
<1>5. m.status = "AUTO_MATCHED" =>
         /\ txn[i].dir = txn[e].dir /\ txn[i].ccy = txn[e].ccy
         /\ m.type # "RULE" => Distance(txn[i].amount, txn[e].amount) <= AmountTolerance
         /\ m.type = "RULE" =>
                Distance(txn[i].amount, txn[e].amount) <= penny_tolerance(txn[e].ccy)
         /\ m.type = "FUZZY" => Distance(txn[i].day, txn[e].day) <= 2
  BY <1>1, <1>3, <1>4
<1>6. QED
  BY <1>4, <1>5, PairSound

\* Stages that ask for no rates.
LEMMA NoRates ==
    ASSUME CacheAnswers, UNCHANGED <<quoted, used>>
    PROVE  CacheAnswers' /\ RatesStay
BY DEF CacheAnswers, RatesStay

\* The one statement of the exact stage pairs transactions of one key.
LEMMA SetBasedExactStep ==
    ASSUME Decided, SetBasedExact
    PROVE  Decided'
<1> DEFINE avail == {t \in DOMAIN txn : Free(t) /\ HasKey(txn[t])}
           same(t) == {u \in avail : build_key(txn[u]) = build_key(txn[t])}
           pairs == {p \in avail \X avail :
                        /\ txn[p[1]].src = "INTERNAL" /\ txn[p[2]].src = "EXTERNAL"
                        /\ same(p[1]) = {p[1], p[2]} /\ Allowed(p[1], p[2])}
           new == {Result("EXACT", "AUTO_MATCHED", {p[1]}, {p[2]}, 1000, FALSE) : p \in pairs}
<1>1. /\ stage = "set" /\ stage' = "exact" /\ matches' = matches \cup new
      /\ pool' = find_unmatched("INTERNAL") \ {p[1] : p \in pairs}
      /\ queue' = find_unmatched("EXTERNAL") \ {p[2] : p \in pairs}
      /\ UNCHANGED <<txn, late, runs, raised, quoted, used>>
  BY DEF SetBasedExact, run_fixed
<1>2. txn \in Seq(Txn) /\ CacheAnswers
  BY DEF Decided, Formed, DecisionTypes
<1>3. ASSUME NEW m \in new PROVE Sound(m)
  <2>1. PICK p \in pairs : /\ m.type = "EXACT" /\ m.status = "AUTO_MATCHED" /\ m.run = runs
                           /\ ~m.inr /\ m.int = {p[1]} /\ m.ext = {p[2]}
    BY <1>3 DEF Result
  <2>2. PICK i, e : i = p[1] /\ e = p[2]
    OBVIOUS
  <2>3. i \in DOMAIN txn /\ e \in DOMAIN txn /\ e \in same(i)
    BY <2>2
  <2>4. build_key(txn[i]) = build_key(txn[e])
    BY <2>3
  <2>5. QED
    BY <1>1, <1>2, <2>1, <2>2, <2>3, <2>4, ExactSound
<1>4. Records(new)
  BY <1>1 DEF Records, Looking, ByExternal, find_unmatched
<1> HIDE DEF new
<1>5. QED
  BY <1>1, <1>2, <1>3, <1>4, NoRates, RecordsDecided

\* The exact stage takes a candidate of the same key, the closest in time.
LEMMA ExactStep ==
    ASSUME Decided, Exact
    PROVE  Decided'
<1> DEFINE e == First(queue)
           bucket == {i \in pool : /\ Free(i) /\ HasKey(txn[e]) /\ Allowed(i, e)
                                   /\ build_key(txn[i]) = build_key(txn[e])}
           i == _disambiguate(bucket, e)
           new == IF bucket = {} THEN {}
                  ELSE {Result("EXACT", "AUTO_MATCHED", {i}, {e}, 1000, FALSE)}
<1>1. Look("exact") /\ Record(new) /\ UNCHANGED <<quoted, used>>
  BY DEF Exact
<1>2. Formed /\ CacheAnswers /\ pool \subseteq DOMAIN txn
  BY DEF Decided, Formed, DecisionTypes
<1>3. Records(new) /\ e \in DOMAIN txn /\ txn \in Seq(Txn) /\ txn' = txn
  BY <1>1, <1>2, LookRecords DEF Looking, ByExternal
<1>4. ASSUME NEW m \in new PROVE Sound(m)
  <2>1. bucket # {} /\ m = Result("EXACT", "AUTO_MATCHED", {i}, {e}, 1000, FALSE)
    <3> HIDE DEF bucket, i, e
    <3>1. bucket # {}
      BY <1>4
    <3>2. new = {Result("EXACT", "AUTO_MATCHED", {i}, {e}, 1000, FALSE)}
      BY <3>1, ZenonT(60)
    <3> HIDE DEF new
    <3> QED BY <1>4, <3>1, <3>2
  <2>2. i \in bucket
    <3>1. bucket \subseteq DOMAIN txn
      BY <1>2
    <3> HIDE DEF bucket
    <3>2. QED
      BY <1>3, <2>1, <3>1, DisambiguateIn
  <2>3. i \in DOMAIN txn /\ build_key(txn[i]) = build_key(txn[e])
    BY <1>2, <2>2
  <2> HIDE DEF i, e
  <2>4. /\ m.type = "EXACT" /\ m.status = "AUTO_MATCHED" /\ m.run = runs /\ ~m.inr
        /\ m.int = {i} /\ m.ext = {e}
    BY <2>1 DEF Result
  <2>5. QED
    BY <1>3, <2>3, <2>4, ExactSound
<1> HIDE DEF new
<1>5. QED
  BY <1>1, <1>2, <1>3, <1>4, NoRates, RecordsDecided

\* The fuzzy stage matches without asking only above the threshold.
LEMMA FuzzyStep ==
    ASSUME Decided, Fuzzy
    PROVE  Decided'
<1> DEFINE e == First(queue)
           decision(i) == score_candidate(txn[i], txn[e]).decision
           good == {i \in Offered(e) : decision(i) # "NO_MATCH"}
           best == _best_candidate(good, e)
           status == IF decision(best) = "AUTO_MATCH" THEN "AUTO_MATCHED" ELSE "PENDING_REVIEW"
           new == IF good = {} THEN {}
                  ELSE {Result("FUZZY", status, {best}, {e},
                               score_candidate(txn[best], txn[e]).confidence, FALSE)}
<1>1. Look("fuzzy") /\ Record(new) /\ UNCHANGED <<quoted, used>>
  BY DEF Fuzzy
<1>2. Formed /\ CacheAnswers /\ pool \subseteq DOMAIN txn
  BY DEF Decided, Formed, DecisionTypes
<1>3. Records(new) /\ e \in DOMAIN txn /\ txn \in Seq(Txn) /\ txn' = txn
  BY <1>1, <1>2, LookRecords DEF Looking, ByExternal
<1>4. ASSUME NEW m \in new PROVE Sound(m)
  <2>1. /\ good # {}
        /\ m = Result("FUZZY", status, {best}, {e},
                      score_candidate(txn[best], txn[e]).confidence, FALSE)
    BY <1>4
  <2>2. good \subseteq DOMAIN txn
    BY <1>2 DEF Offered, generate
  <2>3. best \in DOMAIN txn
    BY <1>3, <2>1, <2>2, BestIn
  <2>4. txn[best] \in Txn /\ txn[e] \in Txn
    BY <1>3, <2>3, Columns
  <2>5. status = "AUTO_MATCHED" => decision(best) = "AUTO_MATCH"
    OBVIOUS
  <2>6. status \in {"AUTO_MATCHED", "PENDING_REVIEW"}
    OBVIOUS
  <2> HIDE DEF best, status, e
  <2>7. status = "AUTO_MATCHED" =>
           /\ txn[best].dir = txn[e].dir /\ txn[best].ccy = txn[e].ccy
           /\ Distance(txn[best].amount, txn[e].amount) <= AmountTolerance
           /\ Distance(txn[best].day, txn[e].day) <= 2
    BY <2>4, <2>5, AutoAgrees
  <2>8. /\ m.type \in PairTypes /\ m.type # "RULE" /\ m.status = status /\ m.run = runs /\ ~m.inr
        /\ m.int = {best} /\ m.ext = {e}
    BY <2>1 DEF Result, PairTypes
  <2>9. QED
    BY <1>3, <2>3, <2>6, <2>7, <2>8, PairSound
<1> HIDE DEF new
<1>5. QED
  BY <1>1, <1>2, <1>3, <1>4, NoRates, RecordsDecided

\* A set of one transaction.
LEMMA OneOf ==
    ASSUME txn \in Seq(Txn), NEW S, S \subseteq DOMAIN txn, Cardinality(S) = 1
    PROVE  \E i \in DOMAIN txn : S = {i}
<1>1. DOMAIN txn = 1 .. Len(txn) /\ Len(txn) \in Int
  OBVIOUS
<1>2. IsFiniteSet(DOMAIN txn)
  BY <1>1, FS_Interval
<1>3. IsFiniteSet(S)
  BY <1>2, FS_Subset
<1>4. \E x : S = {x}
  BY <1>3, FS_Singleton
<1>5. QED
  BY <1>4

\* A tolerance is a number: 0.01 is at least one minor unit or none.
LEMMA PennyTolerance ==
    ASSUME NEW ccy \in DOMAIN _CURRENCY_EXPONENTS
    PROVE  penny_tolerance(ccy) \in Nat
<1>1. _CURRENCY_EXPONENTS[ccy] \in {0, 2, 3}
  BY DEF _CURRENCY_EXPONENTS
<1>2. Pow10(3 - 2) = 10
  BY DEF Pow10
<1>3. QED
  BY <1>1, <1>2, ScoringAssumption DEF penny_tolerance

\* Either rule asks for the same reference, direction and currency, and for an
\* amount within the tolerance.
LEMMA RuleAgrees ==
    ASSUME NEW i \in Txn, NEW e \in Txn, RuleHit(i, e)
    PROVE  /\ i.dir = e.dir /\ i.ccy = e.ccy
           /\ Distance(i.amount, e.amount) <= penny_tolerance(e.ccy)
<1>1. i.amount \in Nat /\ e.amount \in Nat /\ e.ccy \in DOMAIN _CURRENCY_EXPONENTS
  BY DEF Txn
<1>2. i.dir = e.dir /\ i.ccy = e.ccy
  BY DEF RuleHit, AmountToleranceRule, DateOffsetRule, SameReference
<1>3. CASE Distance(i.amount, e.amount) <= penny_tolerance(i.ccy)
  BY <1>2, <1>3
<1>4. CASE i.amount = e.amount
  <2>1. Distance(i.amount, e.amount) = 0
    BY <1>1, <1>4 DEF Distance
  <2>2. penny_tolerance(e.ccy) \in Nat
    BY <1>1, PennyTolerance
  <2>3. QED
    BY <1>2, <2>1, <2>2
<1>5. QED
  BY <1>3, <1>4 DEF RuleHit, AmountToleranceRule, DateOffsetRule

\* The rules match the one hit among the candidates.
LEMMA RuleBasedStep ==
    ASSUME Decided, RuleBased
    PROVE  Decided'
<1> DEFINE e == First(queue)
           hits == {i \in Offered(e) : RuleHit(txn[i], txn[e])}
           certain == Cardinality(hits) = 1 /\ ~generate(txn, pool, e).truncated
           new == IF ~certain THEN {}
                  ELSE {Result("RULE", "AUTO_MATCHED", hits, {e}, RULE_CONFIDENCE, FALSE)}
<1>1. Look("rule") /\ Record(new) /\ UNCHANGED <<quoted, used>>
  BY DEF RuleBased
<1>2. Formed /\ CacheAnswers /\ pool \subseteq DOMAIN txn
  BY DEF Decided, Formed, DecisionTypes
<1>3. Records(new) /\ e \in DOMAIN txn /\ txn \in Seq(Txn) /\ txn' = txn
  BY <1>1, <1>2, LookRecords DEF Looking, ByExternal
<1>4. ASSUME NEW m \in new PROVE Sound(m)
  <2>1. Cardinality(hits) = 1
    BY <1>4
  <2>2. /\ m.type = "RULE" /\ m.status = "AUTO_MATCHED" /\ m.run = runs /\ ~m.inr
        /\ m.int = hits /\ m.ext = {e}
    BY <1>4 DEF Result
  <2>3. hits \subseteq DOMAIN txn
    BY <1>2 DEF Offered, generate
  <2>4. PICK i \in DOMAIN txn : hits = {i}
    BY <1>3, <2>1, <2>3, OneOf
  <2>5. RuleHit(txn[i], txn[e])
    BY <2>4
  <2> HIDE DEF hits, e
  <2>6. txn[i] \in Txn /\ txn[e] \in Txn
    BY <1>3, Columns
  <2>7. /\ txn[i].dir = txn[e].dir /\ txn[i].ccy = txn[e].ccy
        /\ Distance(txn[i].amount, txn[e].amount) <= penny_tolerance(txn[e].ccy)
    BY <2>5, <2>6, RuleAgrees
  <2>8. m.type \in PairTypes /\ m.type # "FUZZY" /\ m.int = {i}
    BY <2>2, <2>4 DEF PairTypes
  <2>9. QED
    BY <1>3, <2>2, <2>7, <2>8, PairSound
<1> HIDE DEF new
<1>5. QED
  BY <1>1, <1>2, <1>3, <1>4, NoRates, RecordsDecided

\* A value just asked for is the value it was compared at.
LEMMA AskedStays ==
    ASSUME CacheAnswers, NEW ts, AskRates(ts), txn' = txn, NEW t \in ts
    PROVE  Pinned(t)' /\ InrOf(t)' = InrOf(t)
<1>1. /\ txn[t].ccy = "INR" \/ <<txn[t].ccy, txn[t].day>> \in DOMAIN quoted'
      /\ \A k \in DOMAIN quoted' : quoted'[k] = quote(k[1], k[2])
  BY Asking
<1>2. Pinned(t)'
  BY <1>1 DEF Pinned
<1>3. CASE txn[t].ccy = "INR"
  <2>1. QuoteOf(t)' = QuoteOf(t)
    BY <1>3 DEF QuoteOf, quote
  <2>2. QED
    BY <1>2, <2>1 DEF InrOf
<1>4. CASE txn[t].ccy # "INR"
  <2> DEFINE k == <<txn[t].ccy, txn[t].day>>
  <2>1. k \in DOMAIN quoted' /\ quoted'[k] = quote(txn[t].ccy, txn[t].day)
    BY <1>1, <1>4
  <2>2. QuoteOf(t)' = quoted'[k]
    BY <1>4, <2>1 DEF QuoteOf, quote
  <2>3. QuoteOf(t)' = QuoteOf(t)
    BY <2>1, <2>2 DEF QuoteOf
  <2>4. QED
    BY <1>2, <2>3 DEF InrOf
<1>5. QED
  BY <1>3, <1>4

\* The cross-currency stage compares at rates that are then in the cache.
LEMMA CrossStep ==
    ASSUME Decided, Cross
    PROVE  Decided'
<1> DEFINE e == First(queue)
           peers == {i \in pool :
                        /\ Free(i) /\ Allowed(i, e)
                        /\ HasKey(txn[e]) /\ txn[i].ref = txn[e].ref
                        /\ txn[i].ccy # txn[e].ccy /\ txn[i].dir = txn[e].dir
                        /\ Distance(txn[i].day, txn[e].day) <= CROSS_MAX_DAYS}
           i == CHOOSE p \in peers : TRUE
           agrees == /\ NA \notin {InrOf(i), InrOf(e)}
                     /\ WithinPercent(InrOf(i), InrOf(e), FxTolerance)
           new == IF agrees
                  THEN {Result("CROSS_CURRENCY", "AUTO_MATCHED", {i}, {e}, 900, TRUE)} ELSE {}
<1>1. /\ Look("cross")
      /\ IF Cardinality(peers) # 1 THEN UNCHANGED <<matches, quoted, used>>
         ELSE AskRates(Asked(i, {e})) /\ Record(new)
  BY DEF Cross
<1>2. Formed /\ CacheAnswers /\ pool \subseteq DOMAIN txn
  BY DEF Decided, Formed, DecisionTypes
<1>3. CASE Cardinality(peers) # 1
  <2>1. Record({})
    BY <1>1, <1>3 DEF Record
  <2>2. Records({})
    BY <1>1, <1>2, <2>1, LookRecords DEF Looking, ByExternal
  <2>3. QED
    BY <1>1, <1>2, <1>3, <2>2, NoRates, RecordsDecided
<1>4. CASE Cardinality(peers) = 1
  <2>1. AskRates(Asked(i, {e})) /\ Record(new)
    BY <1>1, <1>4
  <2>2. Records(new) /\ e \in DOMAIN txn /\ txn \in Seq(Txn) /\ txn' = txn
    BY <1>1, <1>2, <2>1, LookRecords DEF Looking, ByExternal
  <2>3. peers \subseteq DOMAIN txn
    BY <1>2
  <2>4. PICK j \in DOMAIN txn : peers = {j}
    BY <1>4, <2>2, <2>3, OneOf
  <2>5. PICK f \in DOMAIN txn : f = e
    BY <2>2
  <2>6. ASSUME NEW m \in new PROVE Sound(m)
    <3>1. i = j /\ txn[j].dir = txn[f].dir
      BY <2>4, <2>5
    <3>2. agrees
      BY <2>6
    <3> HIDE DEF peers, i, e
    <3>3. /\ m.type = "CROSS_CURRENCY" /\ m.status = "AUTO_MATCHED" /\ m.run = runs /\ m.inr
          /\ m.int = {j} /\ m.ext = {f}
      BY <2>5, <2>6, <3>1 DEF Result
    <3>4. NA # InrOf(j) /\ WithinPercent(InrOf(j), InrOf(f), FxTolerance)
      BY <2>5, <3>1, <3>2
    <3>5. AskRates(Asked(j, {f}))
      BY <2>1, <2>5, <3>1
    <3>6. QuoteOf(j) # NoQuote
      BY <3>4 DEF InrOf
    <3>7. ~Before(txn, f, f)
      BY <2>2, Columns DEF Before
    <3>8. j \in Asked(j, {f}) /\ f \in Asked(j, {f})
      BY <3>6, <3>7 DEF Asked
    <3>9. /\ Pinned(j)' /\ InrOf(j)' = InrOf(j)
          /\ Pinned(f)' /\ InrOf(f)' = InrOf(f)
      BY <1>2, <2>2, <3>5, <3>8, AskedStays
    <3>10. InternalOf(m)' = j /\ ExternalOf(m)' = f
      BY <3>3 DEF InternalOf, ExternalOf
    <3>11. WithinPercent(InrOf(j)', InrOf(f)', FxTolerance)
      BY <3>4, <3>9
    <3>12. Agreed(m)'
      BY <2>2, <3>1, <3>3, <3>9, <3>10, <3>11 DEF Agreed
    <3>13. OneEach(m) /\ m.int \cup m.ext \subseteq DOMAIN txn
      BY <3>3 DEF OneEach
    <3>14. QED
      BY <3>3, <3>12, <3>13 DEF Sound
  <2> HIDE DEF new
  <2>7. QED
    BY <1>2, <2>1, <2>2, <2>6, Asking, RecordsDecided
<1>5. QED
  BY <1>3, <1>4

\* The members of a group are candidates.
LEMMA MembersOfPool ==
    ASSUME NEW s
    PROVE  _solve(s).members \subseteq pool
<1>1. ASSUME NEW linked, NEW c PROVE _fit(s, _candidates(s, linked), c).members \subseteq pool
  <2> DEFINE cands == _candidates(s, linked)
  <2>1. cands \subseteq pool
    BY DEF _candidates
  <2> HIDE DEF cands
  <2>2. \A legs : Choose(cands, legs) \subseteq cands
    BY DEF Choose
  <2>3. \/ _fit(s, cands, c).members = {}
        \/ _fit(s, cands, c).members = Choose(cands, _legs(s, cands))
    BY DEF _fit
  <2>4. QED
    BY <2>1, <2>2, <2>3, Zenon DEF cands
<1> DEFINE a == _fit(s, _candidates(s, SharedStem(s)), CONFIDENCE_STEM)
           b == _fit(s, _candidates(s, SharedParty(s)), CONFIDENCE_COUNTERPARTY)
<1>2. a.members \subseteq pool /\ b.members \subseteq pool
  BY <1>1, Zenon
<1>3. [b EXCEPT !.asked = b.asked \cup a.asked].members = b.members
  BY DEF _fit
<1>4. _solve(s) = IF a.members # {} THEN a ELSE [b EXCEPT !.asked = b.asked \cup a.asked]
  BY DEF _solve, Prefer
<1> HIDE DEF a, b
<1>5. QED
  BY <1>2, <1>3, <1>4, Zenon

\* The group stages take members of their pool, and no pairs.
LEMMA GroupStep ==
    ASSUME Decided, Split \/ Netted
    PROVE  Decided'
<1>1. PICK s \in {"split", "netted"}, kind \in {"SPLIT", "NETTED"} :
         Look(s) /\ GroupStage(kind, First(queue))
  BY DEF Split, Netted
<1>2. Formed /\ CacheAnswers /\ pool \subseteq DOMAIN txn
  BY DEF Decided, Formed, DecisionTypes
<1>3. s \in Looking
  BY DEF Looking, ByExternal
<1>4. CASE UNCHANGED <<matches, quoted, used>>
  <2>1. Record({})
    BY <1>4 DEF Record
  <2>2. Records({})
    BY <1>1, <1>2, <1>3, <2>1, LookRecords
  <2>3. QED
    BY <1>2, <1>4, <2>2, NoRates, RecordsDecided
<1>5. CASE Group(First(queue), kind, _solve(First(queue)))
  <2> DEFINE e == First(queue)
             found == _solve(e)
             new == IF found.members = {} THEN {}
                    ELSE {Result(kind, "AUTO_MATCHED",
                                 IF kind = "SPLIT" THEN {e} ELSE found.members,
                                 IF kind = "SPLIT" THEN found.members ELSE {e},
                                 found.confidence, found.inr)}
  <2>1. AskRates(found.asked) /\ Record(new)
    BY <1>5 DEF Group
  <2>2. Records(new) /\ e \in DOMAIN txn
    BY <1>1, <1>2, <1>3, <2>1, LookRecords
  <2>3. found.members \subseteq DOMAIN txn
    BY <1>2, MembersOfPool
  <2> HIDE DEF e, found
  <2>4. ASSUME NEW m \in new PROVE Sound(m)
    <3>1. m.type = kind /\ m.run = runs /\ m.int \cup m.ext = {e} \cup found.members
      BY <2>4 DEF Result
    <3>2. m.type \notin PairTypes
      BY <3>1 DEF PairTypes
    <3>3. QED
      BY <2>2, <2>3, <3>1, <3>2 DEF Sound
  <2> HIDE DEF new
  <2>5. QED
    BY <1>2, <2>1, <2>2, <2>4, Asking, RecordsDecided
<1>6. QED
  BY <1>1, <1>4, <1>5 DEF GroupStage

\* The next stage begins with what is unmatched.
LEMMA NextStageStep ==
    ASSUME Decided, NextStage
    PROVE  Decided'
<1>1. /\ stage \in ByExternal \cup {"split"} /\ stage' = StageAfter[stage]
      /\ UNCHANGED <<txn, late, runs, raised, quoted, used, matches>>
  BY DEF NextStage, GoOn, run_fixed
<1>2. find_unmatched("INTERNAL") \subseteq DOMAIN txn /\ find_unmatched("EXTERNAL") \subseteq DOMAIN txn
  BY DEF find_unmatched
<1>3. pool' \subseteq DOMAIN txn /\ queue' \subseteq DOMAIN txn
  BY <1>2 DEF NextStage, GoOn
<1>4. stage \in Looking /\ stage' \in Looking \cup {"leftovers"}
  BY <1>1 DEF StageAfter, Looking, ByExternal
<1>5. Records({})
  BY <1>1, <1>3, <1>4 DEF Records
<1>6. QED
  BY <1>1, <1>5, NoRates, RecordsDecided DEF Decided, Formed

\* A file of rates, or nothing, moves none of the decisions.
LEMMA RatesLoaded ==
    ASSUME Decided,
           UNCHANGED <<txn, late, runs, stage, pool, queue, matches, raised, quoted, used>>
    PROVE  Decided'
<1>1. Formed'
  BY DEF Decided, Formed, DecisionTypes, CacheAnswers, MatchFormed, OneEach, RaisedFormed, NothingYet
<1>2. PairsAgreed'
  <2>1. ASSUME NEW m \in OfRun(PairTypes, "AUTO_MATCHED")' PROVE Agreed(m)'
    <3>1. m \in OfRun(PairTypes, "AUTO_MATCHED")
      BY <2>1 DEF OfRun
    <3>2. RatesStay
      BY DEF RatesStay
    <3>3. QED
      BY <3>1, <3>2, AgreedStays DEF Decided, PairsAgreed
  <2>2. QED
    BY <2>1 DEF PairsAgreed
<1>3. \A t : Free(t)' <=> Free(t)
  BY DEF Free, Claimed
<1>4. LeftoversExplained'
  BY <1>3 DEF Decided, LeftoversExplained
<1>5. Duplicates' = Duplicates
  BY DEF Duplicates
<1>6. \A t : (Named(t)' <=> Named(t)) /\ (OnHold(t)' <=> OnHold(t))
  BY DEF Named, OnHold
<1>7. HeldLeftNamed'
  BY <1>3, <1>5, <1>6 DEF Decided, HoldsNamed, HeldLeftNamed
<1>8. HeldPairsNamed'
  BY <1>6 DEF Decided, HoldsNamed, HeldPairsNamed, PassOver
<1>9. QED
  BY <1>1, <1>2, <1>4, <1>7, <1>8 DEF Decided, HoldsNamed

\* A run that fails takes its matches with it; it has raised nothing yet.
LEMMA GroupFailsStep ==
    ASSUME Decided, GroupFails
    PROVE  Decided'
<1>1. /\ stage \in {"split", "netted"} /\ stage' = "failed"
      /\ matches' = {m \in matches : m.run # runs}
      /\ raised' = {x \in raised : x.run # runs}
      /\ queue' = {} /\ pool' = {}
      /\ UNCHANGED <<txn, late, runs, quoted, used>>
  BY DEF GroupFails, run_fixed
<1>2. stage \in Unclassified /\ stage' \in Unclassified /\ stage' \notin Classified
  BY <1>1 DEF Unclassified, Looking, ByExternal, Classified
<1>3. raised' = raised
  BY <1>1, <1>2 DEF Decided, Formed, NothingYet
<1>4. DecisionTypes'
  BY <1>1, <1>2 DEF Decided, Formed, DecisionTypes
<1>5. CacheAnswers'
  BY <1>1 DEF Decided, Formed, CacheAnswers
<1>6. \A m \in matches' : MatchFormed(m)'
  BY <1>1 DEF Decided, Formed, MatchFormed, OneEach
<1>7. \A x \in raised' : RaisedFormed(x)'
  BY <1>1 DEF Decided, Formed, RaisedFormed
<1>8. NothingYet'
  BY <1>1 DEF NothingYet
<1>9. OfRun(PairTypes, "AUTO_MATCHED")' = {}
  BY <1>1 DEF OfRun
<1>10. PairsAgreed'
  BY <1>9 DEF PairsAgreed
<1>11. LeftoversExplained' /\ HeldLeftNamed'
  BY <1>2 DEF LeftoversExplained, HeldLeftNamed
<1>12. \A t : (Named(t)' <=> Named(t)) /\ (OnHold(t)' <=> OnHold(t))
  BY <1>1, <1>3 DEF Named, OnHold
<1>13. \A m \in matches' : m \in matches /\ (PassOver(m)' => PassOver(m))
  BY <1>1 DEF PassOver
<1>14. HeldPairsNamed'
  BY <1>12, <1>13 DEF Decided, HoldsNamed, HeldPairsNamed
<1>15. QED
  BY <1>4, <1>5, <1>6, <1>7, <1>8, <1>10, <1>11, <1>14 DEF Decided, Formed, HoldsNamed

\* The next run finds what the last one settled, and more transactions.
LEMMA NewRunStep ==
    ASSUME Decided, NewRun
    PROVE  Decided'
<1>1. /\ stage \in {"done", "failed"} /\ stage' = "set" /\ runs' = runs + 1
      /\ txn' = txn \o late /\ late' = <<>> /\ quoted' = <<>> /\ used' = {}
      /\ UNCHANGED <<pool, queue, matches, raised>>
  BY DEF NewRun
<1>2. /\ txn \in Seq(Txn) /\ late \in Seq(Txn) /\ runs \in Nat
      /\ pool \subseteq DOMAIN txn /\ queue \subseteq DOMAIN txn
  BY DEF Decided, Formed, DecisionTypes
<1>3. /\ txn' \in Seq(Txn) /\ late' \in Seq(Txn) /\ DOMAIN txn \subseteq DOMAIN txn'
      /\ \A t \in DOMAIN txn : txn'[t] = txn[t]
  BY <1>1, <1>2
<1>4. stage' \in Unclassified /\ stage' \notin Classified
  BY <1>1 DEF Unclassified, Looking, Classified
<1>5. DecisionTypes'
  BY <1>1, <1>2, <1>3, <1>4 DEF DecisionTypes
<1>6. CacheAnswers'
  <2>1. DOMAIN quoted' = {}
    BY <1>1
  <2>2. QED
    BY <1>1, <2>1 DEF CacheAnswers
<1>7. ASSUME NEW m \in matches' PROVE MatchFormed(m)' /\ m.run < runs'
  <2>1. MatchFormed(m)
    BY <1>1 DEF Decided, Formed
  <2>2. m.run \in Nat /\ m.run <= runs' /\ m.run < runs'
    BY <1>1, <1>2, <2>1 DEF MatchFormed
  <2>3. m.int \cup m.ext \subseteq DOMAIN txn'
    BY <1>3, <2>1 DEF MatchFormed
  <2>4. QED
    BY <2>1, <2>2, <2>3 DEF MatchFormed, OneEach
<1>8. \A x \in raised' : RaisedFormed(x)' /\ x.run < runs'
  BY <1>1, <1>2 DEF Decided, Formed, RaisedFormed
<1>9. NothingYet'
  <2>1. \A x \in raised' : x.run # runs'
    <3>1. ASSUME NEW x \in raised' PROVE x.run # runs'
      BY <1>1, <1>2, <1>8 DEF Decided, Formed, RaisedFormed
    <3>2. QED
      BY <3>1
  <2>2. QED
    BY <1>1, <2>1 DEF NothingYet
<1>10. PairsAgreed'
  <2>1. \A m \in matches' : m.run # runs'
    BY <1>1, <1>2, <1>7 DEF Decided, Formed, MatchFormed
  <2>2. OfRun(PairTypes, "AUTO_MATCHED")' = {}
    BY <2>1 DEF OfRun
  <2>3. QED
    BY <2>2 DEF PairsAgreed
<1>11. LeftoversExplained' /\ HeldLeftNamed'
  BY <1>4 DEF LeftoversExplained, HeldLeftNamed
<1>12. ASSUME NEW m \in matches', m.type \in PairTypes, NEW t \in m.int \cup m.ext, OnHold(t)'
       PROVE  Named(t)'
  <2>1. m \in matches /\ m.run \in Nat /\ m.run <= runs /\ t \in DOMAIN txn /\ OneEach(m)
    BY <1>1, <1>12 DEF Decided, Formed, MatchFormed
  <2>2. m.run = runs => stage = "done"
    BY <1>1, <2>1 DEF Decided, Formed, NothingYet
  <2>3. PassOver(m)
    BY <1>2, <2>1, <2>2 DEF PassOver, OneEach
  <2>4. OnHold(t)
    BY <1>3, <1>12, <2>1 DEF OnHold
  <2>5. Named(t)
    BY <1>12, <2>1, <2>3, <2>4 DEF Decided, HoldsNamed, HeldPairsNamed
  <2>6. QED
    BY <1>1, <2>5 DEF Named
<1>13. HeldPairsNamed'
  BY <1>12 DEF HeldPairsNamed
<1>14. QED
  BY <1>5, <1>6, <1>7, <1>8, <1>9, <1>10, <1>11, <1>13 DEF Decided, Formed, HoldsNamed

-----------------------------------------------------------------------------
(* The classifier's passes.                                                *)

\* A candidate's key has what it names and its category.
WellKeyed(c) == c.ids = c.key[3] /\ c.finding.category = c.key[1]

\* A hold is for compliance, whatever it is worth.
LEMMA HoldTier ==
    ASSUME NEW f, f.category = "REGULATORY_HOLD", NEW value, NEW total, NEW batch
    PROVE  _tier(f, value, total, batch) = 4
<1>1. DefaultTier(f.category) = 4
  BY DEF DefaultTier, ComplianceCategories
<1>2. QED
  BY <1>1 DEF _tier

\* What a pass leaves behind: an exception for every candidate's key, of this
\* run or an earlier one, and nothing new that no candidate asked for.
LEMMA PassRaises ==
    ASSUME Formed, NEW s \in {"leftovers", "review", "matched", "groups"}, NEW cands,
           Pass(s, cands), \A c \in cands : WellKeyed(c)
    PROVE  /\ raised \subseteq raised'
           /\ \A c \in cands : \E x \in raised' : x.key = c.key
           /\ \E row : \A x \in raised' \ raised : \E c \in cands : x = row[c] /\ x.ids = c.ids
           /\ \A x \in raised' : RaisedFormed(x)'
<1> DEFINE existing == {x.key : x \in raised}
           new == {c \in cands : c.key \notin existing}
           tier(c) == _tier(c.finding, InrOf(c.of), _cumulative_daily_inr(new, txn[c.of].day),
                            Cardinality(cands))
           row == [c \in new |->
                     [key |-> c.key, category |-> c.finding.category, ids |-> c.ids, run |-> runs,
                      tier |-> tier(c)]]
<1>1. raised' = raised \cup {row[c] : c \in new}
  BY DEF Pass, _persist
<1>2. \A c \in new : c.finding.category = "REGULATORY_HOLD" => tier(c) = 4
  BY HoldTier
<1> HIDE DEF tier
<1>3. \A c \in new : /\ row[c].key = c.key /\ row[c].category = c.finding.category
                     /\ row[c].ids = c.ids /\ row[c].run = runs /\ row[c].tier = tier(c)
  OBVIOUS
<1> HIDE DEF row
<1>4. \A c \in cands : \E x \in raised' : x.key = c.key
  <2>1. ASSUME NEW c \in cands PROVE \E x \in raised' : x.key = c.key
    <3>1. CASE c \in new
      BY <1>1, <1>3, <3>1
    <3>2. CASE c \notin new
      BY <1>1, <3>2
    <3>3. QED
      BY <3>1, <3>2
  <2>2. QED
    BY <2>1
<1>5. \A x \in raised' \ raised : \E c \in cands : x = row[c] /\ x.ids = c.ids
  BY <1>1, <1>3
<1>6. runs' = runs /\ runs \in Nat
  BY DEF Pass, run_fixed, Formed, DecisionTypes
<1>7. ASSUME NEW x \in raised' PROVE RaisedFormed(x)'
  <2>1. CASE x \in raised
    BY <1>6, <2>1 DEF Formed, RaisedFormed
  <2>2. CASE x \notin raised
    <3>1. PICK c \in new : x = row[c]
      BY <1>1, <1>7, <2>2
    <3>2. /\ x.key = c.key /\ x.category = c.finding.category /\ x.ids = c.ids /\ x.run = runs
          /\ x.category = "REGULATORY_HOLD" => x.tier = 4
      BY <1>2, <1>3, <3>1
    <3>3. WellKeyed(c)
      OBVIOUS
    <3>4. QED
      BY <1>6, <3>2, <3>3 DEF RaisedFormed, WellKeyed
  <2>3. QED
    BY <2>1, <2>2
<1>8. raised \subseteq raised'
  BY <1>1
<1>9. \E f : \A x \in raised' \ raised : \E c \in cands : x = f[c] /\ x.ids = c.ids
  BY <1>5
<1> HIDE DEF new
<1>10. QED
  BY <1>4, <1>7, <1>8, <1>9

\* What no pass disturbs.
LEMMA PassKeeps ==
    ASSUME Decided, NEW s \in {"leftovers", "review", "matched", "groups"}, NEW cands,
           Pass(s, cands), \A c \in cands : WellKeyed(c)
    PROVE  /\ Formed' /\ PairsAgreed'
           /\ stage = s /\ stage' = StageAfter[s]
           /\ UNCHANGED <<txn, runs, matches>>
           /\ \A t : Free(t)' <=> Free(t)
           /\ \A t : OnHold(t)' <=> OnHold(t)
           /\ \A t : Named(t) => Named(t)'
           /\ \A c \in cands : c.finding.category = "REGULATORY_HOLD" =>
                 \A t \in c.ids : Named(t)'
<1>1. /\ stage = s /\ stage' = StageAfter[s]
      /\ UNCHANGED <<txn, late, runs, matches, pool, queue>>
  BY DEF Pass, run_fixed
<1>2. Formed /\ CacheAnswers
  BY DEF Decided, Formed
<1>3. /\ raised \subseteq raised'
      /\ \A c \in cands : \E x \in raised' : x.key = c.key
      /\ \A x \in raised' : RaisedFormed(x)'
  BY <1>2, PassRaises
<1>4. CacheAnswers' /\ RatesStay
  BY <1>2, Asking DEF Pass
<1>5. stage' \in Classified /\ stage' \notin Unclassified
  BY <1>1 DEF StageAfter, Classified, Unclassified, Looking, ByExternal
<1>6. NothingYet'
  BY <1>5 DEF NothingYet, Unclassified
<1>7. DecisionTypes'
  BY <1>1, <1>2, <1>5 DEF Formed, DecisionTypes
<1>8. \A m \in matches' : MatchFormed(m)'
  BY <1>1, <1>2 DEF Formed, MatchFormed, OneEach
<1>9. Formed'
  BY <1>3, <1>4, <1>6, <1>7, <1>8 DEF Formed
<1>10. ASSUME NEW m \in OfRun(PairTypes, "AUTO_MATCHED")' PROVE Agreed(m)'
  <2>1. m \in OfRun(PairTypes, "AUTO_MATCHED")
    BY <1>1, <1>10 DEF OfRun
  <2>2. QED
    BY <1>1, <1>4, <2>1, AgreedStays DEF Decided, PairsAgreed
<1>11. PairsAgreed'
  BY <1>10 DEF PairsAgreed
<1>12. /\ \A t : Free(t)' <=> Free(t)
       /\ \A t : OnHold(t)' <=> OnHold(t)
       /\ \A t : Named(t) => Named(t)'
  BY <1>1, <1>3 DEF Free, Claimed, OnHold, Named
<1>13. ASSUME NEW c \in cands, c.finding.category = "REGULATORY_HOLD", NEW t \in c.ids
       PROVE  Named(t)'
  <2>1. PICK x \in raised' : x.key = c.key
    BY <1>3
  <2>2. RaisedFormed(x)' /\ WellKeyed(c)
    BY <1>3
  <2>3. x.category = "REGULATORY_HOLD" /\ x.tier = 4 /\ t \in x.ids
    BY <1>13, <2>1, <2>2 DEF RaisedFormed, WellKeyed
  <2>4. QED
    BY <2>3 DEF Named
<1>14. QED
  BY <1>1, <1>9, <1>11, <1>12, <1>13

\* A pass over the matches of the run: it names no transaction that is left.
LEMMA LaterPass ==
    ASSUME Decided, NEW s \in {"review", "matched", "groups"}, NEW cands, Pass(s, cands),
           \A c \in cands : WellKeyed(c) /\ c.ids \subseteq Claimed,
           \A m \in matches : m.type \in PairTypes /\ PassOver(m)' /\ ~PassOver(m) =>
               \A t \in m.int \cup m.ext : OnHold(t) => Named(t)'
    PROVE  Decided'
<1>1. /\ Formed' /\ PairsAgreed'
      /\ stage = s /\ stage' = StageAfter[s]
      /\ UNCHANGED <<txn, runs, matches>>
      /\ \A t : Free(t)' <=> Free(t)
      /\ \A t : OnHold(t)' <=> OnHold(t)
      /\ \A t : Named(t) => Named(t)'
  BY PassKeeps
<1>2. stage \in Classified
  BY <1>1 DEF Classified
<1>3. /\ raised \subseteq raised'
      /\ \E row : \A x \in raised' \ raised : \E c \in cands : x = row[c] /\ x.ids = c.ids
  BY PassRaises DEF Decided
<1>4. \A x \in raised' \ raised : x.ids \subseteq Claimed
  BY <1>3
<1>5. ASSUME NEW t \in DOMAIN txn, Free(t)
      PROVE  /\ \E x \in raised' : t \in x.ids
             /\ Cardinality({x \in raised' : x.run = runs' /\ t \in x.ids}) <= 1
  <2>1. {x \in raised' : x.run = runs' /\ t \in x.ids} = {x \in raised : x.run = runs /\ t \in x.ids}
    BY <1>1, <1>3, <1>4, <1>5 DEF Free
  <2>2. /\ \E x \in raised : t \in x.ids
        /\ Cardinality({x \in raised : x.run = runs /\ t \in x.ids}) <= 1
    BY <1>2, <1>5 DEF Decided, LeftoversExplained
  <2>3. QED
    BY <1>3, <2>1, <2>2
<1>6. LeftoversExplained'
  BY <1>1, <1>5 DEF LeftoversExplained
<1>7. Duplicates' = Duplicates
  BY <1>1 DEF Duplicates
<1>8. HeldLeftNamed'
  BY <1>1, <1>2, <1>7 DEF Decided, HoldsNamed, HeldLeftNamed
<1>9. HeldPairsNamed'
  BY <1>1 DEF Decided, HoldsNamed, HeldPairsNamed
<1>10. QED
  BY <1>1, <1>6, <1>8, <1>9 DEF Decided, HoldsNamed

\* A hold is what is found first, and all that is found in an unmatched pair.
LEMMA HoldFound ==
    ASSUME NEW i, NEW e, OnHold(i) \/ OnHold(e), NEW confidence
    PROVE  AnalysePair(i, e, FALSE, confidence) = <<Finding("REGULATORY_HOLD")>>
<1>1. _hold(txn[i], txn[e]) = <<Finding("REGULATORY_HOLD")>>
  BY DEF _hold, OnHold
<1> DEFINE h == Finding("REGULATORY_HOLD")
<1> HIDE DEF h
<1>2. <<h>> # <<>>
  OBVIOUS
<1>3. QED
  BY <1>1, <1>2 DEF AnalysePair, analyse_pair, h

\* The head of a list put together of at most one finding each is in it.
LEMMA HeadFound ==
    ASSUME NEW x, NEW t, NEW u, NEW v,
           \E a : t = <<>> \/ t = <<a>>, \E a : u = <<>> \/ u = <<a>>, \E a : v = <<>> \/ v = <<a>>
    PROVE  x \in Range(((<<x>> \o t) \o u) \o v)
<1>1. PICK a : t = <<>> \/ t = <<a>>
  OBVIOUS
<1>2. PICK b : u = <<>> \/ u = <<b>>
  OBVIOUS
<1>3. PICK c : v = <<>> \/ v = <<c>>
  OBVIOUS
<1> DEFINE S == {x, a, b, c}
           all == ((<<x>> \o t) \o u) \o v
<1>4. t \in Seq(S) /\ u \in Seq(S) /\ v \in Seq(S) /\ <<x>> \in Seq(S)
  <2>1. {x, a, b, c} \subseteq S
    OBVIOUS
  <2> HIDE DEF S
  <2>2. <<>> \in Seq(S) /\ \A y \in S : <<y>> \in Seq(S)
    OBVIOUS
  <2>3. QED
    BY <1>1, <1>2, <1>3, <2>1, <2>2, Zenon
<1> HIDE DEF S
<1>5. <<x>> \o t \in Seq(S) /\ Len(<<x>> \o t) >= 1 /\ (<<x>> \o t)[1] = x
  BY <1>4
<1> DEFINE p == <<x>> \o t
<1> HIDE DEF p
<1>6. p \o u \in Seq(S) /\ Len(p \o u) >= 1 /\ (p \o u)[1] = x
  BY <1>4, <1>5 DEF p
<1> DEFINE q == p \o u
<1> HIDE DEF q
<1>7. q \o v \in Seq(S) /\ Len(q \o v) >= 1 /\ (q \o v)[1] = x
  BY <1>4, <1>6 DEF q
<1>8. 1 \in DOMAIN (q \o v) /\ (q \o v)[1] = x
  BY <1>7
<1>9. QED
  BY <1>8, Zenon DEF Range, q, p

\* In a matched pair, a hold is among what is found.
LEMMA HoldFoundMatched ==
    ASSUME NEW i, NEW e, OnHold(i) \/ OnHold(e), NEW confidence
    PROVE  Finding("REGULATORY_HOLD") \in Range(AnalysePair(i, e, TRUE, confidence))
<1> DEFINE x == Finding("REGULATORY_HOLD")
           t == IF is_truncated_pair(txn[i], txn[e]) THEN _truncation_finding(confidence) ELSE <<>>
           u == _date_finding(txn[i], txn[e])
           v == _settlement_delay(txn[i], txn[e])
<1>1. AnalysePair(i, e, TRUE, confidence) = ((<<x>> \o t) \o u) \o v
  BY DEF AnalysePair, analyse_pair, _analyse_matched, _hold, OnHold
<1>2. \E a : t = <<>> \/ t = <<a>>
  BY Zenon DEF _truncation_finding
<1>3. \E a : u = <<>> \/ u = <<a>>
  BY Zenon DEF _date_finding
<1>4. \E a : v = <<>> \/ v = <<a>>
  BY Zenon DEF _settlement_delay
<1> HIDE DEF t, u, v, x
<1>5. x \in Range(((<<x>> \o t) \o u) \o v)
  BY <1>2, <1>3, <1>4, HeadFound, Zenon
<1>6. QED
  BY <1>1, <1>5, Zenon DEF x

\* The first of one finding.
LEMMA FirstOfOne ==
    ASSUME NEW f
    PROVE  f \in FirstOf(<<f>>)
<1>1. <<f>> # <<>> /\ <<f>>[1] = f
  OBVIOUS
<1>2. QED
  BY <1>1 DEF FirstOf

\* A candidate for a pair names both, and its key says so.
LEMMA PairCandidate ==
    ASSUME NEW i, NEW e, NEW f, NEW kind, NEW of_run, NEW c,
           c = _pair_candidate_from(i, e, f, kind, of_run)
    PROVE  WellKeyed(c) /\ c.ids = {i, e} /\ c.finding = f
BY DEF _pair_candidate_from, Candidate, Key, WellKeyed

\* The legs of the pairs of a run are claimed.
LEMMA LegsClaimed ==
    ASSUME Formed, NEW m \in matches, m.type \in PairTypes
    PROVE  /\ m.int = {InternalOf(m)} /\ m.ext = {ExternalOf(m)}
           /\ {InternalOf(m), ExternalOf(m)} \subseteq Claimed
           /\ m.status \in {"AUTO_MATCHED", "PENDING_REVIEW"}
<1>1. OneEach(m)
  BY DEF Formed, MatchFormed
<1>2. QED
  BY <1>1, Legs DEF OneEach, Claimed

\* The pass over the review band reports the holds of its pairs.
LEMMA ReviewStep ==
    ASSUME Decided, classify_pending_review
    PROVE  Decided'
<1> DEFINE of(m) == {_pair_candidate_from(InternalOf(m), ExternalOf(m), f, "pair", 0) :
                        f \in FirstOf(AnalysePair(InternalOf(m), ExternalOf(m), FALSE, m.confidence))}
           cands == UNION {of(m) : m \in OfRun(PairTypes, "PENDING_REVIEW")}
<1>1. Pass("review", cands)
  BY DEF classify_pending_review
<1>2. ASSUME NEW m \in OfRun(PairTypes, "PENDING_REVIEW"), NEW c \in of(m)
      PROVE  WellKeyed(c) /\ c.ids = {InternalOf(m), ExternalOf(m)}
  <2>1. PICK i, e : i = InternalOf(m) /\ e = ExternalOf(m)
    OBVIOUS
  <2>2. \E f : c = _pair_candidate_from(i, e, f, "pair", 0)
    BY <1>2, <2>1
  <2>3. PICK f, kind, of_run : c = _pair_candidate_from(i, e, f, kind, of_run)
    BY <2>2
  <2> HIDE DEF of, cands
  <2>4. QED
    BY <2>1, <2>3, PairCandidate
<1>3. ASSUME NEW c \in cands PROVE WellKeyed(c) /\ c.ids \subseteq Claimed
  <2>1. PICK m \in OfRun(PairTypes, "PENDING_REVIEW") : c \in of(m)
    BY <1>3
  <2>2. m \in matches /\ m.type \in PairTypes
    BY DEF OfRun
  <2> HIDE DEF of, cands
  <2>3. QED
    BY <1>2, <2>1, <2>2, LegsClaimed DEF Decided
<1>4. ASSUME NEW m \in matches, m.type \in PairTypes, PassOver(m)', ~PassOver(m),
             NEW t \in m.int \cup m.ext, OnHold(t)
      PROVE  Named(t)'
  <2>1. /\ stage = "review" /\ stage' = "matched" /\ runs' = runs
        /\ \A c \in cands : c.finding.category = "REGULATORY_HOLD" => \A u \in c.ids : Named(u)'
    BY <1>1, <1>3, PassKeeps DEF StageAfter
  <2>2. m.run = runs /\ m.status = "PENDING_REVIEW"
    <3>1. m.run \in Nat /\ m.run <= runs /\ runs \in Nat
      BY DEF Decided, Formed, DecisionTypes, MatchFormed
    <3>2. QED
      BY <1>4, <2>1, <3>1 DEF PassOver
  <2>3. m \in OfRun(PairTypes, "PENDING_REVIEW")
    BY <1>4, <2>2 DEF OfRun
  <2>4. PICK i, e : i = InternalOf(m) /\ e = ExternalOf(m) /\ t \in {i, e}
    BY <1>4, LegsClaimed DEF Decided
  <2>5. AnalysePair(i, e, FALSE, m.confidence) = <<Finding("REGULATORY_HOLD")>>
    BY <1>4, <2>4, HoldFound
  <2>6. Finding("REGULATORY_HOLD") \in FirstOf(AnalysePair(i, e, FALSE, m.confidence))
    BY <2>5, FirstOfOne
  <2>7. PICK c : c = _pair_candidate_from(i, e, Finding("REGULATORY_HOLD"), "pair", 0)
    OBVIOUS
  <2>8. c \in of(m)
    BY <2>4, <2>6, <2>7
  <2>9. c \in cands
    BY <2>3, <2>8
  <2>10. c.ids = {i, e} /\ c.finding.category = "REGULATORY_HOLD"
    BY <2>7, PairCandidate DEF Finding
  <2> HIDE DEF of, cands
  <2>11. QED
    BY <2>1, <2>4, <2>9, <2>10
<1> HIDE DEF of, cands
<1>5. QED
  BY <1>1, <1>3, <1>4, LaterPass

\* The pass over matched pairs loads every pair on hold, and reports it.
LEMMA MatchedStep ==
    ASSUME Decided, classify_matched
    PROVE  Decided'
<1> DEFINE of(m) == {_pair_candidate_from(InternalOf(m), ExternalOf(m), f, "matched", runs) :
                        f \in Range(AnalysePair(InternalOf(m), ExternalOf(m), TRUE, m.confidence))}
           loaded_ones == {m \in OfRun(PairTypes, "AUTO_MATCHED") :
                              Loaded(InternalOf(m), ExternalOf(m))}
           cands == UNION {of(m) : m \in loaded_ones}
<1>1. Pass("matched", cands)
  BY DEF classify_matched
<1>2. ASSUME NEW m \in loaded_ones, NEW c \in of(m)
      PROVE  WellKeyed(c) /\ c.ids = {InternalOf(m), ExternalOf(m)}
  <2>1. PICK i, e : i = InternalOf(m) /\ e = ExternalOf(m)
    OBVIOUS
  <2>2. \E f : c = _pair_candidate_from(i, e, f, "matched", runs)
    BY <1>2, <2>1
  <2>3. PICK f, kind, of_run : c = _pair_candidate_from(i, e, f, kind, of_run)
    BY <2>2
  <2> HIDE DEF of, cands, loaded_ones
  <2>4. QED
    BY <2>1, <2>3, PairCandidate
<1>3. ASSUME NEW c \in cands PROVE WellKeyed(c) /\ c.ids \subseteq Claimed
  <2>1. PICK m \in loaded_ones : c \in of(m)
    BY <1>3
  <2>2. m \in matches /\ m.type \in PairTypes
    BY DEF OfRun
  <2> HIDE DEF of, cands, loaded_ones
  <2>3. QED
    BY <1>2, <2>1, <2>2, LegsClaimed DEF Decided
<1>4. ASSUME NEW m \in matches, m.type \in PairTypes, PassOver(m)', ~PassOver(m),
             NEW t \in m.int \cup m.ext, OnHold(t)
      PROVE  Named(t)'
  <2>1. /\ stage = "matched" /\ stage' = "groups" /\ runs' = runs
        /\ \A c \in cands : c.finding.category = "REGULATORY_HOLD" => \A u \in c.ids : Named(u)'
    BY <1>1, <1>3, PassKeeps DEF StageAfter
  <2>2. m.run = runs /\ m.status = "AUTO_MATCHED"
    <3>1. m.run \in Nat /\ m.run <= runs /\ runs \in Nat
      BY DEF Decided, Formed, DecisionTypes, MatchFormed
    <3>2. QED
      BY <1>4, <2>1, <3>1 DEF PassOver
  <2>3. PICK i, e : i = InternalOf(m) /\ e = ExternalOf(m) /\ t \in {i, e}
    BY <1>4, LegsClaimed DEF Decided
  <2>4. m \in loaded_ones
    BY <1>4, <2>2, <2>3 DEF OfRun, Loaded, OnHold
  <2>5. Finding("REGULATORY_HOLD") \in Range(AnalysePair(i, e, TRUE, m.confidence))
    BY <1>4, <2>3, HoldFoundMatched
  <2>6. PICK c : c = _pair_candidate_from(i, e, Finding("REGULATORY_HOLD"), "matched", runs)
    OBVIOUS
  <2>7. c \in of(m)
    BY <2>3, <2>5, <2>6
  <2>8. c \in cands
    BY <2>4, <2>7
  <2>9. c.ids = {i, e} /\ c.finding.category = "REGULATORY_HOLD"
    BY <2>6, PairCandidate DEF Finding
  <2> HIDE DEF of, cands, loaded_ones
  <2>10. QED
    BY <2>1, <2>3, <2>8, <2>9
<1> HIDE DEF of, cands, loaded_ones
<1>5. QED
  BY <1>1, <1>3, <1>4, LaterPass

\* The pass over groups is about their members only.
LEMMA GroupsStep ==
    ASSUME Decided, classify_groups
    PROVE  Decided'
<1> DEFINE category(m) == IF m.type = "SPLIT" THEN "PARTIAL_MATCH" ELSE "NETTED_SETTLEMENT"
           ids(m) == m.int \cup m.ext
           of(m) == Candidate(Key(category(m), "group", ids(m), runs), ids(m),
                              Finding(category(m)),
                              IF m.type = "SPLIT" THEN InternalOf(m) ELSE ExternalOf(m))
           cands == {of(m) : m \in OfRun({"SPLIT", "NETTED"}, "AUTO_MATCHED")}
<1>1. Pass("groups", cands)
  BY DEF classify_groups
<1>2. ASSUME NEW c \in cands PROVE WellKeyed(c) /\ c.ids \subseteq Claimed
  <2>1. PICK m \in OfRun({"SPLIT", "NETTED"}, "AUTO_MATCHED") : c = of(m)
    BY <1>2
  <2>2. c.ids = m.int \cup m.ext /\ WellKeyed(c)
    BY <2>1 DEF WellKeyed, Candidate, Key, Finding
  <2> HIDE DEF of, cands
  <2>3. m \in matches
    BY <2>1 DEF OfRun
  <2>4. QED
    BY <2>2, <2>3 DEF Claimed
<1> HIDE DEF of, cands
<1>3. stage = "groups" /\ runs' = runs /\ stage' = "done"
  BY <1>1 DEF Pass, StageAfter, run_fixed
<1>4. \A m \in matches : PassOver(m)' => PassOver(m)
  BY <1>3 DEF PassOver
<1>5. QED
  BY <1>1, <1>2, <1>4, LaterPass

-----------------------------------------------------------------------------
(* The leftovers: copies, pairs by reference and singles are a partition.  *)

LeftPair(p) == _pair_candidate_from(p[1], p[2], AnalysePair(p[1], p[2], FALSE, NA)[1], "pair", 0)
Paired == UNION {{p[1], p[2]} : p \in Pairs}
Singles == (Leftovers("INTERNAL") \cup Leftovers("EXTERNAL")) \ Paired
Copy(d) ==
    LET category == IF txn[d].src = "INTERNAL" THEN "DUPLICATE_INTERNAL" ELSE "DUPLICATE_EXTERNAL"
    IN  Candidate(Key(category, "txn", {d}, 0), {d}, Finding(category), d)

LeftCandidates == _duplicate_candidates \cup _unmatched_candidates

\* The candidates of classify_unmatched, by kind.
LEMMA LeftKinds ==
    LeftCandidates = {Copy(d) : d \in Duplicates} \cup {LeftPair(p) : p \in Pairs}
                     \cup {_single_candidate(t) : t \in Singles}
<1> DEFINE of(p) == {_pair_candidate_from(p[1], p[2], f, "pair", 0) :
                        f \in FirstOf(AnalysePair(p[1], p[2], FALSE, NA))}
           all == UNION {of(p) : p \in Pairs}
           copies == {Copy(d) : d \in Duplicates}
           pairs == {LeftPair(p) : p \in Pairs}
           singles == {_single_candidate(t) : t \in Singles}
<1>1. _duplicate_candidates = copies
  BY DEF _duplicate_candidates, Copy
<1>2. _unmatched_candidates = all \cup singles
  BY DEF _unmatched_candidates, Singles, Paired
<1>3. ASSUME NEW p \in Pairs PROVE of(p) = {LeftPair(p)}
  <2>1. AnalysePair(p[1], p[2], FALSE, NA) # <<>>
    BY DEF Pairs, Takes
  <2> DEFINE found == AnalysePair(p[1], p[2], FALSE, NA)
  <2>2. FirstOf(found) = {found[1]}
    BY <2>1 DEF FirstOf
  <2> HIDE DEF found
  <2>3. {_pair_candidate_from(p[1], p[2], f, "pair", 0) : f \in FirstOf(found)}
            = {_pair_candidate_from(p[1], p[2], found[1], "pair", 0)}
    BY <2>2
  <2>4. QED
    BY <2>3 DEF LeftPair, found
<1> HIDE DEF of
<1>4. all = pairs
  BY <1>3
<1> HIDE DEF all, copies, pairs, singles
<1>5. LeftCandidates = copies \cup pairs \cup singles
  BY <1>1, <1>2, <1>4 DEF LeftCandidates
<1>6. QED
  BY <1>5, Zenon DEF copies, pairs, singles

\* What a candidate of each kind names, and its category.
LEMMA LeftNames ==
    /\ \A d : Copy(d).ids = {d} /\ WellKeyed(Copy(d))
    /\ \A p : /\ LeftPair(p).ids = {p[1], p[2]} /\ WellKeyed(LeftPair(p))
              /\ LeftPair(p).finding = AnalysePair(p[1], p[2], FALSE, NA)[1]
    /\ \A t : /\ _single_candidate(t).ids = {t} /\ WellKeyed(_single_candidate(t))
              /\ _single_candidate(t).finding.category = SingleCategory(txn[t], today)
<1>1. \A d : Copy(d).ids = {d} /\ WellKeyed(Copy(d))
  BY DEF Copy, Candidate, Key, WellKeyed, Finding
<1>2. ASSUME NEW p
      PROVE  /\ LeftPair(p).ids = {p[1], p[2]} /\ WellKeyed(LeftPair(p))
             /\ LeftPair(p).finding = AnalysePair(p[1], p[2], FALSE, NA)[1]
  BY DEF LeftPair, _pair_candidate_from, Candidate, Key, WellKeyed
<1>3. ASSUME NEW t
      PROVE  /\ _single_candidate(t).ids = {t} /\ WellKeyed(_single_candidate(t))
             /\ _single_candidate(t).finding.category = SingleCategory(txn[t], today)
  BY DEF _single_candidate, Candidate, Key, WellKeyed, Finding
<1>4. QED
  BY <1>1, <1>2, <1>3

\* A pair is of an internal and an external left over, neither a copy.
LEMMA PairLeft ==
    ASSUME NEW p \in Pairs
    PROVE  /\ p = <<p[1], p[2]>>
           /\ p[1] \in Leftovers("INTERNAL") /\ p[2] \in Leftovers("EXTERNAL")
           /\ p[1] \in DOMAIN txn /\ p[2] \in DOMAIN txn
           /\ txn[p[1]].src = "INTERNAL" /\ txn[p[2]].src = "EXTERNAL"
           /\ p[1] \notin Duplicates /\ p[2] \notin Duplicates
           /\ Takes(p[1], p[2])
           /\ \A f \in Leftovers("EXTERNAL") : Before(txn, f, p[2]) => ~Takes(p[1], f)
BY DEF Pairs, Leftovers, find_unmatched

\* No transaction is in two pairs.
LEMMA PairsApart ==
    ASSUME txn \in Seq(Txn), NEW p \in Pairs, NEW q \in Pairs, NEW t,
           t \in {p[1], p[2]}, t \in {q[1], q[2]}
    PROVE  p = q
<1>1. p[1] # q[2] /\ p[2] # q[1]
  BY PairLeft
<1>2. CASE p[1] = q[1]
  <2>1. p[2] = q[2]
    <3>1. SUFFICES ASSUME p[2] # q[2] PROVE FALSE
      OBVIOUS
    <3>2. Before(txn, p[2], q[2]) \/ Before(txn, q[2], p[2])
      BY <3>1, PairLeft, InTurn
    <3>3. QED
      BY <1>2, <3>2, PairLeft
  <2>2. QED
    BY <1>2, <2>1, PairLeft
<1>3. CASE p[2] = q[2]
  <2>1. Peers(p[2]) = {p[1]} /\ Peers(q[2]) = {q[1]}
    BY PairLeft DEF Takes
  <2>2. PICK i, j : i = p[1] /\ j = q[1]
    OBVIOUS
  <2>3. {i} = {j}
    BY <1>3, <2>1, <2>2
  <2>4. p[1] = q[1]
    BY <2>2, <2>3
  <2>5. QED
    BY <1>3, <2>4, PairLeft
<1>4. QED
  BY <1>1, <1>2, <1>3

\* What is left over is named by a candidate; a hold by one for compliance.
LEMMA LeftNamed ==
    ASSUME txn \in Seq(Txn), NEW t \in DOMAIN txn, Free(t)
    PROVE  \E c \in LeftCandidates :
              /\ t \in c.ids
              /\ OnHold(t) /\ t \notin Duplicates => c.finding.category = "REGULATORY_HOLD"
<1>1. CASE t \in Duplicates
  <2>1. PICK c \in LeftCandidates : c = Copy(t)
    BY <1>1, LeftKinds
  <2>2. t \in c.ids
    BY <2>1, LeftNames
  <2>3. QED
    BY <1>1, <2>2
<1>2. CASE t \notin Duplicates
  <2>1. t \in Leftovers("INTERNAL") \cup Leftovers("EXTERNAL")
    BY <1>2, Columns DEF Leftovers, find_unmatched
  <2>2. CASE t \in Paired
    <3>1. PICK p \in Pairs : t \in {p[1], p[2]}
      BY <2>2 DEF Paired
    <3>2. PICK c \in LeftCandidates : c = LeftPair(p)
      BY LeftKinds
    <3>3. t \in c.ids /\ c.finding = AnalysePair(p[1], p[2], FALSE, NA)[1]
      BY <3>1, <3>2, LeftNames
    <3>4. OnHold(t) => c.finding.category = "REGULATORY_HOLD"
      <4>1. SUFFICES ASSUME OnHold(t) PROVE c.finding.category = "REGULATORY_HOLD"
        OBVIOUS
      <4>2. AnalysePair(p[1], p[2], FALSE, NA) = <<Finding("REGULATORY_HOLD")>>
        BY <3>1, <4>1, HoldFound
      <4>3. \A h : <<h>>[1] = h
        OBVIOUS
      <4>4. c.finding = Finding("REGULATORY_HOLD")
        BY <3>3, <4>2, <4>3, Zenon
      <4>5. QED
        BY <4>4 DEF Finding
    <3>5. QED
      BY <3>3, <3>4
  <2>3. CASE t \notin Paired
    <3>1. t \in Singles
      BY <2>1, <2>3 DEF Singles
    <3>2. _single_candidate(t) \in LeftCandidates
      BY <3>1, LeftKinds
    <3>3. OnHold(t) => SingleCategory(txn[t], today) = "REGULATORY_HOLD"
      BY DEF OnHold, SingleCategory
    <3>4. QED
      BY <3>2, <3>3, LeftNames
  <2>4. QED
    BY <2>2, <2>3
<1>3. QED
  BY <1>1, <1>2

\* And by no other.
LEMMA LeftNamedOnce ==
    ASSUME txn \in Seq(Txn), NEW t, NEW c \in LeftCandidates, NEW d \in LeftCandidates,
           t \in c.ids, t \in d.ids
    PROVE  c = d
<1> DEFINE IsCopy(x) == t \in Duplicates /\ x = Copy(t)
           IsPair(x) == \E p \in Pairs : t \in {p[1], p[2]} /\ x = LeftPair(p)
           IsSingle(x) == t \in Singles /\ x = _single_candidate(t)
<1>1. ASSUME NEW x \in LeftCandidates, t \in x.ids
      PROVE  IsCopy(x) \/ IsPair(x) \/ IsSingle(x)
  <2>1. CASE x \in {Copy(k) : k \in Duplicates}
    BY <1>1, <2>1, LeftNames
  <2>2. CASE x \in {LeftPair(p) : p \in Pairs}
    BY <1>1, <2>2, LeftNames
  <2>3. CASE x \in {_single_candidate(k) : k \in Singles}
    BY <1>1, <2>3, LeftNames
  <2>4. QED
    BY <2>1, <2>2, <2>3, LeftKinds
<1>2. t \in Duplicates => t \notin Paired /\ t \notin Singles
  BY PairLeft DEF Paired, Singles, Leftovers
<1>3. t \in Paired => t \notin Singles
  BY DEF Singles
<1>4. \A x : IsPair(x) => t \in Paired
  BY DEF Paired
<1>5. IsPair(c) /\ IsPair(d) => c = d
  BY PairsApart
<1> HIDE DEF IsPair
<1>6. QED
  BY <1>1, <1>2, <1>3, <1>4, <1>5

\* The pass over the leftovers names each of them, once, and the holds as holds.
LEMMA UnmatchedStep ==
    ASSUME Decided, classify_unmatched
    PROVE  Decided'
<1>1. Pass("leftovers", LeftCandidates)
  BY DEF classify_unmatched, LeftCandidates
<1>2. Formed /\ txn \in Seq(Txn) /\ runs \in Nat
  BY DEF Decided, Formed, DecisionTypes
<1>3. \A c \in LeftCandidates : WellKeyed(c)
  BY LeftKinds, LeftNames
<1>4. /\ Formed' /\ PairsAgreed'
      /\ stage = "leftovers" /\ stage' = "review"
      /\ UNCHANGED <<txn, runs, matches>>
      /\ \A t : Free(t)' <=> Free(t)
      /\ \A t : OnHold(t)' <=> OnHold(t)
      /\ \A t : Named(t) => Named(t)'
      /\ \A c \in LeftCandidates : c.finding.category = "REGULATORY_HOLD" =>
            \A t \in c.ids : Named(t)'
  BY <1>1, <1>3, PassKeeps DEF StageAfter
<1>5. /\ \A c \in LeftCandidates : \E x \in raised' : x.key = c.key
      /\ \E row : \A x \in raised' \ raised : \E c \in LeftCandidates : x = row[c] /\ x.ids = c.ids
      /\ \A x \in raised' : RaisedFormed(x)'
  BY <1>1, <1>2, <1>3, PassRaises
<1>6. PICK row : \A x \in raised' \ raised : \E c \in LeftCandidates : x = row[c] /\ x.ids = c.ids
  BY <1>5
<1>7. \A x \in raised : x.run # runs
  BY <1>2, <1>4 DEF Formed, NothingYet, Unclassified
<1>8. ASSUME NEW t \in DOMAIN txn, Free(t)
      PROVE  /\ \E x \in raised' : t \in x.ids
             /\ Cardinality({x \in raised' : x.run = runs' /\ t \in x.ids}) <= 1
             /\ OnHold(t) /\ t \notin Duplicates => Named(t)'
  <2>1. PICK c \in LeftCandidates :
              /\ t \in c.ids
              /\ OnHold(t) /\ t \notin Duplicates => c.finding.category = "REGULATORY_HOLD"
    BY <1>2, <1>8, LeftNamed
  <2>2. \E x \in raised' : t \in x.ids
    <3>1. PICK x \in raised' : x.key = c.key
      BY <1>5
    <3>2. x.ids = x.key[3] /\ c.ids = c.key[3]
      BY <1>3, <1>5 DEF RaisedFormed, WellKeyed
    <3>3. QED
      BY <2>1, <3>1, <3>2
  <2> DEFINE of == {x \in raised' : x.run = runs' /\ t \in x.ids}
  <2>3. of \subseteq {row[c]}
    <3>1. ASSUME NEW x \in of PROVE x = row[c]
      <4>1. x \in raised' \ raised /\ t \in x.ids
        BY <1>4, <1>7
      <4>2. PICK d \in LeftCandidates : x = row[d] /\ x.ids = d.ids
        BY <1>6, <4>1
      <4>3. d = c
        BY <1>2, <2>1, <4>1, <4>2, LeftNamedOnce
      <4>4. QED
        BY <4>2, <4>3
    <3>2. QED
      BY <3>1
  <2> HIDE DEF of
  <2>4. Cardinality(of) <= 1
    <3>1. IsFiniteSet({row[c]}) /\ Cardinality({row[c]}) = 1
      BY FS_Singleton
    <3>2. QED
      BY <2>3, <3>1, FS_Subset
  <2>5. OnHold(t) /\ t \notin Duplicates => Named(t)'
    BY <1>4, <2>1
  <2>6. QED
    BY <2>2, <2>4, <2>5 DEF of
<1>9. LeftoversExplained'
  BY <1>4, <1>8 DEF LeftoversExplained
<1>10. Duplicates' = Duplicates
  BY <1>4 DEF Duplicates
<1>11. HeldLeftNamed'
  BY <1>4, <1>8, <1>10 DEF HeldLeftNamed
<1>12. \A m \in matches : PassOver(m)' => PassOver(m)
  BY <1>4 DEF PassOver
<1>13. HeldPairsNamed'
  BY <1>4, <1>12 DEF Decided, HoldsNamed, HeldPairsNamed
<1>14. QED
  BY <1>4, <1>9, <1>11, <1>13 DEF Decided, HoldsNamed

-----------------------------------------------------------------------------
(* Lists and sums of transactions.                                         *)

\* The list o has the elements of T at the positions J, once each.
Reindexed(g, J, o, h, T) ==
    /\ T = {o[j] : j \in J}
    /\ \A i, j \in J : o[i] = o[j] => i = j
    /\ \A j \in J : g[j] = h[o[j]] /\ g[j] \in Int

\* A sum over positions is the sum over what is at them.
LEMMA SumReindex ==
    ASSUME NEW J, IsFiniteSet(J), NEW o, NEW g, NEW h, NEW T, Reindexed(g, J, o, h, T)
    PROVE  SumFunctionOnSet(g, J) = SumFunctionOnSet(h, T)
<1> USE DEF Reindexed
<1> DEFINE At(s) == {o[j] : j \in s}
           P == {s \in SUBSET J : /\ IsFiniteSet(At(s))
                                  /\ SumFunctionOnSet(g, s) = SumFunctionOnSet(h, At(s))}
<1>1. {} \in P
  <2>1. At({}) = {}
    OBVIOUS
  <2>2. QED
    BY <2>1, SumEmpty, FS_EmptySet
<1>2. ASSUME NEW s \in SUBSET J, NEW x \in J \ s, s \in P PROVE s \cup {x} \in P
  <2>1. At(s \cup {x}) = At(s) \cup {o[x]} /\ o[x] \notin At(s)
    OBVIOUS
  <2>2. IsFiniteSet(s) /\ x \notin s /\ \A y \in s \cup {x} : g[y] \in Int
    BY FS_Subset
  <2>3. \A y \in At(s) \cup {o[x]} : h[y] \in Int
    OBVIOUS
  <2>4. SumFunctionOnSet(g, s \cup {x}) = g[x] + SumFunctionOnSet(g, s)
    BY <2>2, SumWith
  <2>5. IsFiniteSet(At(s)) /\ SumFunctionOnSet(g, s) = SumFunctionOnSet(h, At(s))
    BY <1>2
  <2> HIDE DEF At
  <2>6. SumFunctionOnSet(h, At(s) \cup {o[x]}) = h[o[x]] + SumFunctionOnSet(h, At(s))
    BY <2>1, <2>3, <2>5, SumWith
  <2>7. IsFiniteSet(At(s) \cup {o[x]})
    BY <2>5, FS_AddElement
  <2>8. QED
    BY <2>1, <2>4, <2>5, <2>6, <2>7
<1>3. SUBSET J \subseteq P
  <2> HIDE DEF P
  <2> QED BY <1>1, <1>2, SetSteps
<1>4. J \in P
  BY <1>3
<1>5. QED
  BY <1>4

\* Transactions of a ledger are finitely many.
LEMMA LedgerFinite ==
    ASSUME txn \in Seq(Txn), NEW S, S \subseteq DOMAIN txn
    PROVE  IsFiniteSet(S)
<1>1. DOMAIN txn = 1 .. Len(txn) /\ Len(txn) \in Int
  OBVIOUS
<1>2. QED
  BY <1>1, FS_Interval, FS_Subset

\* The order is strict.
LEMMA InTurnOnce ==
    ASSUME txn \in Seq(Txn), NEW a \in DOMAIN txn, NEW b \in DOMAIN txn, NEW c \in DOMAIN txn
    PROVE  /\ ~Before(txn, a, a)
           /\ Before(txn, a, b) /\ Before(txn, b, c) => Before(txn, a, c)
<1>1. /\ a \in Nat /\ b \in Nat /\ c \in Nat
      /\ txn[a].day \in Nat /\ txn[b].day \in Nat /\ txn[c].day \in Nat
      /\ txn[a].line \in Nat /\ txn[b].line \in Nat /\ txn[c].line \in Nat
  BY Columns
<1>2. QED
  BY <1>1 DEF Before

\* InOrder lists every transaction of a set once.
LEMMA Listed ==
    ASSUME txn \in Seq(Txn), NEW ts, ts \subseteq DOMAIN txn
    PROVE  /\ Cardinality(ts) \in Nat
           /\ InOrder(ts) \in [1 .. Cardinality(ts) -> ts]
           /\ \A i, j \in 1 .. Cardinality(ts) : InOrder(ts)[i] = InOrder(ts)[j] => i = j
           /\ \A t \in ts : \E j \in 1 .. Cardinality(ts) : InOrder(ts)[j] = t
<1> DEFINE N == Cardinality(ts)
           below(t) == {u \in ts : Before(txn, u, t)}
           rank == [t \in ts |-> Cardinality(below(t))]
<1>1. IsFiniteSet(ts) /\ N \in Nat
  BY LedgerFinite, FS_CardinalityType
<1>2. ASSUME NEW t \in ts PROVE rank[t] \in 0 .. (N - 1) /\ IsFiniteSet(below(t))
  <2>1. below(t) \subseteq ts \ {t}
    BY InTurnOnce
  <2>2. IsFiniteSet(ts \ {t}) /\ Cardinality(ts \ {t}) = N - 1
    BY <1>1, FS_RemoveElement
  <2> HIDE DEF below
  <2>3. IsFiniteSet(below(t)) /\ Cardinality(below(t)) \in Nat /\ Cardinality(below(t)) <= N - 1
    BY <2>1, <2>2, FS_Subset, FS_CardinalityType
  <2>4. QED
    BY <1>1, <2>3
<1>3. ASSUME NEW t \in ts, NEW u \in ts, Before(txn, t, u) PROVE rank[t] < rank[u]
  <2>1. below(t) \cup {t} \subseteq below(u) /\ t \notin below(t)
    BY <1>3, InTurnOnce
  <2>2. IsFiniteSet(below(t)) /\ IsFiniteSet(below(u)) /\ rank[t] \in Nat /\ rank[u] \in Nat
    <3> HIDE DEF N, below, rank
    <3>1. QED
      BY <1>1, <1>2
  <2>3. rank[t] = Cardinality(below(t)) /\ rank[u] = Cardinality(below(u))
    OBVIOUS
  <2> HIDE DEF below, rank
  <2>4. Cardinality(below(t) \cup {t}) = Cardinality(below(t)) + 1
    BY <2>1, <2>2, FS_AddElement
  <2>5. Cardinality(below(t) \cup {t}) <= Cardinality(below(u))
    BY <2>1, <2>2, FS_Subset
  <2>6. QED
    BY <2>2, <2>3, <2>4, <2>5
<1>4. ASSUME NEW t \in ts, NEW u \in ts, rank[t] = rank[u] PROVE t = u
  <2>1. rank[t] \in Int /\ rank[u] \in Int
    BY <1>1, <1>2
  <2> HIDE DEF rank
  <2>2. QED
    BY <1>3, <1>4, <2>1, InTurn
<1>5. rank \in Injection(ts, 0 .. (N - 1))
  <2>1. rank = [t \in ts |-> rank[t]]
    OBVIOUS
  <2> HIDE DEF N, rank
  <2>2. QED
    BY <1>2, <1>4, <2>1 DEF Injection, IsInjective
<1>6. IsFiniteSet(0 .. (N - 1)) /\ Cardinality(0 .. (N - 1)) = N
  <2> HIDE DEF N
  <2>1. 0 \in Int /\ N - 1 \in Int /\ (IF 0 > N - 1 THEN 0 ELSE (N - 1) - 0 + 1) = N
    BY <1>1
  <2>2. QED
    BY <2>1, FS_Interval
<1> HIDE DEF rank
<1>7. rank \in Surjection(ts, 0 .. (N - 1))
  BY <1>5, <1>6, FS_Injection
<1>8. \A j \in 1 .. N : \E t \in ts : rank[t] = j - 1
  <2>1. \A k \in 0 .. (N - 1) : \E t \in ts : rank[t] = k
    BY <1>7 DEF Surjection
  <2>2. \A j \in 1 .. N : j - 1 \in 0 .. (N - 1)
    BY <1>1
  <2>3. QED
    BY <2>1, <2>2
<1>9. InOrder(ts) = [j \in 1 .. N |-> CHOOSE t \in ts : rank[t] = j - 1]
  <2>1. ASSUME NEW j \in 1 .. N
        PROVE  (CHOOSE t \in ts : Cardinality({u \in ts : Before(txn, u, t)}) = j - 1)
               = (CHOOSE t \in ts : rank[t] = j - 1)
    <3>1. \A t \in ts : Cardinality({u \in ts : Before(txn, u, t)}) = rank[t]
      BY DEF rank
    <3>2. QED
      BY <3>1
  <2>2. InOrder(ts) = [j \in 1 .. N |->
            CHOOSE t \in ts : Cardinality({u \in ts : Before(txn, u, t)}) = j - 1]
    BY DEF InOrder
  <2>3. QED
    BY <2>1, <2>2, Zenon
<1>10. ASSUME NEW j \in 1 .. N PROVE InOrder(ts)[j] \in ts /\ rank[InOrder(ts)[j]] = j - 1
  <2>1. InOrder(ts)[j] = CHOOSE t \in ts : rank[t] = j - 1
    BY <1>9
  <2>2. QED
    BY <1>8, <2>1
<1>11. InOrder(ts) \in [1 .. N -> ts]
  BY <1>9, <1>10
<1>12. \A i, j \in 1 .. N : InOrder(ts)[i] = InOrder(ts)[j] => i = j
  <2>1. ASSUME NEW i \in 1 .. N, NEW j \in 1 .. N, InOrder(ts)[i] = InOrder(ts)[j] PROVE i = j
    <3>1. i - 1 = j - 1 /\ i \in Int /\ j \in Int
      BY <1>1, <1>10, <2>1
    <3>2. QED
      BY <3>1
  <2>2. QED
    BY <2>1
<1>13. ASSUME NEW t \in ts PROVE \E j \in 1 .. N : InOrder(ts)[j] = t
  <2>1. rank[t] \in 0 .. (N - 1)
    BY <1>5 DEF Injection
  <2>2. rank[t] + 1 \in 1 .. N /\ (rank[t] + 1) - 1 = rank[t]
    BY <1>1, <2>1
  <2>3. InOrder(ts)[rank[t] + 1] \in ts /\ rank[InOrder(ts)[rank[t] + 1]] = rank[t]
    BY <1>10, <2>2
  <2>4. InOrder(ts)[rank[t] + 1] = t
    BY <1>4, <2>3
  <2>5. QED
    BY <2>2, <2>4
<1>14. QED
  BY <1>1, <1>11, <1>12, <1>13

-----------------------------------------------------------------------------
(* The bounds of a group, and values in paise.                             *)

\* Division rounds down.
LEMMA Division ==
    ASSUME NEW n \in Int, NEW d \in Nat, d > 0
    PROVE  /\ n \div d \in Int
           /\ d * (n \div d) <= n /\ n < d * (n \div d) + d
           /\ n >= 0 => n \div d >= 0
  BY SMTT(30)

\* What is rounded to even is a number.
LEMMA RoundedNat ==
    ASSUME NEW n \in Nat, NEW d \in Nat, d > 0
    PROVE  RoundHalfEven(n, d) \in Nat
<1>1. PICK q \in Nat : q = n \div d
  BY Division
<1>2. q % 2 \in Nat
  BY SMTT(30)
<1>3. RoundHalfEven(n, d) \in {q, q + 1, q + (q % 2)}
  BY <1>1 DEF RoundHalfEven
<1>4. QED
  BY <1>2, <1>3

\* The bounds of _legs are those of the tolerance.
LEMMA BoundsAgree ==
    ASSUME NEW t \in Nat, NEW w \in Int,
           CeilDiv(t * (20000 - FxTolerance), 20000 + FxTolerance) <= w,
           w <= (t * (20000 + FxTolerance)) \div (20000 - FxTolerance)
    PROVE  WithinPercent(t, w, FxTolerance) /\ WithinPercent(w, t, FxTolerance)
<1>1. PICK f \in Nat : f = FxTolerance /\ f < 20000
  BY FindingsAssumption, ToleranceAssumption
<1>2. PICK a \in Nat, b \in Nat : a = 20000 - f /\ b = 20000 + f /\ a > 0 /\ b > 0
  BY <1>1
<1>3. PICK x \in Int, y \in Int : x = t * f /\ y = w * f
  BY <1>1
<1>4. t * a = 20000 * t - x /\ t * b = 20000 * t + x /\ w * a = 20000 * w - y /\ w * b = 20000 * w + y
  BY <1>1, <1>2, <1>3
<1>5. t * a \in Int /\ t * b \in Int
  BY <1>2
<1>6. w * a <= t * b
  <2>1. PICK h \in Int : h = (t * b) \div a /\ a * h <= t * b /\ w <= h
    BY <1>1, <1>2, <1>5, Division
  <2>2. w * a <= a * h
    BY <1>2, <2>1
  <2>3. PICK p \in Int, q \in Int, r \in Int : p = w * a /\ q = a * h /\ r = t * b
    BY <1>2, <1>5, <2>1
  <2>4. QED
    BY <2>1, <2>2, <2>3
<1>7. t * a <= w * b
  <2>1. PICK l \in Int : l = (t * a + b - 1) \div b /\ t * a + b - 1 < b * l + b /\ l <= w
    BY <1>1, <1>2, <1>5, Division DEF CeilDiv
  <2>2. b * l <= w * b
    BY <1>2, <2>1
  <2>3. PICK p \in Int, q \in Int, r \in Int : p = t * a /\ q = b * l /\ r = w * b
    BY <1>2, <1>5, <2>1
  <2>4. p <= q
    BY <1>2, <2>1, <2>3
  <2>5. QED
    BY <2>2, <2>3, <2>4
<1>8. f * (t + w) = x + y /\ f * (w + t) = x + y
  BY <1>1, <1>3
<1>9. 20000 * w - y <= 20000 * t + x /\ 20000 * t - x <= 20000 * w + y
  BY <1>4, <1>6, <1>7
<1>10. 2 * Distance(t, w) * 10000 <= x + y /\ 2 * Distance(w, t) * 10000 <= x + y
  BY <1>3, <1>9 DEF Distance
<1>11. QED
  BY <1>1, <1>8, <1>10 DEF WithinPercent

\* Bounds in one currency are those of the bank's tolerance.
LEMMA ToleranceAgree ==
    ASSUME NEW t \in Nat, NEW w \in Int, t - AmountTolerance <= w, w <= t + AmountTolerance
    PROVE  Distance(t, w) <= AmountTolerance /\ Distance(w, t) <= AmountTolerance
  BY ScoringAssumption DEF Distance

\* The rows of fx_rates, and what the cache has of them.
RateFormed(r) == r.day \in Nat /\ r.rate \in Nat /\ r.source \in DOMAIN _SOURCE_RANK
RatesRight ==
    /\ \A r \in rates : RateFormed(r)
    /\ \A k \in DOMAIN quoted : k[2] \in Nat => quoted[k].rate \in Nat

\* Among rows of a day or earlier there is a freshest.
LEMMA FreshestIn ==
    ASSUME NEW S, S # {}, \A r \in S : RateFormed(r), NEW on \in Nat,
           \A r \in S : on - r.day \in Nat
    PROVE  FreshestOf(S) \in S
<1> DEFINE age == [r \in S |-> on - r.day]
<1>1. age \in [S -> Nat]
  OBVIOUS
<1>2. PICK x \in S : \A y \in S : age[x] <= age[y]
  BY <1>1, LeastBy
<1> DEFINE D == {r \in S : r.day = x.day}
           rank == [r \in D |-> _SOURCE_RANK[r.source]]
<1>3. D # {} /\ rank \in [D -> Nat]
  BY DEF RateFormed, _SOURCE_RANK
<1>4. PICK r \in D : \A s \in D : rank[r] <= rank[s]
  BY <1>3, LeastBy
<1>5. ASSUME NEW s \in S PROVE Fresher(r, s)
  <2>1. r.day \in Nat /\ s.day \in Nat /\ r.day = x.day
    BY DEF RateFormed
  <2>2. on - x.day <= on - s.day
    BY <1>2
  <2>3. r.day >= s.day
    BY <2>1, <2>2
  <2>4. r.day = s.day => _SOURCE_RANK[r.source] <= _SOURCE_RANK[s.source]
    BY <1>4, <2>1
  <2>5. QED
    BY <2>1, <2>3, <2>4 DEF Fresher
<1>6. r \in S
  OBVIOUS
<1>7. QED
  BY <1>5, <1>6 DEF FreshestOf

\* A quote has a rate, from the cache or from the rows; NoQuote has 0.
LEMMA QuoteRate ==
    ASSUME RatesRight, NEW ccy, NEW day \in Nat
    PROVE  quote(ccy, day).rate \in Nat
<1> DEFINE rows == {r \in rates : r.currency = ccy}
           eligible == {r \in rows : day - r.day \in 0 .. MaxStaleDays}
           clean == {r \in eligible : ~r.suspect}
           S == IF clean # {} THEN clean ELSE eligible
<1>1. CASE eligible # {}
  <2>1. S # {} /\ (\A r \in S : RateFormed(r)) /\ \A r \in S : day - r.day \in Nat
    BY <1>1, RateAssumption DEF RatesRight
  <2>2. pick_quote(rows, day).rate = FreshestOf(S).rate
    BY <1>1 DEF pick_quote
  <2> HIDE DEF S
  <2>3. FreshestOf(S) \in S
    BY <2>1, FreshestIn
  <2>4. QED
    BY <2>1, <2>2, <2>3, RateAssumption DEF quote, RatesRight, RateFormed
<1>2. CASE eligible = {}
  <2>1. pick_quote(rows, day).rate = 0
    BY <1>2 DEF pick_quote, NoQuote
  <2>2. QED
    BY <2>1, RateAssumption DEF quote, RatesRight
<1>3. QED
  BY <1>1, <1>2

\* A transaction whose rate is known has a value in paise.
LEMMA ValueNat ==
    ASSUME RatesRight, txn \in Seq(Txn), NEW t \in DOMAIN txn, QuoteOf(t) # NoQuote
    PROVE  InrOf(t) \in Nat
<1>1. txn[t].amount \in Nat /\ txn[t].day \in Nat /\ txn[t].ccy \in DOMAIN _CURRENCY_EXPONENTS
  <2>1. txn[t] \in Txn
    BY Columns
  <2>2. QED
    BY <2>1 DEF Txn
<1>2. PICK rate \in Nat : rate = QuoteOf(t).rate
  BY <1>1, QuoteRate DEF QuoteOf
<1>3. PICK d \in Nat : d > 0 /\ d = RateUnit * Pow10(_CURRENCY_EXPONENTS[txn[t].ccy])
  <2>1. _CURRENCY_EXPONENTS[txn[t].ccy] \in {0, 2, 3}
    BY <1>1 DEF _CURRENCY_EXPONENTS
  <2>2. Pow10(0) = 1 /\ Pow10(2) = 100 /\ Pow10(3) = 1000
    BY DEF Pow10
  <2>3. QED
    BY <2>1, <2>2, RateAssumption
<1>4. Pow10(_CURRENCY_EXPONENTS["INR"]) = 100
  BY DEF Pow10, _CURRENCY_EXPONENTS
<1>5. txn[t].amount * rate * 100 \in Nat
  BY <1>1
<1>6. RoundHalfEven(txn[t].amount * rate * 100, d) \in Nat
  BY <1>3, <1>5, RoundedNat
<1>7. QED
  BY <1>1, <1>2, <1>3, <1>4, <1>6 DEF InrOf, to_inr_minor

\* No step brings in a rate that is no number.
LEMMA RatesRightStep ==
    ASSUME RatesRight, [MatchingNext]_matchingVars
    PROVE  RatesRight'
<1>1. CASE UNCHANGED <<rates, quoted>>
  BY <1>1 DEF RatesRight
<1>2. ASSUME NEW ts, AskRates(ts), rates' = rates PROVE RatesRight'
  <2> DEFINE keys == {<<txn[t].ccy, txn[t].day>> : t \in {u \in ts : txn[u].ccy # "INR"}}
  <2>1. quoted' = [k \in DOMAIN quoted \cup keys |-> quote(k[1], k[2])]
    BY <1>2 DEF AskRates
  <2> HIDE DEF keys
  <2>2. \A k \in DOMAIN quoted' : k[2] \in Nat => quoted'[k].rate \in Nat
    BY <2>1, QuoteRate
  <2>3. QED
    BY <1>2, <2>2 DEF RatesRight
<1>3. CASE NewRun
  <2>1. quoted' = <<>> /\ rates' = rates
    BY <1>3 DEF NewRun, fx_fixed
  <2>2. DOMAIN quoted' = {}
    BY <2>1
  <2>3. QED
    BY <2>1, <2>2 DEF RatesRight
<1>4. CASE upload_fx_rates
  <2>1. PICK file \in RateFiles : rates' = insert_many(rates, file)
    BY <1>4 DEF upload_fx_rates
  <2>2. ASSUME NEW r \in rates' PROVE RateFormed(r)
    <3>1. CASE r \in rates
      BY <3>1 DEF RatesRight
    <3>2. CASE r \in _flag_outliers(file)
      <4>1. PICK q \in file : \E b : r = [q EXCEPT !.suspect = b]
        BY <3>2 DEF _flag_outliers
      <4>2. q \in FxRate
        BY RatesAssumption
      <4>3. QED
        BY <4>1, <4>2 DEF FxRate, RateFormed
    <3>3. QED
      BY <2>1, <2>2, <3>1, <3>2 DEF insert_many
  <2>3. quoted' = quoted
    BY <1>4 DEF upload_fx_rates
  <2>4. QED
    BY <2>2, <2>3 DEF RatesRight
<1>5. CASE Split \/ Netted
  <2>1. rates' = rates
    BY <1>5 DEF Split, Netted, Look, fx_fixed
  <2>2. QED
    BY <1>1, <1>2, <1>5, <2>1 DEF Split, Netted, GroupStage, Group
<1>6. CASE Cross
  <2>1. rates' = rates
    BY <1>6 DEF Cross, Look, fx_fixed
  <2>2. QED
    BY <1>1, <1>2, <1>6, <2>1 DEF Cross
<1>7. CASE classify_unmatched \/ classify_pending_review \/ classify_matched \/ classify_groups
  BY <1>2, <1>7 DEF classify_unmatched, classify_pending_review, classify_matched,
     classify_groups, Pass, fx_fixed
<1>8. CASE SetBasedExact \/ Exact \/ GroupFails \/ Fuzzy \/ RuleBased \/ NextStage
  BY <1>1, <1>8 DEF SetBasedExact, Exact, GroupFails, Fuzzy, RuleBased, NextStage, Look, fx_fixed
<1>9. CASE UNCHANGED matchingVars
  BY <1>1, <1>9 DEF matchingVars
<1>10. QED
  BY <1>3, <1>4, <1>5, <1>6, <1>7, <1>8, <1>9 DEF MatchingNext

-----------------------------------------------------------------------------
(* Groups.                                                                 *)

\* What transactions come to, in paise and in their own minor units.
Rupees(ts) == SumFunction([t \in ts |-> InrOf(t)])
Amounts(ts) == SumFunction([t \in ts |-> txn[t].amount])

\* What Choose takes of the candidates sums to something within the bounds.
LEMMA ChosenSum ==
    ASSUME txn \in Seq(Txn), NEW cands, cands \subseteq DOMAIN txn,
           NEW value, \A t \in cands : value[t] \in Int,
           NEW low \in Int, NEW high \in Int, NEW legs,
           legs = [amounts |-> [j \in 1 .. Len(InOrder(cands)) |-> value[InOrder(cands)[j]]],
                   low |-> low, high |-> high, max |-> MaxMembers],
           Choose(cands, legs) # {}
    PROVE  /\ Choose(cands, legs) \subseteq cands
           /\ SumFunction([t \in Choose(cands, legs) |-> value[t]]) \in low .. high
<1> DEFINE N == Cardinality(cands)
           order == InOrder(cands)
           chosen == Choose(cands, legs)
           h == [t \in chosen |-> value[t]]
           found == find_unique_subset(legs).indices
<1>1. /\ N \in Nat /\ order \in [1 .. N -> cands]
      /\ \A i, j \in 1 .. N : order[i] = order[j] => i = j
      /\ \A t \in cands : \E j \in 1 .. N : order[j] = t
  BY Listed
<1>2. Len(order) = N
  BY <1>1
<1>3. /\ legs.amounts = [j \in 1 .. N |-> value[order[j]]] /\ legs.low = low /\ legs.high = high
      /\ legs.max = MaxMembers /\ DOMAIN legs.amounts = 1 .. N /\ Len(legs.amounts) = N
  BY <1>1, <1>2
<1>4. \A j \in 1 .. N : legs.amounts[j] = value[order[j]] /\ legs.amounts[j] \in Int
  BY <1>1, <1>3
<1>5. legs \in SearchInput
  <2>1. legs.amounts \in Seq(Int)
    BY <1>1, <1>3, <1>4
  <2>2. MaxMembers \in Nat
    BY MatchingAssumption
  <2>3. legs = [amounts |-> legs.amounts, low |-> low, high |-> high, max |-> MaxMembers]
    OBVIOUS
  <2>4. QED
    BY <2>1, <2>2, <2>3 DEF SearchInput
<1>6. ASSUME NEW J \in SUBSET (1 .. N), chosen = {order[j] : j \in J},
             SumFunctionOnSet(legs.amounts, J) \in low .. high
      PROVE  SumFunction(h) \in low .. high
  <2>1. IsFiniteSet(J)
    <3> HIDE DEF N
    <3>1. IsFiniteSet(1 .. N)
      BY <1>1, FS_Interval
    <3>2. QED
      BY <3>1, FS_Subset
  <2>2. \A j \in J : order[j] \in chosen
    BY <1>6
  <2>3. \A j \in J : legs.amounts[j] = h[order[j]] /\ legs.amounts[j] \in Int
    BY <1>4, <2>2
  <2>4. \A i, j \in J : order[i] = order[j] => i = j
    BY <1>1
  <2>5. DOMAIN h = chosen
    OBVIOUS
  <2> HIDE DEF h, chosen, order, N
  <2>6. SumFunctionOnSet(legs.amounts, J) = SumFunctionOnSet(h, chosen)
    <3>1. Reindexed(legs.amounts, J, order, h, chosen)
      BY <1>6, <2>3, <2>4, Zenon DEF Reindexed
    <3>2. QED
      BY <2>1, <3>1, SumReindex
  <2>7. SumFunction(h) = SumFunctionOnSet(h, chosen)
    BY <2>5 DEF SumFunction
  <2>8. QED
    BY <1>6, <2>6, <2>7
<1>7. chosen \subseteq cands
  BY DEF Choose
<1>8. CASE Cardinality(cands) <= MaxMembers /\ SumFunction(legs.amounts) \in legs.low .. legs.high
  <2>1. chosen = cands
    BY <1>8 DEF Choose
  <2>2. chosen = {order[j] : j \in 1 .. N}
    <3> HIDE DEF order, N, chosen
    <3>1. (\A j \in 1 .. N : order[j] \in cands) /\ \A t \in cands : \E j \in 1 .. N : order[j] = t
      BY <1>1
    <3>2. QED
      BY <2>1, <3>1
  <2>3. SumFunctionOnSet(legs.amounts, 1 .. N) \in low .. high
    BY <1>3, <1>8 DEF SumFunction
  <2> HIDE DEF chosen, order, N, h
  <2>4. QED
    BY <1>6, <1>7, <2>2, <2>3 DEF chosen, h
<1>9. CASE ~(Cardinality(cands) <= MaxMembers /\ SumFunction(legs.amounts) \in legs.low .. legs.high)
  <2>1. chosen = {c \in cands : \E j \in found : order[j] = c} /\ found # {}
    BY <1>9 DEF Choose
  <2>2. Means(legs, find_unique_subset(legs))
    BY <1>5, FoundMeans
  <2>3. found \in Fitting(legs)
    BY <2>1, <2>2 DEF Means
  <2>4. found \in SUBSET (1 .. N) /\ SumFunctionOnSet(legs.amounts, found) \in low .. high
    BY <1>3, <2>3 DEF Fitting
  <2>5. chosen = {order[j] : j \in found}
    <3> HIDE DEF order, N, chosen, found
    <3>1. \A j \in found : order[j] \in cands
      BY <1>1, <2>4
    <3>2. QED
      BY <2>1, <3>1
  <2> HIDE DEF chosen, order, N, h, found
  <2>6. QED
    BY <1>6, <1>7, <2>4, <2>5 DEF chosen, h
<1>10. QED
  BY <1>8, <1>9

\* The sum over one transaction is its value.
LEMMA SumAlone ==
    ASSUME NEW s, NEW f, DOMAIN f = {s}, f[s] \in Int
    PROVE  SumFunction(f) = f[s]
BY SumOne DEF SumFunction

\* So is the value of one side in rupees.
LEMMA RupeesAlone ==
    ASSUME NEW s, InrOf(s) \in Int
    PROVE  Rupees({s}) = InrOf(s)
<1> DEFINE f == [t \in {s} |-> InrOf(t)]
<1>1. DOMAIN f = {s} /\ f[s] = InrOf(s)
  OBVIOUS
<1>2. Rupees({s}) = SumFunction(f)
  BY DEF Rupees
<1> HIDE DEF f
<1>3. QED
  BY <1>1, <1>2, SumAlone

\* And in its own currency.
LEMMA AmountsAlone ==
    ASSUME NEW s, txn[s].amount \in Int
    PROVE  Amounts({s}) = txn[s].amount
<1> DEFINE f == [t \in {s} |-> txn[t].amount]
<1>1. DOMAIN f = {s} /\ f[s] = txn[s].amount
  OBVIOUS
<1>2. Amounts({s}) = SumFunction(f)
  BY DEF Amounts
<1> HIDE DEF f
<1>3. QED
  BY <1>1, <1>2, SumAlone

\* What a kind of link has found for s: its members agree with s.
Fits(s, f) ==
    /\ f.members \subseteq DOMAIN txn
    /\ \A t \in f.members : txn[t].dir = txn[s].dir
    /\ f.inr => /\ {s} \cup f.members \subseteq f.asked
                /\ InrOf(s) \in Int
                /\ WithinPercent(InrOf(s), Rupees(f.members), FxTolerance)
                /\ WithinPercent(Rupees(f.members), InrOf(s), FxTolerance)
    /\ ~f.inr => /\ ~Mixed({s} \cup f.members)
                 /\ Distance(txn[s].amount, Amounts(f.members)) <= AmountTolerance
                 /\ Distance(Amounts(f.members), txn[s].amount) <= AmountTolerance

\* Fewer transactions have no more currencies.
LEMMA MixedFewer ==
    ASSUME txn \in Seq(Txn), NEW S, S \subseteq DOMAIN txn, NEW T, T \subseteq S, Mixed(T)
    PROVE  Mixed(S)
<1> DEFINE of(X) == {txn[t].ccy : t \in X}
<1>1. of(T) \subseteq of(S)
  OBVIOUS
<1>2. IsFiniteSet(of(S))
  <2>1. IsFiniteSet(S)
    BY LedgerFinite
  <2> DEFINE f == [t \in S |-> txn[t].ccy]
  <2>2. of(S) = {f[t] : t \in S} /\ f = [t \in S |-> f[t]]
    OBVIOUS
  <2> HIDE DEF f, of
  <2>3. QED
    BY <2>1, <2>2, ImageFinite
<1>3. Cardinality(of(T)) > 1
  BY DEF Mixed
<1> HIDE DEF of
<1>4. Cardinality(of(T)) \in Nat /\ Cardinality(of(S)) \in Nat /\ Cardinality(of(T)) <= Cardinality(of(S))
  BY <1>1, <1>2, FS_Subset, FS_CardinalityType
<1>5. QED
  BY <1>3, <1>4 DEF Mixed, of

\* All lookups succeeded: all were made.
LEMMA AllAsked ==
    ASSUME NEW s, NEW ts, \A t \in {s} \cup ts : QuoteOf(t) # NoQuote
    PROVE  Asked(s, ts) = {s} \cup ts
BY DEF Asked

\* The members that are chosen among transactions of several currencies.
LEMMA FitsRupees ==
    ASSUME RatesRight, txn \in Seq(Txn), NEW s \in DOMAIN txn, NEW cands,
           cands \subseteq DOMAIN txn, Mixed({s} \cup cands),
           \A t \in {s} \cup cands : QuoteOf(t) # NoQuote,
           NEW members, members = Choose(cands, _legs(s, cands)), members # {}
    PROVE  /\ members \subseteq cands /\ InrOf(s) \in Int
           /\ WithinPercent(InrOf(s), Rupees(members), FxTolerance)
           /\ WithinPercent(Rupees(members), InrOf(s), FxTolerance)
<1> DEFINE value == [t \in {s} \cup cands |-> InrOf(t)]
           low == CeilDiv(InrOf(s) * (20000 - FxTolerance), 20000 + FxTolerance)
           high == (InrOf(s) * (20000 + FxTolerance)) \div (20000 - FxTolerance)
           legs == [amounts |-> [j \in 1 .. Len(InOrder(cands)) |-> value[InOrder(cands)[j]]],
                    low |-> low, high |-> high, max |-> MaxMembers]
<1>1. \A t \in {s} \cup cands : InrOf(t) \in Nat
  BY ValueNat
<1>2. low \in Int /\ high \in Int
  <2>1. PICK f \in Nat : f = FxTolerance /\ f < 20000
    BY FindingsAssumption, ToleranceAssumption
  <2>2. PICK v \in Nat : v = InrOf(s)
    BY <1>1
  <2>3. PICK a \in Nat, b \in Nat : a = 20000 - f /\ b = 20000 + f /\ a > 0 /\ b > 0
    BY <2>1
  <2>4. v * b \in Int /\ v * a + b - 1 \in Int
    BY <2>3
  <2>5. (v * b) \div a \in Int /\ (v * a + b - 1) \div b \in Int
    BY <2>3, <2>4, Division
  <2>6. QED
    BY <2>1, <2>2, <2>3, <2>5 DEF CeilDiv
<1>3. _legs(s, cands) = legs
  <2>1. Cardinality(cands) \in Nat /\ Len(InOrder(cands)) = Cardinality(cands)
        /\ InOrder(cands) \in [1 .. Cardinality(cands) -> cands]
    BY Listed
  <2>2. \A j \in 1 .. Len(InOrder(cands)) : value[InOrder(cands)[j]] = InrOf(InOrder(cands)[j])
    BY <2>1
  <2> HIDE DEF value
  <2>3. [j \in 1 .. Len(InOrder(cands)) |-> InrOf(InOrder(cands)[j])]
        = [j \in 1 .. Len(InOrder(cands)) |-> value[InOrder(cands)[j]]]
    BY <2>2, Zenon
  <2>4. _legs(s, cands) =
           [amounts |-> [j \in 1 .. Len(InOrder(cands)) |-> InrOf(InOrder(cands)[j])],
            low |-> low, high |-> high, max |-> MaxMembers]
    BY DEF _legs
  <2> HIDE DEF low, high
  <2>5. QED
    BY <2>3, <2>4
<1>4. \A t \in cands : value[t] \in Int
  BY <1>1
<1>5. members = Choose(cands, legs)
  BY <1>3
<1> HIDE DEF low, high
<1>6. /\ members \subseteq cands
      /\ SumFunction([t \in members |-> value[t]]) \in low .. high
  <2> HIDE DEF value
  <2>1. PICK l : l = legs
    OBVIOUS
  <2>2. Choose(cands, l) # {}
    BY <1>5, <2>1
  <2>3. /\ Choose(cands, l) \subseteq cands
        /\ SumFunction([t \in Choose(cands, l) |-> value[t]]) \in low .. high
    BY <1>2, <1>4, <2>1, <2>2, ChosenSum
  <2>4. QED
    BY <1>5, <2>1, <2>3
<1>7. [t \in members |-> value[t]] = [t \in members |-> InrOf(t)]
  BY <1>6
<1>8. Rupees(members) \in low .. high
  BY <1>6, <1>7 DEF Rupees
<1>9. PICK w \in Int : w = Rupees(members) /\ low <= w /\ w <= high
  BY <1>2, <1>8
<1>10. InrOf(s) \in Nat
  BY <1>1
<1>11. WithinPercent(InrOf(s), w, FxTolerance) /\ WithinPercent(w, InrOf(s), FxTolerance)
  BY <1>9, <1>10, BoundsAgree DEF low, high
<1>12. QED
  BY <1>6, <1>9, <1>10, <1>11

\* The members that are chosen among transactions of one currency.
LEMMA FitsAmounts ==
    ASSUME txn \in Seq(Txn), NEW s \in DOMAIN txn, NEW cands,
           cands \subseteq DOMAIN txn, ~Mixed({s} \cup cands),
           NEW members, members = Choose(cands, _legs(s, cands)), members # {}
    PROVE  /\ members \subseteq cands /\ ~Mixed({s} \cup members)
           /\ Distance(txn[s].amount, Amounts(members)) <= AmountTolerance
           /\ Distance(Amounts(members), txn[s].amount) <= AmountTolerance
<1> DEFINE value == [t \in {s} \cup cands |-> txn[t].amount]
           low == txn[s].amount - AmountTolerance
           high == txn[s].amount + AmountTolerance
           legs == [amounts |-> [j \in 1 .. Len(InOrder(cands)) |-> value[InOrder(cands)[j]]],
                    low |-> low, high |-> high, max |-> MaxMembers]
<1>1. \A t \in {s} \cup cands : txn[t].amount \in Nat
  BY Columns
<1>2. low \in Int /\ high \in Int
  BY <1>1, ScoringAssumption
<1>3. _legs(s, cands) = legs
  <2>1. Cardinality(cands) \in Nat /\ Len(InOrder(cands)) = Cardinality(cands)
        /\ InOrder(cands) \in [1 .. Cardinality(cands) -> cands]
    BY Listed
  <2>2. \A j \in 1 .. Len(InOrder(cands)) : value[InOrder(cands)[j]] = txn[InOrder(cands)[j]].amount
    BY <2>1
  <2> HIDE DEF value
  <2>3. [j \in 1 .. Len(InOrder(cands)) |-> txn[InOrder(cands)[j]].amount]
        = [j \in 1 .. Len(InOrder(cands)) |-> value[InOrder(cands)[j]]]
    BY <2>2, Zenon
  <2>4. _legs(s, cands) =
           [amounts |-> [j \in 1 .. Len(InOrder(cands)) |-> txn[InOrder(cands)[j]].amount],
            low |-> low, high |-> high, max |-> MaxMembers]
    BY DEF _legs
  <2> HIDE DEF low, high
  <2>5. QED
    BY <2>3, <2>4
<1>4. \A t \in cands : value[t] \in Int
  BY <1>1
<1>5. members = Choose(cands, legs)
  BY <1>3
<1> HIDE DEF low, high
<1>6. /\ members \subseteq cands
      /\ SumFunction([t \in members |-> value[t]]) \in low .. high
  <2> HIDE DEF value
  <2>1. PICK l : l = legs
    OBVIOUS
  <2>2. Choose(cands, l) # {}
    BY <1>5, <2>1
  <2>3. /\ Choose(cands, l) \subseteq cands
        /\ SumFunction([t \in Choose(cands, l) |-> value[t]]) \in low .. high
    BY <1>2, <1>4, <2>1, <2>2, ChosenSum
  <2>4. QED
    BY <1>5, <2>1, <2>3
<1>7. [t \in members |-> value[t]] = [t \in members |-> txn[t].amount]
  BY <1>6
<1>8. Amounts(members) \in low .. high
  BY <1>6, <1>7 DEF Amounts
<1>9. PICK w \in Int : w = Amounts(members) /\ low <= w /\ w <= high
  BY <1>2, <1>8
<1>10. txn[s].amount \in Nat
  BY <1>1
<1>11. Distance(txn[s].amount, w) <= AmountTolerance /\ Distance(w, txn[s].amount) <= AmountTolerance
  BY <1>9, <1>10, ToleranceAgree DEF low, high
<1>12. ~Mixed({s} \cup members)
  <2>1. {s} \cup members \subseteq {s} \cup cands /\ {s} \cup cands \subseteq DOMAIN txn
    BY <1>6
  <2>2. QED
    BY <2>1, MixedFewer
<1>13. QED
  BY <1>6, <1>9, <1>11, <1>12

\* What one kind of link finds fits.
LEMMA FitFits ==
    ASSUME RatesRight, txn \in Seq(Txn), pool \subseteq DOMAIN txn, NEW s \in DOMAIN txn,
           NEW linked, NEW confidence, NEW f, f = _fit(s, _candidates(s, linked), confidence),
           f.members # {}
    PROVE  Fits(s, f)
<1> DEFINE cands == _candidates(s, linked)
<1>1. cands \subseteq DOMAIN txn /\ \A c \in cands : txn[c].dir = txn[s].dir
  BY DEF _candidates
<1> HIDE DEF cands
<1> DEFINE mixed == Mixed({s} \cup cands)
           known == ~mixed \/ \A t \in {s} \cup cands : QuoteOf(t) # NoQuote
           enough == Cardinality(cands) >= 2
<1>2. /\ f.members = IF enough /\ known THEN Choose(cands, _legs(s, cands)) ELSE {}
      /\ f.asked = IF mixed /\ enough THEN Asked(s, cands) ELSE {}
      /\ f.inr = mixed
  BY DEF _fit, cands
<1>3. enough /\ known /\ f.members = Choose(cands, _legs(s, cands))
  BY <1>2
<1>4. CASE mixed
  <2>1. \A t \in {s} \cup cands : QuoteOf(t) # NoQuote
    BY <1>3, <1>4
  <2>2. /\ f.members \subseteq cands /\ InrOf(s) \in Int
        /\ WithinPercent(InrOf(s), Rupees(f.members), FxTolerance)
        /\ WithinPercent(Rupees(f.members), InrOf(s), FxTolerance)
    BY <1>1, <1>3, <1>4, <2>1, FitsRupees
  <2>3. f.inr /\ f.asked = {s} \cup cands
    BY <1>2, <1>3, <1>4, <2>1, AllAsked
  <2>4. QED
    BY <1>1, <2>2, <2>3 DEF Fits
<1>5. CASE ~mixed
  <2>1. /\ f.members \subseteq cands /\ ~Mixed({s} \cup f.members)
        /\ Distance(txn[s].amount, Amounts(f.members)) <= AmountTolerance
        /\ Distance(Amounts(f.members), txn[s].amount) <= AmountTolerance
    BY <1>1, <1>3, <1>5, FitsAmounts
  <2>2. ~f.inr
    BY <1>2, <1>5
  <2>3. QED
    BY <1>1, <2>1, <2>2 DEF Fits
<1>6. QED
  BY <1>4, <1>5

\* Whichever of the two links is taken.
LEMMA SolveFits ==
    ASSUME RatesRight, txn \in Seq(Txn), pool \subseteq DOMAIN txn, NEW s \in DOMAIN txn,
           _solve(s).members # {}
    PROVE  Fits(s, _solve(s))
<1> DEFINE a == _fit(s, _candidates(s, SharedStem(s)), CONFIDENCE_STEM)
           b == _fit(s, _candidates(s, SharedParty(s)), CONFIDENCE_COUNTERPARTY)
           c == [b EXCEPT !.asked = b.asked \cup a.asked]
<1>1. _solve(s) = IF a.members # {} THEN a ELSE c
  BY DEF _solve, Prefer
<1>2. c.members = b.members /\ c.inr = b.inr /\ b.asked \subseteq c.asked
  BY DEF _fit
<1>3. CASE a.members # {}
  <2>1. Fits(s, a)
    BY <1>3, FitFits, Zenon
  <2> HIDE DEF a, c
  <2>2. QED
    BY <1>1, <1>3, <2>1
<1>4. CASE a.members = {}
  <2>1. PICK x : x = b
    OBVIOUS
  <2>2. _solve(s) = c
    <3> HIDE DEF a, c
    <3> QED BY <1>1, <1>4
  <2>3. x.members # {}
    <3> HIDE DEF a, b, c
    <3> QED BY <1>2, <2>1, <2>2
  <2>4. Fits(s, x)
    BY <2>1, <2>3, FitFits, Zenon
  <2> HIDE DEF a, b, c
  <2>5. QED
    BY <1>2, <2>1, <2>2, <2>4 DEF Fits
<1>5. QED
  BY <1>3, <1>4

-----------------------------------------------------------------------------
(* The groups of a run.                                                    *)

\* Matches that are groups.
GroupTypes == {"SPLIT", "NETTED"}

\* The two sides of a group agree, and were compared at rates that stay.
GroupAgreed(m) ==
    /\ \A t, u \in m.int \cup m.ext : txn[t].dir = txn[u].dir
    /\ m.inr => /\ \A t \in m.int \cup m.ext : Pinned(t)
                /\ WithinPercent(Rupees(m.int), Rupees(m.ext), FxTolerance)
    /\ ~m.inr => /\ ~Mixed(m.int \cup m.ext)
                 /\ Distance(Amounts(m.int), Amounts(m.ext)) <= AmountTolerance

GroupsAgreed == \A m \in OfRun(GroupTypes, "AUTO_MATCHED") : GroupAgreed(m)

\* Sums at rates in the cache stay, whatever files are loaded.
LEMMA SumsStay ==
    ASSUME NEW ts, \A t \in ts : InrOf(t)' = InrOf(t), txn' = txn
    PROVE  Rupees(ts)' = Rupees(ts) /\ Amounts(ts)' = Amounts(ts) /\ (Mixed(ts)' <=> Mixed(ts))
<1>1. [t \in ts |-> InrOf(t)]' = [t \in ts |-> InrOf(t)]
  OBVIOUS
<1>2. QED
  BY <1>1 DEF Rupees, Amounts, Mixed

\* So does the agreement of a group.
LEMMA GroupAgreedStays ==
    ASSUME NEW m, GroupAgreed(m), RatesStay, txn' = txn
    PROVE  GroupAgreed(m)'
<1>1. CASE m.inr
  <2>1. \A t \in m.int \cup m.ext : Pinned(t)' /\ InrOf(t)' = InrOf(t)
    BY <1>1, PinnedStays DEF GroupAgreed
  <2>2. Rupees(m.int)' = Rupees(m.int) /\ Rupees(m.ext)' = Rupees(m.ext)
    BY <2>1, SumsStay
  <2>3. QED
    BY <1>1, <2>1, <2>2 DEF GroupAgreed
<1>2. CASE ~m.inr
  <2>1. Amounts(m.int)' = Amounts(m.int) /\ Amounts(m.ext)' = Amounts(m.ext)
    BY DEF Amounts
  <2>2. Mixed(m.int \cup m.ext)' <=> Mixed(m.int \cup m.ext)
    BY DEF Mixed
  <2>3. QED
    BY <1>2, <2>1, <2>2 DEF GroupAgreed
<1>3. QED
  BY <1>1, <1>2

\* Whatever a step records, its groups agree.
LEMMA GroupsKept ==
    ASSUME GroupsAgreed, RatesStay, txn' = txn, runs' = runs,
           \A m \in matches' : m \in matches \/ m.type \notin GroupTypes \/ GroupAgreed(m)'
    PROVE  GroupsAgreed'
<1>1. ASSUME NEW m \in OfRun(GroupTypes, "AUTO_MATCHED")' PROVE GroupAgreed(m)'
  <2>1. CASE m \in matches
    <3>1. m \in OfRun(GroupTypes, "AUTO_MATCHED")
      BY <1>1, <2>1 DEF OfRun
    <3>2. QED
      BY <3>1, GroupAgreedStays DEF GroupsAgreed
  <2>2. QED
    BY <1>1, <2>1 DEF OfRun
<1>2. QED
  BY <1>1 DEF GroupsAgreed

\* A group that fits agrees, at the rates the stage asked for.
LEMMA FitsAgrees ==
    ASSUME CacheAnswers, txn \in Seq(Txn), txn' = txn, NEW s \in DOMAIN txn, NEW f, Fits(s, f),
           AskRates(f.asked), NEW m, m.inr = f.inr,
           \/ m.int = {s} /\ m.ext = f.members
           \/ m.int = f.members /\ m.ext = {s}
    PROVE  GroupAgreed(m)'
<1>1. m.int \cup m.ext = {s} \cup f.members
  OBVIOUS
<1>2. \A t, u \in m.int \cup m.ext : txn[t].dir = txn[u].dir
  BY <1>1 DEF Fits
<1>3. CASE f.inr
  <2>1. \A t \in m.int \cup m.ext : Pinned(t)' /\ InrOf(t)' = InrOf(t)
    BY <1>1, <1>3, AskedStays DEF Fits
  <2>2. Rupees(m.int)' = Rupees(m.int) /\ Rupees(m.ext)' = Rupees(m.ext)
    BY <2>1, SumsStay
  <2>3. Rupees({s}) = InrOf(s)
    BY <1>3, RupeesAlone DEF Fits
  <2>4. WithinPercent(Rupees(m.int), Rupees(m.ext), FxTolerance)
    BY <1>3, <2>3 DEF Fits
  <2>5. QED
    BY <1>2, <1>3, <2>1, <2>2, <2>4 DEF GroupAgreed
<1>4. CASE ~f.inr
  <2>1. Amounts(m.int)' = Amounts(m.int) /\ Amounts(m.ext)' = Amounts(m.ext)
    BY DEF Amounts
  <2>2. Mixed(m.int \cup m.ext)' <=> Mixed({s} \cup f.members)
    BY <1>1 DEF Mixed
  <2>3. Amounts({s}) = txn[s].amount
    <3>1. txn[s].amount \in Int
      BY Columns
    <3>2. QED
      BY <3>1, AmountsAlone
  <2>4. Distance(Amounts(m.int), Amounts(m.ext)) <= AmountTolerance
    BY <1>4, <2>3 DEF Fits
  <2>5. ~Mixed({s} \cup f.members)
    BY <1>4 DEF Fits
  <2>6. QED
    BY <1>2, <1>4, <2>1, <2>2, <2>4, <2>5 DEF GroupAgreed
<1>5. QED
  BY <1>3, <1>4

\* The group stages record groups that fit.
LEMMA GroupStageKeeps ==
    ASSUME Decided, RatesRight, GroupsAgreed, Split \/ Netted
    PROVE  GroupsAgreed'
<1>1. PICK st \in {"split", "netted"}, kind \in {"SPLIT", "NETTED"} :
         Look(st) /\ GroupStage(kind, First(queue))
  BY DEF Split, Netted
<1>2. Formed /\ CacheAnswers /\ pool \subseteq DOMAIN txn /\ queue \subseteq DOMAIN txn /\ txn \in Seq(Txn)
  BY DEF Decided, Formed, DecisionTypes
<1>3. txn' = txn /\ runs' = runs /\ queue # {}
  BY <1>1 DEF Look, run_fixed
<1>4. CASE UNCHANGED <<matches, quoted, used>>
  <2>1. RatesStay
    BY <1>2, <1>4, NoRates
  <2>2. QED
    BY <1>3, <1>4, <2>1, GroupsKept
<1>5. CASE Group(First(queue), kind, _solve(First(queue)))
  <2>1. PICK s \in DOMAIN txn : s = First(queue)
    BY <1>2, <1>3, FirstIn
  <2>2. PICK f : f = _solve(s)
    OBVIOUS
  <2> DEFINE int == IF kind = "SPLIT" THEN {s} ELSE f.members
             ext == IF kind = "SPLIT" THEN f.members ELSE {s}
             new == IF f.members = {} THEN {}
                    ELSE {Result(kind, "AUTO_MATCHED", int, ext, f.confidence, f.inr)}
  <2>3. AskRates(f.asked) /\ matches' = matches \cup new
    BY <1>5, <2>1, <2>2 DEF Group, Record
  <2>4. ASSUME NEW m \in new PROVE GroupAgreed(m)'
    <3>1. f.members # {} /\ m = Result(kind, "AUTO_MATCHED", int, ext, f.confidence, f.inr)
      <4> HIDE DEF int, ext
      <4> QED BY <2>4
    <3>2. Fits(s, f)
      BY <1>2, <2>2, <3>1, SolveFits
    <3>3. m.inr = f.inr /\ m.int = int /\ m.ext = ext
      BY <3>1 DEF Result
    <3>4. QED
      BY <1>2, <1>3, <2>3, <3>2, <3>3, FitsAgrees
  <2>5. RatesStay
    BY <1>2, <2>3, Asking
  <2> HIDE DEF new
  <2>6. QED
    BY <1>3, <2>3, <2>4, <2>5, GroupsKept
<1>6. QED
  BY <1>1, <1>4, <1>5 DEF GroupStage

\* The other stages record pairs.
LEMMA PairStageKeeps ==
    ASSUME Decided, GroupsAgreed, SetBasedExact \/ Exact \/ Cross \/ Fuzzy \/ RuleBased
    PROVE  GroupsAgreed'
<1>1. txn' = txn /\ runs' = runs /\ CacheAnswers
  BY DEF SetBasedExact, Exact, Cross, Fuzzy, RuleBased, Look, run_fixed, Decided, Formed
<1>2. RatesStay
  BY <1>1, NoRates, Asking DEF SetBasedExact, Exact, Cross, Fuzzy, RuleBased
<1>3. \A m \in matches' : m \in matches \/ m.type \notin GroupTypes
  <2>1. CASE SetBasedExact
    <3>1. PICK pairs : matches' = matches \cup
             {Result("EXACT", "AUTO_MATCHED", {p[1]}, {p[2]}, 1000, FALSE) : p \in pairs}
      BY <2>1 DEF SetBasedExact
    <3>2. QED
      BY <3>1 DEF Result, GroupTypes
  <2>2. CASE Exact
    BY <2>2 DEF Exact, Record, Result, GroupTypes
  <2>3. CASE Cross
    BY <2>3 DEF Cross, Record, Result, GroupTypes
  <2>4. CASE Fuzzy
    BY <2>4 DEF Fuzzy, Record, Result, GroupTypes
  <2>5. CASE RuleBased
    BY <2>5 DEF RuleBased, Record, Result, GroupTypes
  <2>6. QED
    BY <2>1, <2>2, <2>3, <2>4, <2>5
<1>4. QED
  BY <1>1, <1>2, <1>3, GroupsKept, SMTT(40)

\* Every step keeps the groups' agreement.
LEMMA GroupsAgreedStep ==
    ASSUME Decided, RatesRight, GroupsAgreed, [MatchingNext]_matchingVars
    PROVE  GroupsAgreed'
<1>1. CASE Split \/ Netted
  BY <1>1, GroupStageKeeps
<1>2. CASE SetBasedExact \/ Exact \/ Cross \/ Fuzzy \/ RuleBased
  BY <1>2, PairStageKeeps
<1>3. ASSUME txn' = txn, runs' = runs, matches' = matches, RatesStay PROVE GroupsAgreed'
  BY <1>3, GroupsKept
<1>4. CASE upload_fx_rates \/ NextStage \/ UNCHANGED matchingVars
  <2>1. UNCHANGED <<txn, runs, matches, quoted, used>>
    BY <1>4 DEF upload_fx_rates, NextStage, matchingVars, run_fixed
  <2>2. QED
    BY <1>3, <2>1, NoRates DEF Decided, Formed
<1>5. CASE classify_unmatched \/ classify_pending_review \/ classify_matched \/ classify_groups
  <2>1. UNCHANGED <<txn, runs, matches>> /\ \E ts : AskRates(ts)
    BY <1>5 DEF classify_unmatched, classify_pending_review, classify_matched, classify_groups,
       Pass, run_fixed
  <2>2. QED
    BY <1>3, <2>1, Asking DEF Decided, Formed
<1>6. CASE GroupFails
  <2>1. runs' = runs /\ \A m \in matches' : m.run # runs
    BY <1>6 DEF GroupFails, run_fixed
  <2>2. QED
    BY <2>1 DEF GroupsAgreed, OfRun
<1>7. CASE NewRun
  <2>1. runs' = runs + 1 /\ matches' = matches /\ runs \in Nat
    BY <1>7 DEF NewRun, Decided, Formed, DecisionTypes
  <2>2. \A m \in matches : m.run \in Nat /\ m.run <= runs
    BY DEF Decided, Formed, MatchFormed
  <2>3. \A m \in matches' : m.run # runs'
    BY <2>1, <2>2
  <2>4. QED
    BY <2>3 DEF GroupsAgreed, OfRun
<1>8. QED
  BY <1>1, <1>2, <1>4, <1>5, <1>6, <1>7 DEF MatchingNext

-----------------------------------------------------------------------------
(* The theorems.                                                           *)

\* Every step keeps the invariant.
LEMMA DecidedStep ==
    ASSUME Decided, [MatchingNext]_matchingVars
    PROVE  Decided'
<1>1. CASE upload_fx_rates \/ UNCHANGED matchingVars
  <2>1. UNCHANGED <<txn, late, runs, stage, pool, queue, matches, raised, quoted, used>>
    BY <1>1 DEF upload_fx_rates, matchingVars, run_fixed
  <2>2. QED
    BY <2>1, RatesLoaded
<1>2. QED
  BY <1>1, SetBasedExactStep, ExactStep, CrossStep, GroupStep, GroupFailsStep, FuzzyStep,
     RuleBasedStep, NextStageStep, UnmatchedStep, ReviewStep, MatchedStep, GroupsStep, NewRunStep
     DEF MatchingNext

\* The invariant: the run's matches are formed and agree, its exceptions name
\* what their keys name, what is left over is named once, and holds are named
\* as soon as the pass that looks at them is over.
THEOREM Inductive == MatchingSpec => []Decided
<1>1. MatchingInit => Decided
  <2> SUFFICES ASSUME MatchingInit PROVE Decided
    OBVIOUS
  <2>1. /\ matches = {} /\ raised = {} /\ stage = "set" /\ runs = 1 /\ pool = {} /\ queue = {}
        /\ quoted = <<>> /\ used = {}
    BY DEF MatchingInit
  <2>2. txn \in Seq(Txn) /\ late \in Seq(Txn)
    BY LedgersAssumption DEF MatchingInit
  <2>3. DecisionTypes /\ NothingYet /\ stage \notin Classified
    BY <2>1, <2>2 DEF DecisionTypes, Unclassified, Looking, NothingYet, Classified
  <2>4. CacheAnswers
    <3>1. DOMAIN quoted = {}
      BY <2>1
    <3>2. QED
      BY <2>1, <3>1 DEF CacheAnswers
  <2>5. Formed
    BY <2>1, <2>3, <2>4 DEF Formed
  <2>6. PairsAgreed
    BY <2>1 DEF PairsAgreed, OfRun
  <2>7. QED
    BY <2>1, <2>3, <2>5, <2>6 DEF Decided, LeftoversExplained, HoldsNamed, HeldLeftNamed,
       HeldPairsNamed
<1>2. Decided /\ [MatchingNext]_matchingVars => Decided'
  BY DecidedStep
<1>3. QED
  BY <1>1, <1>2, PTL DEF MatchingSpec

\* A pair that is matched without asking a person agrees in direction and,
\* within the bank's tolerances, in amount: at the exact stage by the key, at
\* the cross-currency stage at the rates of the run, at the rules by their
\* tests, and at the fuzzy stage because the weights of weighted.py leave less
\* than the threshold when the amount or the date scores nothing.
THEOREM MatchedPairsAgree == MatchingSpec => []PairsAgree
<1>1. Decided => PairsAgree
  <2> SUFFICES ASSUME Decided, NEW m \in OfRun(PairTypes, "AUTO_MATCHED")
               PROVE  LET i == InternalOf(m)
                          e == ExternalOf(m)
                      IN  /\ txn[i].dir = txn[e].dir
                          /\ IF m.inr THEN WithinPercent(InrOf(i), InrOf(e), FxTolerance)
                             ELSE /\ txn[i].ccy = txn[e].ccy
                                  /\ Distance(txn[i].amount, txn[e].amount) <= ToleranceOf(m)
                          /\ m.type = "FUZZY" => Distance(txn[i].day, txn[e].day) <= 2
    BY DEF PairsAgree
  <2>1. Agreed(m)
    BY DEF Decided, PairsAgreed
  <2>2. QED
    BY <2>1 DEF Agreed
<1>2. QED
  BY <1>1, Inductive, PTL

\* The two sides of a group that is matched agree: one direction, and the sum
\* of the members is the other side's amount within the bank's tolerance or,
\* in rupees at the run's rates, within the FX tolerance.  The sums are those
\* that find_unique_subset was asked for (the search's theorem, FoundMeans),
\* the bounds of _legs are where the tolerance ends, and the rates it compared
\* at are in the run's cache for good.  With the pairs, everything a run
\* matches without asking a person agrees.
THEOREM MatchedAgree == MatchingSpec => []MatchesAgree
<1>1. MatchingInit => RatesRight /\ GroupsAgreed
  <2> SUFFICES ASSUME MatchingInit PROVE RatesRight /\ GroupsAgreed
    OBVIOUS
  <2>1. matches = {} /\ rates = FirstRates /\ quoted = <<>>
    BY DEF MatchingInit
  <2>2. DOMAIN quoted = {}
    BY <2>1
  <2>3. \A r \in rates : RateFormed(r)
    BY <2>1, RatesAssumption DEF RateFormed, FxRate
  <2>4. QED
    BY <2>1, <2>2, <2>3 DEF RatesRight, GroupsAgreed, OfRun
<1>2. Decided /\ RatesRight /\ GroupsAgreed /\ [MatchingNext]_matchingVars
      => RatesRight' /\ GroupsAgreed'
  BY RatesRightStep, GroupsAgreedStep
<1>3. GroupsAgreed => GroupsAgree
  <2> SUFFICES ASSUME GroupsAgreed, NEW m \in OfRun(GroupTypes, "AUTO_MATCHED")
               PROVE  /\ \A t, u \in m.int \cup m.ext : txn[t].dir = txn[u].dir
                      /\ IF m.inr
                         THEN WithinPercent(SumOf(m.int, InrOf), SumOf(m.ext, InrOf), FxTolerance)
                         ELSE /\ ~Mixed(m.int \cup m.ext)
                              /\ Distance(SumOf(m.int, AmountOf), SumOf(m.ext, AmountOf))
                                 <= AmountTolerance
    BY DEF GroupsAgree, GroupTypes
  <2>1. GroupAgreed(m)
    BY DEF GroupsAgreed
  <2>2. /\ SumOf(m.int, InrOf) = Rupees(m.int) /\ SumOf(m.ext, InrOf) = Rupees(m.ext)
        /\ SumOf(m.int, AmountOf) = Amounts(m.int) /\ SumOf(m.ext, AmountOf) = Amounts(m.ext)
    BY DEF SumOf, AmountOf, Rupees, Amounts
  <2>3. QED
    BY <2>1, <2>2 DEF GroupAgreed
<1>4. QED
  BY <1>1, <1>2, <1>3, Inductive, MatchedPairsAgree, PTL DEF MatchingSpec, MatchesAgree

\* Once a run has classified what is left over, every transaction no match has
\* is named by an exception, and by at most one of this run: the copies, the
\* pairs by reference and the singles of classify_unmatched are a partition,
\* and the passes over matches name only what is matched.
THEOREM NothingUnexplained == MatchingSpec => []LeftoversExplained
<1>1. Decided => LeftoversExplained
  BY DEF Decided
<1>2. QED
  BY <1>1, Inductive, PTL

\* When a run is done, a transaction on hold that is no copy and no member of a
\* group is named by a REGULATORY_HOLD that compliance has, whichever stage
\* matched it, in this run or an earlier one, and whatever it is worth.
THEOREM HoldsReported == MatchingSpec => []HoldsReachCompliance
<1>1. Decided => HoldsReachCompliance
  <2> SUFFICES ASSUME Decided, stage = "done", NEW t \in DOMAIN txn, has_regulatory_hold(txn[t]),
                      t \notin Duplicates,
                      \A m \in matches : m.type \notin PairTypes => t \notin m.int \cup m.ext
               PROVE  Named(t)
    BY DEF HoldsReachCompliance, Named
  <2>1. OnHold(t)
    BY DEF OnHold
  <2>2. CASE Free(t)
    BY <2>1, <2>2 DEF Decided, HoldsNamed, HeldLeftNamed, Classified
  <2>3. CASE ~Free(t)
    <3>1. PICK m \in matches : t \in m.int \cup m.ext
      BY <2>3 DEF Free, Claimed
    <3>2. m.type \in PairTypes
      BY <3>1
    <3>3. OneEach(m)
      BY <3>2 DEF Decided, Formed, MatchFormed
    <3>4. PassOver(m)
      BY <3>3 DEF OneEach, PassOver
    <3>5. QED
      BY <2>1, <3>1, <3>2, <3>4 DEF Decided, HoldsNamed, HeldPairsNamed
  <2>4. QED
    BY <2>2, <2>3
<1>2. QED
  BY <1>1, Inductive, PTL
=============================================================================

------------------------------- MODULE MCParts -------------------------------
(***************************************************************************)
(* Instances of the parts that share no state with one another: bank       *)
(* configurations, accounts, the decisions of a run, the subset search and *)
(* the reading of statements.                                              *)
(* A behaviour is one of one part; the others rest.                        *)
(***************************************************************************)
EXTENDS BankConfigs, Accounts, Matching, SubsetSearch, Statements

CONSTANT Parts   \* the parts to start

VARIABLE part

MCBanks == 1 .. 2

-----------------------------------------------------------------------------
(* Ledgers.                                                                *)

Ref(num) == [root |-> "PAY", num |-> num, part |-> 0, cut |-> FALSE]
Typo(num) == [Ref(num) EXCEPT !.root = "PYA"]
Cut(num) == [Ref(num) EXCEPT !.cut = TRUE]
Instalment(num, n) == [Ref(num) EXCEPT !.part = n]

I(ref, amount, day) ==
    [src |-> "INTERNAL", ref |-> ref, amount |-> amount, ccy |-> "INR", dir |-> "CR", day |-> day,
     hour |-> 12, party |-> "acme", note |-> "", settled |-> day, line |-> 0]
E(ref, amount, day) == [I(ref, amount, day) EXCEPT !.src = "EXTERNAL"]
In(ccy, t) == [t EXCEPT !.ccy = ccy]
Debit(t) == [t EXCEPT !.dir = "DR"]
Held(t) == [t EXCEPT !.note = "hold"]
Reversal(t) == [t EXCEPT !.note = "reversal"]
With(party, t) == [t EXCEPT !.party = party]
At(hour, t) == [t EXCEPT !.hour = hour]
Settled(day, t) == [t EXCEPT !.settled = day]

\* The transactions of one file, and those of a second one, with their lines.
Numbered(ts) == [j \in DOMAIN ts |-> [ts[j] EXCEPT !.line = j]]
Ledger(txns, later, apart) ==
    [txn |-> Numbered(txns), late |-> Numbered(later), rejected |-> apart]

MCLedgers == {
    \* keys with one and with several transactions, copies, a pair taken apart
    Ledger(<<I(Ref(1), 50, 1), E(Ref(1), 50, 2), I(Ref(2), 50, 1), I(Ref(2), 50, 3),
             E(Ref(2), 50, 3), E(Ref(2), 50, 3)>>, <<E(Ref(2), 50, 3)>>, {}),
    Ledger(<<I(Ref(1), 50, 1), E(Ref(1), 50, 1), Held(I(Ref(2), 50, 1)), E(Ref(2), 50, 2)>>,
           <<I(Ref(1), 50, 1)>>, {<<1, 2>>}),
    \* one reference, and nothing else alike; then two externals for it
    Ledger(<<I(Ref(1), 50, 1), Debit(E(Ref(1), 70, 1)), E(Ref(1), 90, 1)>>, <<>>, {}),
    Ledger(<<I(Ref(1), 50, 1), Debit(E(Ref(1), 70, 1)), Held(I(Ref(2), 50, 0)),
             Reversal(I(Ref(3), 400, 1))>>, <<Debit(E(Ref(1), 50, 1))>>, {}),
    Ledger(<<With("zeta", I(Ref(1), 50, 0)), With("zeta", I(Ref(2), 80, 0)), E(Ref(3), 20, 0),
             Held(E(Ref(4), 90, 0))>>, <<>>, {}),
    \* the peer is cut off the list until those before it are matched
    Ledger(<<I(Ref(1), 300, 1), I(Ref(2), 400, 1), E(Typo(1), 300, 1), E(Typo(2), 400, 1),
             I(Ref(3), 99, 4), E(Ref(3), 100, 4)>>, <<>>, {}),
    \* no references: as much as can be had without the date
    Ledger(<<I(NoRef, 50, 0), E(NoRef, 50, 3), I(NoRef, 70, 1), E(NoRef, 71, 1)>>, <<>>, {}),
    \* a hold on either side of a pair, matched or under review
    Ledger(<<Held(I(Ref(1), 50, 1)), E(Ref(1), 51, 1), I(Ref(3), 80, 1),
             Held(With("zeta", E(Ref(4), 80, 1)))>>, <<>>, {}),
    \* mistyped and cut references, the date and the amount not quite right
    Ledger(<<I(Ref(1), 50, 1), E(Typo(1), 50, 1), I(Ref(2), 80, 1),
             At(1, Settled(7, E(Cut(2), 80, 2)))>>, <<>>, {}),
    Ledger(<<With("acmeinc", I(Ref(1), 50, 1)), E(Ref(2), 50, 1), I(Ref(3), 99, 1),
             E(Ref(3), 100, 4)>>, <<>>, {}),
    Ledger(<<I(NoRef, 50, 1), Debit(E(NoRef, 50, 1)), I(Ref(3), 100, 1), E(Ref(3), 103, 1),
             In("USD", I(Ref(4), 50, 1)), In("JPY", E(Ref(4), 50, 1))>>, <<>>, {}),
    \* three decimals: 0.01 is more than the bank's tolerance
    Ledger(<<In("KWD", I(Ref(1), 300, 1)), In("KWD", With("zeta", E(Ref(1), 309, 4)))>>, <<>>, {}),
    \* foreign currency: a pair that agrees at one file's rate
    Ledger(<<In("USD", I(Ref(1), 100, 2)), E(Ref(1), 8000, 2),
             In("USD", I(Ref(2), 100, 2)), E(Ref(2), 9999, 2)>>, <<>>, {}),
    \* instalments; a netted settlement; a subset of the candidates
    Ledger(<<I(Ref(1), 50, 1), E(Instalment(1, 1), 20, 1), E(Instalment(1, 2), 30, 1),
             Held(I(Ref(2), 10, 1))>>, <<>>, {}),
    Ledger(<<With("zeta", I(Ref(1), 20, 1)), With("zeta", I(Ref(2), 30, 1)),
             With("zeta", I(Ref(3), 45, 1)), With("zeta", E(Ref(9), 50, 2)),
             Held(With("zeta", E(Ref(8), 12, 1)))>>, <<>>, {}),
    \* instalments in two currencies
    Ledger(<<I(Ref(1), 8000, 2), E(Instalment(1, 1), 4000, 2),
             In("USD", E(Instalment(1, 2), 50, 2))>>, <<>>, {})}

\* A rupee sum near enough at the FX tolerance, because a third instalment is
\* in dollars.
MCMixedLedgers == {
    Ledger(<<In("USD", I(Ref(1), 1000, 2)), In("USD", E(Instalment(1, 1), 400, 2)),
             In("USD", E(Instalment(1, 2), 605, 2)), E(Instalment(1, 3), 900, 2)>>, <<>>, {})}

\* With three legs in rupees the group has no foreign leg and the run fails.
MCFailingLedgers == {
    Ledger(<<I(Ref(1), 1000, 2), E(Instalment(1, 1), 400, 2), E(Instalment(1, 2), 605, 2),
             In("USD", E(Instalment(1, 3), 90, 2))>>, <<E(Ref(1), 1000, 2)>>, {})}

\* Every way an external may differ from the internal it belongs to.
MCPairLedgers ==
    {Ledger(<<I(Ref(1), 50, 1), [E(ref, amount, day) EXCEPT !.ccy = c, !.dir = d, !.note = n]>>,
            <<>>, {}) :
        ref \in {Ref(1), Typo(1), Cut(1), Ref(2), NoRef}, amount \in {50, 51, 52, 48},
        day \in 1 .. 4, c \in {"INR", "USD"}, d \in {"CR", "DR"}, n \in {"", "hold"}}

MCAllLedgers == MCLedgers \cup MCFailingLedgers \cup MCPairLedgers

Rate(ccy, day, rate, source) ==
    [currency |-> ccy, day |-> day, rate |-> rate, source |-> source, suspect |-> FALSE]
MCFirstRates == {Rate("USD", 1, 80, "FBIL")}
MCRateFiles == {
    {Rate("USD", 2, 90, "RBI"), Rate("JPY", 1, 1, "RBI")},
    {Rate("USD", 1, 50, "RBI"), Rate("USD", 0, 80, "RBI"), Rate("USD", 2, 81, "RBI")}}
MCNoFiles == {}
MCAlike == {{"PAY", "PYA"}, {"acme", "acmeinc"}}
MCFee == [fixed |-> 2, percent |-> 100, tolerance |-> 0]

MCSearchInputs ==
    {[amounts |-> a, low |-> b[1], high |-> b[2], max |-> 3] :
        a \in [1 .. 4 -> {0, 1, 2, 3, 5}], b \in {<<4, 4>>, <<4, 5>>, <<6, 7>>}}

-----------------------------------------------------------------------------
(* Statements.                                                             *)

Entry(mark, amount, note, bad) ==
    [mark |-> mark, amount |-> amount, ccy |-> "INR", named |-> TRUE, note |-> note, bad |-> bad]
Nameless(e) == [e EXCEPT !.named = FALSE]
MCEntries(marks) ==
    {Entry(m, a, n, b) : m \in marks, a \in {1, 3}, n \in {None, "n1"},
                         b \in {{}, {"form"}, {"date"}, {"amount"}}}

Statement(format, entries, slip, layout) ==
    [format |-> format, ccy |-> "INR", opening |-> 2, slip |-> slip, entries |-> entries,
     layout |-> layout]
Account(ccy, s) ==
    [s EXCEPT !.ccy = ccy, !.entries = [k \in DOMAIN @ |-> [@[k] EXCEPT !.ccy = ccy]]]

MCFirstEntry == Entry("RD", 4, "n2", {})

MCDocuments ==
    {<<Statement("MT940", <<e, MCFirstEntry, f>>, slip, layout)>> :
        e \in MCEntries({"C", "RC"}), f \in MCEntries({"D", "RC"}),
        slip \in {0, 2}, layout \in {"plain", "wrapped"}}
    \cup {<<Statement("MT940", <<MCFirstEntry>>, 0, layout)>> : layout \in {"headless", "dashed"}}
    \cup {<<Statement("MT940", <<MCFirstEntry>>, 0, "plain"),
            Statement("MT940", <<MCFirstEntry>>, 0, "plain")>>}
    \cup {<<Statement("CAMT053", <<e, f>>, slip, "plain")>> :
            e \in MCEntries({"CRDT", "DBIT", "XX"}), f \in MCEntries({"DBIT"}), slip \in {0, 2}}
    \cup {<<Statement("CSV", <<e, f>>, 0, "plain")>> :
            e \in MCEntries({"CR", "DR", "XX"}), f \in MCEntries({"DR"})}
    \* accounts in yen (no minor unit) and dinars (thousandths), and entries
    \* that name no currency
    \cup {<<Account(c, Statement("MT940", <<e, Entry("D", 5, None, {})>>, slip, "plain"))>> :
            c \in {"JPY", "KWD"}, e \in MCEntries({"C", "RC"}), slip \in {0, 2}}
    \cup {<<Account(c, Statement(format, <<e, Nameless(f)>>, 0, "plain"))>> :
            c \in {"INR", "JPY", "KWD"}, format \in {"CAMT053", "CSV"},
            e \in MCEntries({"CRDT"}), f \in MCEntries({"DBIT"})}

-----------------------------------------------------------------------------
DecisionsInit ==
    IF part = "decisions" THEN MatchingInit
    ELSE /\ txn = <<>> /\ late = <<>> /\ rejected = {} /\ rates = {} /\ loaded = {}
         /\ quoted = <<>> /\ used = {} /\ mode = "FULL" /\ today = 0 /\ runs = 0
         /\ stage = "off" /\ pool = {} /\ queue = {} /\ matches = {} /\ raised = {}

SubsetInit ==
    IF part = "search" THEN SearchInit
    ELSE input = <<>> /\ table = {} /\ index = 0 /\ answer = <<>>

ReadingInit ==
    IF part = "statements" THEN StatementInit
    ELSE /\ document = <<>> /\ line = 0 /\ fields = <<>> /\ outcome = "off" /\ rows = <<>>
         /\ balance = <<>> /\ canonical = <<>>

PartsInit ==
    /\ part \in Parts
    /\ ConfigInit
    /\ AccountInit
    /\ DecisionsInit
    /\ SubsetInit
    /\ ReadingInit

PartsNext ==
    /\ UNCHANGED part
    /\ \/ part = "configs" /\ ConfigNext /\ UNCHANGED <<accountVars, matchingVars, searchVars, statementVars>>
       \/ part = "accounts" /\ AccountNext /\ UNCHANGED <<configVars, matchingVars, searchVars, statementVars>>
       \/ part = "decisions" /\ MatchingNext /\ UNCHANGED <<configVars, accountVars, searchVars, statementVars>>
       \/ part = "search" /\ SearchNext /\ UNCHANGED <<configVars, accountVars, matchingVars, statementVars>>
       \/ part = "statements" /\ StatementNext
              /\ UNCHANGED <<configVars, accountVars, matchingVars, searchVars>>

PartsSpec ==
    PartsInit /\ [][PartsNext]_<<part, configVars, accountVars, matchingVars, searchVars, statementVars>>

PartsFairSpec == PartsSpec /\ ConfigFairness
=============================================================================

----------------------------- MODULE Statements -----------------------------
(***************************************************************************)
(* From a bank's file to transactions: the MT940 lexer and its pairing of  *)
(* :61: with :86:, the CAMT.053 and CSV parsers, the check of a statement's*)
(* balances, and the normalisation of marks into direction and reversal    *)
(* and of amounts into minor units of a currency.                          *)
(*                                                                         *)
(* The text of a statement is a sequence of lines, of which only the tag   *)
(* and what it holds matter; an amount in it is a number of thousandths.   *)
(***************************************************************************)
EXTENDS Money

CONSTANTS
    Documents,        \* statements a bank may send, one or several in a file
    DefaultCurrency   \* the bank's currency_default

Currencies == DOMAIN _CURRENCY_EXPONENTS

\* An entry of so many minor units, `named` saying that it names its currency
\* (which no MT940 entry does) and `bad` what of it cannot be read; and a
\* statement, `slip` being by how much the bank's closing balance is wrong.
BankEntry ==
    [mark : STRING, amount : Nat, ccy : Currencies, named : BOOLEAN, note : STRING,
     bad : SUBSET {"form", "date", "amount"}]
BankStatement ==
    [format : {"MT940", "CAMT053", "CSV"}, ccy : Currencies, opening : Int, slip : Int,
     entries : Seq(BankEntry), layout : {"plain", "wrapped", "headless", "dashed"}]

\* The entries are in the currency of the account.
ASSUME DocumentsAssumption ==
    /\ Documents \subseteq Seq(BankStatement) \ {<<>>}
    /\ \A d \in Documents : \A j \in DOMAIN d :
          \A k \in DOMAIN d[j].entries : d[j].entries[k].ccy = d[j].ccy
    /\ DefaultCurrency \in Currencies

VARIABLES
    document,   \* the statements of the file
    line,       \* lines (MT940) or entries (CAMT, CSV) read so far
    fields,     \* the MT940 fields lexed so far, the last one still open
    outcome,    \* "reading", "parsed" or "rejected"
    rows,       \* ParsedRow list
    balance,    \* <<>>, or <<the BalanceCheck>>
    canonical   \* normalised transactions, by the row each is from

statementVars == <<document, line, fields, outcome, rows, balance, canonical>>

Unreadable == -1
None == "none"   \* no narration, no mark, or no currency

-----------------------------------------------------------------------------
(* Marks.                                                                  *)

\* balances._SIGN, which amounts.sign_for_direction must agree with.
_SIGN_NoReversal ==
    [C |-> 1, CRDT |-> 1, RC |-> 1, D |-> -1, DBIT |-> -1, RD |-> -1]

_SIGN == [C |-> 1, CRDT |-> 1, RD |-> 1, D |-> -1, DBIT |-> -1, RC |-> -1]

normalise_direction ==
    [m \in {"CR", "C", "CRDT", "DR", "D", "DBIT", "RC", "RD"} |->
        [dir |-> IF m \in {"CR", "C", "CRDT", "RC"} THEN "CR" ELSE "DR",
         is_reversal |-> m \in {"RC", "RD"}]]

-----------------------------------------------------------------------------
(* Amounts.                                                                *)

\* A minor unit of the currency in thousandths.
MinorUnit(ccy) == Pow10(3 - _CURRENCY_EXPONENTS[ccy])

\* An amount's text in minor units, rounded half to even.
_to_minor(text, ccy) == RoundHalfEven(text * Pow10(_CURRENCY_EXPONENTS[ccy]), 1000)

\* The entry's currency, then the statement's, then the bank's.
resolve_currency(entry, statement, default) ==
    CASE entry # None -> entry
      [] entry = None /\ statement # None -> statement
      [] OTHER -> default

-----------------------------------------------------------------------------
(* What the bank writes.                                                   *)

\* What an entry does to the account.
Effect(e) == IF e.mark \in {"C", "CR", "CRDT", "RD"} THEN e.amount ELSE -e.amount
Total(entries, ks) == SumFunction([k \in ks |-> Effect(entries[k])])

\* A balance as it is stated, its sign as a mark (CRDT or DBIT in CAMT.053).
Stated(s, n) == [mark |-> IF n < 0 THEN "D" ELSE "C", ccy |-> s.ccy,
                 text |-> Distance(n, 0) * MinorUnit(s.ccy)]
Opening(s) == Stated(s, s.opening)
Closing(s) == Stated(s, s.opening + Total(s.entries, DOMAIN s.entries) + s.slip)

Line(tag, body) == [tag |-> tag, body |-> body]
Wrapped == Line("untagged", "text")
Blank == Line("blank", "text")

\* An entry's :61:, wrapped onto a second line or not, and its :86:.
EntryLines(s, e) ==
    LET item == IF s.layout = "wrapped" THEN <<Line("61", e), Wrapped, Blank>> ELSE <<Line("61", e)>>
    IN  IF e.note = None THEN item ELSE Append(item, Line("86", e.note))

\* :60F:, the entries, :62F:, and what may follow: the dash that closes the
\* message, or a remark on the whole statement.
StatementLines(s) ==
    (IF s.layout = "headless" THEN <<Wrapped, Line("20", "reference"), Line("60F", Opening(s))>>
     ELSE <<Line("20", "reference"), Line("60F", Opening(s))>>)
    \o FlattenSeq([j \in 1 .. Len(s.entries) |-> EntryLines(s, s.entries[j])])
    \o (CASE s.layout = "dashed" -> <<Line("62F", Closing(s)), Wrapped>>
          [] s.layout = "wrapped" -> <<Line("62F", Closing(s)), Line("86", "remark")>>
          [] OTHER -> <<Line("62F", Closing(s))>>)

Text == FlattenSeq([j \in 1 .. Len(document) |-> StatementLines(document[j])])
Format == document[1].format

-----------------------------------------------------------------------------
(* The MT940 lexer, line by line.                                          *)

Flush(tag, body) == Append(fields, [tag |-> tag, body |-> body, lines |-> 1])

lex ==
    /\ Format = "MT940" /\ outcome = "reading"
    /\ line < Len(Text)
    /\ line' = line + 1
    /\ LET l == Text[line + 1]
           last == Len(fields)
       IN  CASE l.tag = "blank" -> UNCHANGED <<fields, outcome>>
             [] l.tag = "untagged" /\ last = 0 -> outcome' = "rejected" /\ UNCHANGED fields
             [] l.tag = "untagged" /\ last > 0 ->
                    fields' = [fields EXCEPT ![last].lines = @ + 1] /\ UNCHANGED outcome
             [] OTHER -> fields' = Flush(l.tag, l.body) /\ UNCHANGED outcome
    /\ UNCHANGED <<document, rows, balance, canonical>>

\* The last of the fields with one of the tags; unreadable if it goes on over
\* a second line.
LastOf(tags) ==
    LET at == {j \in DOMAIN fields : fields[j].tag \in tags}
    IN  IF at = {} \/ fields[Max(at)].lines > 1 THEN <<>> ELSE <<fields[Max(at)].body>>

\* _build_row: a :61: that does not match the pattern maps nothing.
Row(e, ccy, note, errors) ==
    IF "form" \in e.bad
    THEN [mark |-> None, text |-> Unreadable, ccy |-> None, note |-> note, errors |-> errors]
    ELSE [mark |-> e.mark,
          text |-> IF "amount" \in e.bad THEN Unreadable ELSE e.amount * MinorUnit(e.ccy),
          ccy |-> ccy, note |-> note, errors |-> errors]

\* _extract_rows: a :61: and the :86: directly after it.
MT940Rows ==
    LET at == {j \in DOMAIN fields : fields[j].tag = "61"}
        nth(k) == CHOOSE j \in at : Cardinality({i \in at : i <= j}) = k
        note(j) == IF j < Len(fields) /\ fields[j + 1].tag = "86" THEN fields[j + 1].body ELSE None
    IN  [k \in 1 .. Cardinality(at) |->
            Row(fields[nth(k)].body, None, note(nth(k)), fields[nth(k)].body.bad)]

-----------------------------------------------------------------------------
(* CAMT.053 takes the message's first statement; CSV has no balances, does *)
(* not judge the mark and lets the currency be missing.                    *)

Entries == document[1].entries

_validate_row(e) ==
    (IF e.mark \in {"CRDT", "DBIT"} THEN {} ELSE {"mark"})
        \cup (IF e.named THEN {} ELSE {"currency"})

ReadEntry ==
    /\ Format # "MT940" /\ outcome = "reading"
    /\ line < Len(Entries)
    /\ line' = line + 1
    /\ LET e == Entries[line + 1]
       IN  rows' = Append(rows, Row([e EXCEPT !.bad = @ \ {"form"}],
                                    IF e.named THEN e.ccy ELSE None, e.note,
                                    e.bad \cup (IF Format = "CSV" THEN {} ELSE _validate_row(e))))
    /\ UNCHANGED <<document, fields, outcome, balance, canonical>>

-----------------------------------------------------------------------------
(* balances.py and the normalisation of the rows without errors.           *)

\* A stated balance in minor units, with its sign.
Signed(b) == _SIGN[b.mark] * _to_minor(b.text, b.ccy)

\* Rows whose mark or amount cannot be read count as unparseable; one without
\* a currency is in the opening balance's.
check_statement(opening, closing, parsed) ==
    LET readable == {k \in DOMAIN parsed : /\ parsed[k].mark \in DOMAIN _SIGN
                                           /\ parsed[k].text # Unreadable}
        ccy(k) == IF parsed[k].ccy = None THEN opening.ccy ELSE parsed[k].ccy
        net == SumFunction([k \in readable |->
                               _SIGN[parsed[k].mark] * _to_minor(parsed[k].text, ccy(k))])
    IN  [difference |-> Signed(closing) - (Signed(opening) + net),
         unparseable |-> Len(parsed) - Cardinality(readable)]

\* Rows with errors are quarantined; a mark nobody knows fails the row.  No
\* statement's currency is passed on.
normalise(parsed) ==
    [k \in {j \in DOMAIN parsed : /\ parsed[j].errors = {}
                                  /\ parsed[j].mark \in DOMAIN normalise_direction} |->
        LET d == normalise_direction[parsed[k].mark]
            ccy == resolve_currency(parsed[k].ccy, None, DefaultCurrency)
        IN  [dir |-> d.dir, is_reversal |-> d.is_reversal, ccy |-> ccy,
             amount |-> _to_minor(parsed[k].text, ccy)]]

Parsed(found, opening, closing) ==
    /\ rows' = found
    /\ balance' = IF opening = <<>> \/ closing = <<>> THEN <<>>
                  ELSE <<check_statement(opening[1], closing[1], found)>>
    /\ canonical' = normalise(found)
    /\ outcome' = "parsed"
    /\ UNCHANGED <<document, line, fields>>

ParseMT940 ==
    /\ Format = "MT940" /\ outcome = "reading" /\ line = Len(Text)
    /\ Parsed(MT940Rows, LastOf({"60F", "60M"}), LastOf({"62F", "62M"}))

ParseCAMT053 ==
    /\ Format = "CAMT053" /\ outcome = "reading" /\ line = Len(Entries)
    /\ Parsed(rows, <<Opening(document[1])>>, <<Closing(document[1])>>)

ParseCSV ==
    /\ Format = "CSV" /\ outcome = "reading" /\ line = Len(Entries)
    /\ Parsed(rows, <<>>, <<>>)

StatementInit ==
    /\ document \in Documents
    /\ line = 0
    /\ fields = <<>>
    /\ outcome = "reading"
    /\ rows = <<>>
    /\ balance = <<>>
    /\ canonical = <<>>

StatementNext == lex \/ ReadEntry \/ ParseMT940 \/ ParseCAMT053 \/ ParseCSV

StatementSpec == StatementInit /\ [][StatementNext]_statementVars

-----------------------------------------------------------------------------
\* What a transaction does to the account: its direction keeps the mark of the
\* entry that a reversal reverses.
Moves(t) == IF (t.dir = "CR") # t.is_reversal THEN t.amount ELSE -t.amount

\* The entry's row will carry no currency.
Unnamed(e) == Format = "MT940" \/ ~e.named

\* A file of one statement is accounted for to the last unit: it has a row per
\* entry, in order and with that entry's own narration; the difference its
\* balance check reports is what the bank got wrong and what could not be
\* read, nothing else; and exactly the entries without fault become
\* transactions, each of which moves the account, in its currency, as its entry
\* did.  Left out are the entries that name no currency in a statement of
\* another than the bank's default: the code reads them in the default one.
StatementAccounted ==
    outcome = "parsed" /\ Len(document) = 1 =>
        LET kept == {k \in DOMAIN Entries :
                        /\ Entries[k].bad = {} /\ Entries[k].mark \in DOMAIN normalise_direction
                        /\ Format = "CAMT053" => _validate_row(Entries[k]) = {}}
            lost == {k \in DOMAIN Entries :
                        \/ "amount" \in Entries[k].bad
                        \/ "form" \in Entries[k].bad /\ Format = "MT940"
                        \/ Entries[k].mark \notin DOMAIN _SIGN}
        IN  /\ [k \in DOMAIN rows |-> rows[k].note] = [k \in DOMAIN Entries |-> Entries[k].note]
            /\ balance # <<>> => balance[1].difference = document[1].slip + Total(Entries, lost)
            /\ DOMAIN canonical = kept
            /\ \A k \in kept :
                  \/ Unnamed(Entries[k]) /\ document[1].ccy # DefaultCurrency
                  \/ /\ Moves(canonical[k]) = Effect(Entries[k])
                     /\ canonical[k].ccy = document[1].ccy
=============================================================================

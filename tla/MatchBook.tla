----------------------------- MODULE MatchBook -----------------------------
(***************************************************************************)
(* What the match ledger promises its readers: a book of matches in which  *)
(* no transaction stands twice.  Matches are posted, alone or a whole run  *)
(* at once; one left for review is decided; any one is undone as a whole.  *)
(***************************************************************************)
EXTENDS Naturals

CONSTANT Txns    \* the transactions of both sources

VARIABLE book    \* the matches that stand

Match == [txns : SUBSET Txns, decided : BOOLEAN]

\* A book: every match has two sides, and no two share a transaction.
IsBook(b) ==
    /\ b \subseteq Match
    /\ \A m \in b : \E t, u \in m.txns : t # u
    /\ \A m, n \in b : m.txns \cap n.txns # {} => m = n

Init == book = {}

\* New matches appear next to the ones that stand.
Post ==
    /\ book \subseteq book'
    /\ book # book'
    /\ IsBook(book')

\* A reviewer confirms.
Decide(m) ==
    /\ ~ m.decided
    /\ book' = (book \ {m}) \cup {[m EXCEPT !.decided = TRUE]}

\* A reviewer rejects, or an analyst unmatches.
Undo(m) == book' = book \ {m}

Next ==
    \/ Post
    \/ \E m \in book : Decide(m) \/ Undo(m)

Spec == Init /\ [][Next]_book
=============================================================================

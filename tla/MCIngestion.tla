---------------------------- MODULE MCIngestion ----------------------------
(* An instance of Ingestion for TLC: two uploads of any two of four files.  *)
EXTENDS Ingestion

MCUploads == 1 .. 2

\* Two files repeat one settlement reference, two share a drifted header, two
\* have a line that fails parsing, one a line that cannot be normalised, and
\* one lacks a column.
MCContents == {
    [rows |-> {"good", "odd"}, header |-> "drift", flags |-> {"pan"}, refs |-> 1],
    [rows |-> {"good", "bad"}, header |-> "same", flags |-> {"balance"}, refs |-> 1],
    [rows |-> {"bad"}, header |-> "drift", flags |-> {}, refs |-> 2],
    [rows |-> {"good"}, header |-> "missing", flags |-> {}, refs |-> 2]}
=============================================================================

------------------------------- MODULE MCRuns -------------------------------
(***************************************************************************)
(* Instance of Runs: two workers, two or three rows, and requests that meet   *)
(* in every way start() distinguishes.                                     *)
(***************************************************************************)
EXTENDS Runs

CONSTANTS b1, b2, k1, k2, k3, s1, s2

\* Two runs of one bank, the second queued, or, under the second one's key, a
\* run of another bank: repeated, conflicting, competing and independent
\* requests all occur.
MCRequests == {
    [key |-> k1, bank |-> b1, scope |-> s1, defer |-> FALSE],
    [key |-> k2, bank |-> b1, scope |-> s1, defer |-> TRUE],
    [key |-> k2, bank |-> b2, scope |-> s1, defer |-> FALSE] }

\* One bank, three keys: enough for a reaped run, its successor and a queue.
MCOneBankRequests == {
    [key |-> k1, bank |-> b1, scope |-> s1, defer |-> FALSE],
    [key |-> k2, bank |-> b1, scope |-> s1, defer |-> TRUE],
    [key |-> k3, bank |-> b1, scope |-> s2, defer |-> FALSE] }

\* One id per key, so that an insertion always finds a free one.
MCRunIds == 1 .. 2
MCThreeRunIds == 1 .. 3
=============================================================================

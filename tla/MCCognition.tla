---------------------------- MODULE MCCognition ----------------------------
(* One job of the queue and the two activities, over a journal with one     *)
(* thread that the owner edits twice, or over a stream of five messages.    *)
EXTENDS Cognition

\* Either two messages and all that the owner and time may do to the journal, or a longer
\* stream of signals that leave the journal empty: long enough for a job's list to be
\* merged out of order after the cursor has moved back.
LongStreamsAreQuiet ==
    Len(log) > 2 =>
        /\ edits = 0 /\ weeks = 0 /\ journal = EmptyJournal
        /\ \A e \in DOMAIN log : log[e] = "signal"
=============================================================================

-------------------------- MODULE MCJournalWriter --------------------------
(* Small instances of JournalWriter for TLC. *)
EXTENDS JournalWriter

CONSTANTS t1, t2

TwoThreads == {t1, t2}
=============================================================================

----------------------------- MODULE MCBackfill -----------------------------
EXTENDS Backfill, TLC

RunsAlike == Permutations(Runs)

=============================================================================

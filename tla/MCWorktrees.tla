---------------------------- MODULE MCWorktrees ----------------------------
\* One agent, whom two threads may archive and remove at the same time.
EXTENDS Worktrees, TLC

Symmetry == Permutations(Threads)
=============================================================================

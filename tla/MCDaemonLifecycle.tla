------------------------- MODULE MCDaemonLifecycle -------------------------
\* One daemon runs, one more may be started; two operations of the app, one fault.
EXTENDS DaemonLifecycle, TLC

Symmetry == Permutations(Clients) \cup Permutations(Daemons \ {First})
\* What is left of a dead daemon, the idle clock of one that ends, and the pid in
\* an unlinked lock file, nothing reads again.
Living == {d \in Daemons : Alive(d)}
Of(f) == [d \in Living |-> f[d]]
Idling(f) == [d \in {e \in Living : Running(e)} |-> f[d]]
View ==
  <<at, Of(opened), lockFile, IF lockFile = None THEN None ELSE pid[lockFile], socket, token,
    deaf \cap Living, told \cap Living, agents \cap Living, scheduled, runs \cap Living,
    spawning \cap Living, store # None, rotten,
    [d \in Living |-> Knows(d)], running, running \cap (Irregular \cup late), moved = {}, Idling(alone), Idling(fresh), Of(end),
    op, ops, restarting, faults, replaced \cap Living, blind \cap Living, Irregular = {}, late \cap Living,
    quit \cap Living>>
=============================================================================

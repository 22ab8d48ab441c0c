----------------------------- MODULE MCScheduler -----------------------------
EXTENDS Scheduler, TLC
Symmetry == Permutations(Clients) \cup Permutations(Threads)
            \cup Permutations(Slots) \cup Permutations(Tasks)
=============================================================================

------------------------ MODULE MCCatalogPublication ------------------------
(* Small instances of CatalogPublication for TLC.                          *)
EXTENDS CatalogPublication, TLC

Symmetry ==
  Permutations(Quote) \cup Permutations(Worker) \cup Permutations(Task) \cup Permutations(Video)

\* Where the question is about two workers, they begin when all videos are listed.
WorkWhenListed ==
  \/ \A w \in Worker : worker[w] = IdleWorker
  \/ \A v \in Video : row[v].status = "ready" /\ row[v].public

=============================================================================

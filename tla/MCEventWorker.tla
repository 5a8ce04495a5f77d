---------------------------- MODULE MCEventWorker ----------------------------
(* EventWorker for TLC's safety runs: workers, handlers and copies are     *)
(* interchangeable, for no definition of EventWorker tells them apart.     *)
EXTENDS EventWorker, TLC

Symmetry ==
    Permutations(Workers) \cup Permutations(Handlers) \cup Permutations(Copies)
=============================================================================

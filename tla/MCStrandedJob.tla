--------------------------- MODULE MCStrandedJob ---------------------------
(***************************************************************************)
(* MediaJobs where nothing ever crashes: one exception that no except      *)
(* clause names passes a worker by.                                        *)
(***************************************************************************)
EXTENDS MediaJobs

NextUncrashed == MediaNext /\ \A w \in JobWorker : ~WorkerDies(w)

OneProject == [r \in Render |-> CHOOSE p \in Project : TRUE]

UncrashedSpec == MediaInit /\ [][NextUncrashed]_mediaVars /\ MediaFairness
=============================================================================

-------------------------- MODULE MCGenerationJobs --------------------------
(***************************************************************************)
(* What becomes of a request for a video: the workers that take            *)
(* generations, the catalogue their adapters are resolved from, the run of *)
(* one generation, and the table of locks.  Each behaviour follows one of  *)
(* the four, the catalogue until something is resolved; the others stay as *)
(* they began.  Beside them every document of ProviderManifests is judged  *)
(* and built.                                                              *)
(***************************************************************************)
EXTENDS GenerationJobs, Catalogue, Pipeline, ProviderManifests, DistributedLocks

VARIABLES
  part,        \* what is followed
  document     \* Manifests

\* Images that pass, of looks next to each other or not, or unmeasured; and a blank one.
Good(look) == [produced |-> TRUE, blank |-> FALSE, size |-> "fit", look |-> look,
               watermark |-> Absent]
Images == {Good(0), Good(1), Good(2), Good(Absent), [Good(1) EXCEPT !.blank = TRUE]}
Films == {[duration |-> "ok", dimensions |-> "ok"], [duration |-> "off", dimensions |-> Absent]}

\* Prompts of no sentence, of fewer and of more parts than shots; whole and odd durations,
\* in and out of the band, for one to fifteen shots.
Parts(sentences, clauses) == [sentences |-> sentences, clauses |-> clauses]

Prompts == {Parts(0, 1), Parts(2, 4), Parts(11, 3)}
Worlds == {{"character"}}
Targets == {300, 1800, 2200}
PerShots == {150, 220, 300, 500, 3000}

\* Each process has a token of its own (a uuid4 in the workers).
OwnToken == [p \in Process |-> p]

allVars == <<part, document, vars, catalogueVars, pipelineVars, lockVars>>

StudyInit == /\ \/ part \in {"jobs", "catalogue", "pipeline", "locks"} /\ document = None
                \/ part = "manifest" /\ document \in Documents
             /\ Init /\ CatalogueInit /\ PipelineInit /\ LockInit

OfJobs(A) == /\ part = "jobs" /\ A
             /\ UNCHANGED <<part, document, catalogueVars, pipelineVars, lockVars>>

\* The catalogue is followed until something is resolved, and through a third seeding only
\* where nobody reads.
InView == \A r \in Reader : readers[r].op \in IF seeds < 3 THEN {"idle", "read"} ELSE {"idle"}

StudyNext == \/ OfJobs(Next)
             \/ /\ part = "catalogue" /\ InView
                /\ CatalogueNext /\ UNCHANGED <<part, document, vars, pipelineVars, lockVars>>
             \/ part = "pipeline" /\ PipelineNext
                /\ UNCHANGED <<part, document, vars, catalogueVars, lockVars>>
             \/ part = "locks" /\ LockNext
                /\ UNCHANGED <<part, document, vars, catalogueVars, pipelineVars>>

\* The fairness of GenerationJobs.
StudyFairness == /\ \A w \in Worker : WF_vars(OfJobs(WorkerStep(w)))
                 /\ \A g \in Generation : /\ WF_vars(OfJobs(LeaseLapses(g)))
                                          /\ WF_vars(OfJobs(GoesQuiet(g)))

StudySpec == StudyInit /\ [][StudyNext]_allVars /\ StudyFairness
-----------------------------------------------------------------------------
\* A manifest that passes validate_providers.py can be written by seed_providers.py.
ManifestFits == part = "manifest" => ValidManifestFits(document, {1})
=============================================================================

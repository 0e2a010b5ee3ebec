-------------------------- MODULE MCEngineDownloads --------------------------
\* TLC instance of EngineDownloads. Handlers, job ids and model ids are
\* interchangeable, so the safety run uses them as symmetry sets; the liveness
\* run does not.
EXTENDS EngineDownloads, TLC

Symmetry == Permutations(Callers) \cup Permutations(Jobs) \cup Permutations(Models)
==============================================================================

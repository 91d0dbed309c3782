--------------------------- MODULE MCParallelWave ---------------------------
(* Instances of ParallelWave for TLC.  A caller on its own has waves of    *)
(* zero to three jobs, the longest larger than the pool's stack, so that   *)
(* submission can fail half way; two callers share the pool with shorter   *)
(* ones.                                                                   *)
EXTENDS ParallelWave, TLC

CONSTANTS c1, c2, j1, j2, j3, j4

MCClients == {c1, c2}
MCJobs == {j1, j2, j3, j4}
MCScenarios ==
  { [callers |-> {c1}, waves |-> {<<>>, <<j1>>, <<j1, j2>>, <<j3, j4>>, <<j2, j3, j4>>}],
    [callers |-> {c1, c2}, waves |-> {<<j1>>, <<j2, j3>>}] }
=============================================================================

\* One caller, or two; a stack smaller than the largest wave of one.
SPECIFICATION LiveWaveSpec
CONSTANTS
  Workers = {w1, w2}
  c1 = c1
  c2 = c2
  j1 = j1
  j2 = j2
  j3 = j3
  j4 = j4
  Clients <- MCClients
  Jobs <- MCJobs
  Scenarios <- MCScenarios
  MaxJobs = 1
  SpawnMayFail = TRUE
  NoThread = NoThread
  NoJob = NoJob
INVARIANTS PoolInv TrueMeansWaveDone
PROPERTIES WaitIdleSound ExecutorEnds
CHECK_DEADLOCK FALSE

\* One diagnosis has ended, two wait for each other's lock, find its report or that of the other;
\* Amp writes tracked and new files; one push.
CONSTANTS
  Jobs = {j0, j1, j2}
  Earlier = {j0}
  MaxCommits = 2
  Writes = {"tracked", "untracked"}
  NoJob = NoJob
SPECIFICATION Spec
INVARIANTS
  TypeOK
  OneCommitPerDiagnosis
  UntaintedWroteNothing
  TaintHasCause
  ReuseFits
PROPERTY EveryDiagnosisEnds

\* Two hosts; jobs of four steps, with and without evaluations, padding,
\* the submission log, a NaN loss, a target loss, and data that runs out.
CONSTANTS
  h1 = h1
  h2 = h2
  Hosts <- MCHosts
  Jobs <- MCJobs
SPECIFICATION FairSpec
INVARIANTS
  MetricsWrittenOnce
  EvalOfItsStep
  LogWellFormed
  NanAborts
  GcsComplete
PROPERTY
  Termination

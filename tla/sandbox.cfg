CONSTANTS
  r1 = r1
  r2 = r2
  df1 = df1
  Runs = {r1, r2}
  Sources = {s1, s2}
  Names = {df1}
  JobsOf <- MCJobsOf
  Removers = {route}
  None = None
  CallsOf <- MCCallsOf
  MaxRemovals = 1
SPECIFICATION FairSpec
INVARIANTS SourcesDoNotMix ReportedIsThere
PROPERTY RunsGetThrough
CHECK_DEADLOCK FALSE

SPECIFICATION EngineSpec
CONSTANTS
  r1 = r1
  r2 = r2
  build = build
  test = test
  result = result
  pass = pass
  fail = fail
  Runs = {r1, r2}
  App = app
  Callers = {app}
  Nodes = {build, test}
  Entry = build
  Edges <- MCEdges
  Keys = {result}
  OutputKey <- MCOutputKey
  Outputs = {pass, fail}
  Always = always
  NoOutput = nothing
  MaxIterations <- MCIterations
  PerNodeCap = 2
  MaxRuns = 1
  WaitTicks = 2
CHECK_DEADLOCK FALSE
INVARIANTS CapHeld RouteFollowsWorker NoStrayWorker
PROPERTIES RunEnds

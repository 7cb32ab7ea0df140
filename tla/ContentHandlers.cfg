SPECIFICATION Spec
CONSTANTS
  plugin = plugin
  builtin = builtin
  t1 = t1
  t2 = t2
  None = None
  Target <- Targets
  Engine <- NoEngines
  NoTarget = builtin
  Thread <- Threads
  CanAuthenticate = TRUE
  Uri <- Paths
  What = {"status"}
SYMMETRY Symmetry
CONSTRAINT OneTableAtATime
INVARIANTS RemappedServed UrisStayRemoved SingleIsUnique

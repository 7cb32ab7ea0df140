SPECIFICATION SwitchFairSpec
CONSTANTS
  View = {v1, v2}
  Registrar = {v1}
  Remover = {x1}
  Installer = {i1}
  Setter = {s1}
  Requester = {q1}
  Nobody = Nobody
\* The threads may wait for each other, see Circle, or all be done.
CHECK_DEADLOCK FALSE
INVARIANTS LoggingAgrees CleanerAgrees
PROPERTY LocksGrantedUnlessCircle

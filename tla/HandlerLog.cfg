SPECIFICATION FairSpec
CONSTANTS
  MaxEntries = 3
  Reader = {r1, r2}
 
PROPERTIES PurgeSparesReaders 
\* The view is gone in the end.
CHECK_DEADLOCK FALSE

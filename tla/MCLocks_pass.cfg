SPECIFICATION FairSpec
CONSTANTS
  Threads = {h1, h2}
\* Threads that wait for each other stop the system.
CHECK_DEADLOCK FALSE
PROPERTIES
  PassCompletes

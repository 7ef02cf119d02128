SPECIFICATION FairSpec
CONSTANTS
  MaxCmds = 3
  MaxBatch = 2
  MaxContexts = 2
  Faults = {"server", "append", "link"}
INVARIANTS TypeOK InStep RejectedWhole SuccessIsTrue NoOtherLeak
PROPERTY Returns
CHECK_DEADLOCK FALSE

\* An upload stream at the smallest window the batch allows, granted by the
\* receiver, refilled twice, and FIN behind a full window.  Either peer may
\* ignore the protocol.
CONSTANTS
  Window = 2
  Batch = 2
  Last = 7
  AwaitGrant = TRUE
  Rogue = {"sender", "receiver"}
  GrantBound = 2
SPECIFICATION FairCreditSpec
INVARIANTS CreditConserved NoHonestViolation DrainedReceiverNeverStarves
  OverflowIsTold
PROPERTY StreamCompletes
CHECK_DEADLOCK FALSE

SPECIFICATION StoresSpec
CONSTANTS
  Threads = {t1, t2, t3}
  MaxActive = 1
  MaxIdle = 1
  MaxWait = 2
  MaxAttempt = 1
  PromptHold = 1
  LongHold = 3
  Calls = 2
  ZkUsers = {z1, z2, z3}
  MaxOutages = 1
  Uploaders = {u1, u2}
  Lengths = {1, 4, 5, 6, 7}
  Page = 2
  Limit = 1
  MaxFaults = 2
INVARIANTS NoRefusalWhileUsersArePrompt QueueBound SuccessMeansStored NothingSentTwice
PROPERTIES ZkCallersServed RetriesSucceed
CHECK_DEADLOCK FALSE

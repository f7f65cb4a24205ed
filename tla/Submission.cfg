\* One transaction or process may fail.
SPECIFICATION FairSpec
CONSTANTS
  r1 = r1
  r2 = r2
  r3 = r3
  r4 = r4
  r5 = r5
  k1 = k1
  k2 = k2
  k3 = k3
  ann = ann
  bob = bob
  cyd = cyd
  raise = raise
  move = move
  bank = bank
  leave = leave
  hash1 = hash1
  hash2 = hash2
  Request <- MCRequests
  Key = {k1, k2, k3}
  Employee = {ann, bob, cyd}
  LockId = {hash1, hash2}
  Body = {raise, move, bank, leave}
  KeyOf <- MCKeyOf
  BodyOf <- MCBodyOf
  EmployeeOf <- MCEmployeeOf
  LockOf <- MCLockOf
  MaxFaults = 1
CHECK_DEADLOCK FALSE
INVARIANTS
  TypeOK
  GaplessSequences
  OneEventPerKey
  NoInternalError
  HonestReplies
  OnlyCommittedEnqueued
PROPERTIES
  CommitsInOrder
  ImplementsAccept
  EveryRequestEnds

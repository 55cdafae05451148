SPECIFICATION Spec
CONSTANTS
  Null = Null
  Junk = Junk
  Nan = Nan
  IntMax = 7
  Calls <- MemberCalls
  MaxCalls = 1
  MaxListens = 1
  Losing = FALSE
INVARIANT NullMembersWork
CHECK_DEADLOCK FALSE

SPECIFICATION FairSpec
CONSTANTS
  w1 = w1
  w2 = w2
  c1 = c1
  c2 = c2
  Workers = {w1, w2}
  Conns = {c1, c2}
  Honest = {c1}
  Listener = Listener
  None = None
  Fds <- TwoFds
  Lfd = 3
  NoFd = NoFd
  Cap = 1
  MaxEvents = 2
  MaxReqs = 3
  Talks <- OneTalks
  Large <- LastLarge
  Faults = {}
INVARIANTS NotStranded
PROPERTIES EveryoneServed Released
CHECK_DEADLOCK FALSE

SPECIFICATION Spec
CONSTANTS
  w1 = w1
  w2 = w2
  c1 = c1
  c2 = c2
  Workers = {w1, w2}
  Conns = {c1, c2}
  Honest = {c1}
  Listener = Listener
  None = None
  Fds <- OneFd
  Lfd = 3
  NoFd = NoFd
  Cap = 1
  MaxEvents = 2
  MaxReqs = 2
  Talks <- OneTalks
  Large <- LastLarge
  Faults = {"epoll_fails", "no_epollin"}
SYMMETRY Symmetry
INVARIANTS TypeOK OneHolder FdInv NoUseAfterFree NeverBlocks HonestKept InOrder
CHECK_DEADLOCK FALSE

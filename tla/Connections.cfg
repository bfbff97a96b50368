CONSTANTS
  MaxConnects = 2
  fd1 = fd1
  fd2 = fd2
  fd3 = fd3
  Fds <- MCFds
  Throttles <- ThreeThrottles
  MAXTHROTTLENUMS = 2
  IDLE_READ_TIMELIMIT = 1
  IDLE_SEND_TIMELIMIT = 2
  ReadRoom = 1
  ReplySize = 2
SPECIFICATION Spec
SYMMETRY FdSymmetry
INVARIANTS TablesAgree NoComplaints
PROPERTY ImplementsClients

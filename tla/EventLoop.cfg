CONSTANTS
  MaxConnects = 2
  fd1 = fd1
  fd2 = fd2
  Fds <- MCFds
  Throttles <- NoThrottles
  MAXTHROTTLENUMS = 2
  IDLE_READ_TIMELIMIT = 1
  IDLE_SEND_TIMELIMIT = 1
  ReadRoom = 1
  ReplySize = 2
  Listeners = 2
SPECIFICATION FairLoopSpec
CHECK_DEADLOCK FALSE
 
PROPERTIES  NoArrivalsAfterTerminate ClientsLeave TerminationCompletes

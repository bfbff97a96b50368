SPECIFICATION Spec
CONSTANTS
  Pids = {1, 2}
  cgi_limit = 2
  MaxTimers <- MCMaxTimers
  MaxBody = 2
  MaxOutput = 2
  PipeSize = 1
  Requests <- MCRequests
INVARIANTS NeverOverLimit PipesInOrder
 

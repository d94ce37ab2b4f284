\* Two tasks, a listener and a connection.  One call waits for reading, the
\* other for writing, and they may meet on one descriptor.
SPECIFICATION FairSpec
CONSTANTS
  t1 = t1
  t2 = t2
  f1 = f1
  f2 = f2
  None = None
  Tasks = {t1, t2}
  Fds = {f1, f2}
  Ops = {"accept", "write_all"}
  Quiet = {f2}
  MaxAccepts = 1
INVARIANTS TypeOK WatchedWhileWaiting AtMostOneDeaf RefsCounted
PROPERTIES ToldByItsOwnEvent HeardIsTold

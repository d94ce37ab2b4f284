\* Two jobs on a pool of two threads, and the owner who leaves it.  When all
\* have ended, or sleep for good, nothing more happens.
SPECIFICATION FairSpec
CONSTANTS
  j1 = j1
  j2 = j2
  w1 = w1
  w2 = w2
  Owner = Owner
  Shutter = Shutter
  Jobs = {j1, j2}
  Workers = {w1, w2}
  Impatient = {j1, Owner}
  Rude = {j2}
CHECK_DEADLOCK FALSE
INVARIANTS TypeOK AnswerNotLost EndsAsItsJob ClosedIsQuiet
PROPERTIES CancelComesLate EveryoneIsTold

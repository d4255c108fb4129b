SPECIFICATION Spec
CONSTANTS
  Last = 2
  Capacity <- MCCapacity
  Balls = 2
  ByEvent = {1}
  MaxMishaps = 1
  MaxWanted = 0
  Unusual = {}
INVARIANTS TypeOK BooksBalance BallsConserved QuietBooksAreTrue
CHECK_DEADLOCK FALSE

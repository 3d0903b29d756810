SPECIFICATION Spec
CONSTANTS
  open = open  named = named  late = late  wide = wide  t1 = t1  none = none
  Posts = {p1, p2, p3}
  Gets = {g1}
  Orders = {open, named, late, wide}
  Wide = {wide}
  Takers = {t1}
  Anyone = none
  HasRpc = TRUE
  Limit = 1
  MaxClock = 3
  TakerOf <- MCTakerOf
  FillWindow <- MCFillWindow
  Deadline <- MCDeadline
  Submissions <- MCSubmissions
SYMMETRY Threads
INVARIANTS
  TypeOK
  AcceptedStaysPooled
  AcceptedOnce
PROPERTIES
  AcceptedIsServed
  KeepsItsPlace

\* Limits of 2 visits and 3 rows are reached and exceeded by three tasks.
CONSTANTS
  t1 = t1
  t2 = t2
  t3 = t3
  Tasks <- TasksValue
  Priority <- PriorityValue
  Self = Self
  MaxVisits = 2
  MaxRows = 3
  MaxSamples = 2
SPECIFICATION Spec
INVARIANTS WalksLiveNodes FindersSound ReportsExact
PROPERTY WalkEnds

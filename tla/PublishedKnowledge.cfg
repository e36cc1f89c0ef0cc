SPECIFICATION Spec
CONSTANTS
  d1 = d1
  d2 = d2
  Docs <- MCDocs
  MaxRevs = 3
  DocOf <- MCDocOf
  FileOf <- MCFileOf
  Blocks <- MCBlocks
  Capacity = 3
  Viewers = {v1}
  NoOne = NoOne
  Instructor = Instructor
INVARIANTS NothingWithdrawnRead OneFile WithinCapacity
PROPERTIES DialogsSettle

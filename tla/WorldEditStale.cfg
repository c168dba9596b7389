SPECIFICATION Spec
CONSTANTS
  layouter = layouter
  editor = editor
  Nil = Nil
  Tab <- MCTab
  Owner <- MCOwner
  Layouter <- MCLayouter
  MaxToken = 2
  MaxEdit = 2
  MaxQueue = 1
  MaxExpiry = 1
  MaxFault = 1
INVARIANT StaleDraftIsKept
CHECK_DEADLOCK FALSE

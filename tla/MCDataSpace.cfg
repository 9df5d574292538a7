\* Two keys and three values; two timers over two seconds.
SPECIFICATION Spec
CONSTANTS
  Keys = {k1, k2}
  Mixed = {k1}
  Vals <- MCVals
  Long <- MCLong
  EndOfLine = EndOfLine
  Fields = {f1, f2}
  Scores = {0, 1, 2}
  Seconds = {1, 2}
  None = None
  Dangling = Dangling
  NoTimer <- MCNoTimer
  Capacity = 2
  Nodes = {1, 2}
  Null = Null
  Junk = Junk
  MaxLevel = 2
  MaxTime = 2
INVARIANTS
  TypeOK
  ReplayRebuilds
  ObjectsAreSound
PROPERTIES
  
  TimersFireOnTime

\* One capture of two paths, and two moves of others at any time.
CONSTANTS
  a = a
  b = b
  c1 = c1
  c2 = c2
  c3 = c3
  h1 = h1
  h2 = h2
  Paths = {a, b}
  Rank <- ListedAs
  Sources = {b}
  Contents = {c1, c2, c3}
  Binary = {c3}
  BaseTree <- Base
  HeadTree <- AtHead
  HeadOid = h1
  Heads = {h1, h2}
  Worlds <- States
  Calls <- AllCalls
  MaxMoves = 2
  MaxTime = 2
  Absent = Absent
  Torn = Torn
  NoValue = NoValue
SPECIFICATION Spec
INVARIANTS
  CaptureIsOfOneState
  NothingIsTorn
  QuietCaptureSucceeds

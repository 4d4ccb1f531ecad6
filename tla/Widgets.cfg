CONSTANTS
  s1 = s1
  s2 = s2
  out = out
  l1 = l1
  l2 = l2
  l3 = l3
  req = req
  ax = ax
  ay = ay
  None = None
  Outs = {out}
  Sliders = {s1, s2}
  Attrs = {ax}
  Links = {l1}
  Ends <- OneLink
  Pieces = {1}
  Parents = {req}
  LinkStepLimit = 1
  MaxGen = 1
  Budget = 3
SPECIFICATION MCSpec
CHECK_DEADLOCK FALSE
INVARIANTS StoreInv QuietAgrees
PROPERTIES EchoKeepsNewer
CONSTRAINT OneWhenReplaced

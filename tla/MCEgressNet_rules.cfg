SPECIFICATION Spec
CONSTANTS
  a = a
  b = b
  Meta = Meta
  NoDst = NoDst
  Pid = {p1, p2}
  NoPid = NoPid
  NSlots = 2
  NIdx = 2
  Dst <- MCDst
  Reqs <- MCReqs
  Answers <- MCAnswers
  MaxIps = 2
  MayFail = {"acc"}
  MaxFaults = 1
INVARIANT RulesGoWithCell

SPECIFICATION FairSpec
CONSTANTS
  u1 = u1
  u2 = u2
  s1 = s1
  l1 = l1
  l2 = l2
  User = {u1, u2}
  Session = {s1}
  OwnerOf <- MCOwnerOf
  Url = {l1, l2}
  CreateInput <- MCCreates
  Instance = {i1, i2}
  Asker = {a1}
  AiAnswer <- MCAnswers
  Size = {1, 2}
  MaxDays = 2
  MaxTime = 2
  MaxResource = 3
  Null = Null
INVARIANTS PagesCover RecommendedFits
PROPERTIES ReapedOnTime ExpiredGo

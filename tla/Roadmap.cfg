SPECIFICATION RoadmapSpec
CONSTANTS
  Handler = {h1, h2}
  Certificate = {c1, c2}
  MaxTime = 3
  MaxMessages = 4
  Null = Null
  Maker = {m1}
  Answer <- MCAnswer
  Malformed = Malformed
  MaxRoadmaps = 1
SYMMETRY MCSymmetry
INVARIANTS ReplySeesHistory ConversationInOrder StepsAsAnswered RoadmapFitsSession
PROPERTIES ReplyKnowsCertificate
CHECK_DEADLOCK FALSE

SPECIFICATION CertificatesSpec
CONSTANTS
  q1 = q1
  q2 = q2
  q3 = q3
  f1 = f1
  f2 = f2
  k1 = k1
  k2 = k2
  Question = {q1, q2}
  Option <- MCOption
  FieldOf <- MCFieldOf
  MinSelect <- MCMinSelect
  MaxSelect <- MCMaxSelect
  Sheet <- MCSheet
  Submitter = {s1, s2}
  Null = Null
  Asker = {a1, a2}
  Cert = {1, 2, 3, 4}
  Code = {1, 2, 3, 9}
  AiAnswer <- MCAiAnswer
  Size = {1, 2}
  NameOrder <- MCNameOrder
  National = {1, 2, 3}
  Technical = {1, 2}
  Keyword = {k1, k2}
  Text <- MCText
  Named <- MCNamed
  Coded <- MCCoded
  Sort <- MCSort
  PageSize = {1, 3}
INVARIANTS OnboardedFits AsksOnboarded RankingWhole SearchPagesCover LookupsBest

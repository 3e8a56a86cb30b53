SPECIFICATION FairSpec
CONSTANTS
  Emails = {boss, e1}
  Founder = boss
  Tokens = {t1, t2}
  Items = {s1}
  Accepts = {a1, a2}
  MaxMembers = 3
  Ttl = 1
  MaxNow = 2
  NoToken = NoToken
INVARIANT TypeOK
INVARIANT AcceptedMeansJoined
INVARIANT AnsweredTokenIsDead
PROPERTY SweptIsRefused
PROPERTY PendingEnds
CHECK_DEADLOCK FALSE

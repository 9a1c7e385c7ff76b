SPECIFICATION FairSpec
CONSTANTS
  MaxExchanges = 3
  NKeys = 2
  Attempts = 5
  MaxTalk = 2
CHECK_DEADLOCK FALSE
INVARIANT TypeOK
INVARIANT KeysAgree
INVARIANT NoProtocolError
INVARIANT AnswersMatch
PROPERTY ExchangesEnd
PROPERTY LoginEnds

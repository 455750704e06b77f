CONSTANTS
  NoAmount = NoAmount
  Address <- Addresses
  Answers <- NameAnswers
  Amount = 5
  Offers = {4, 5, 6, NoAmount}
  Cap <- Caps
  Chunk = {1, 2, 4}
SPECIFICATION LnurlSpec
INVARIANTS LnurlTypeOK NonPublicOnlyIfMoved AnswersAreBounded
CHECK_DEADLOCK FALSE

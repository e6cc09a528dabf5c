SPECIFICATION FairSpec
CONSTANTS
  Messages <- Two
  Bytes <- Alphabet
  Texts <- Samples
  Break = "/"
  Space = " "
  Limit = 2
  MaxPictures = 2
  MaxCaptchas = 1
INVARIANTS TextIsKept LossIsReported
PROPERTIES SplitsAtBreaks SendingRests

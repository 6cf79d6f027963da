CONSTANTS
  Tags <- BothTags
  Root <- t1
  Documents <- AllDocuments
  Texts <- AllTexts
  Parsed <- AllParsed
  MaxAds = 2
  Answers <- RootWholeOtherCut
  MaxWrapperDepth = 2
  MaxAttempts = 2
SPECIFICATION Spec
INVARIANT ParserExact
INVARIANT NothingLost
INVARIANT FetchesBounded
CHECK_DEADLOCK FALSE

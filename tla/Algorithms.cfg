SPECIFICATION CallFairSpec
CONSTANTS
  Names <- FileNames
  Sites <- FourSites
  Urls <- ShortUrls
  Host = "h"
  index_names <- IndexNames
  AUTH_FILE = "a"
  CgiNames <- CgiPrograms
  PlainNames <- PlainFiles
  MAX_LINKS = 3
  Chars = {"a", "b", "/", "?", "*", "|"}
  MatchCalls <- ShortMatches
  DateCalls <- SomeDates
  MimeCalls <- SomeNames
  B64Calls <- SomeCredentials
INVARIANTS ExpansionRight AnswerRight MatchAsDescribed DecodingRight
PROPERTY Answered

SPECIFICATION PathSpec
CONSTANTS
  Nil = Nil
  Fraction = Fraction
  Failed = Failed
  Panic = Panic
  MaxInt = 127
  Parts = 2
  Overflowed <- MCOverflowed
  PercentScale = 1
  MaxScale = 9
  DayTicks = 2
  MinPayload = 2
  MaxPayload = 3
  Requests <- MCRequests
  Operations <- MCOperations
  Converters <- MCConverters
  Configs <- MCConfigs
  Subjects = {"data", "page"}
  Hundred = 2
  Thousand = 3
  QuarterDays = 2
  MaxArticles = 2
  PageRequests <- MCPageRequests
  Sizes = {0, 1, 2, 3, 4, 6, 7, 8}
INVARIANTS BarsKeepTheirShape RejectionsAreKnown PublicationIsWhole PreviewTellsThePublication DecimalsAreNear StatementsAgree  PeriodsHoldTheirInstant NewsIsNotRepeated
PROPERTY ConversionIsWhole
CHECK_DEADLOCK FALSE

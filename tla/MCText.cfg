CONSTANTS
  MaxLen = 5  Chars = {"x", "n"}  Strings <- MCStrings  Delims <- MCDelims  Limits = {0, 1, 2, 3, 7}
  Bases = {16, 32, 64}  Inputs <- MCInputs  Sources <- MCSources
  Junk = "junk"  Null = "null"  Items = {"a", "b", "c"}  Rank <- MCRank
  MinSize = 2  Width = 4  MaxEntries = 4
  SortInputs <- MCSortInputs  QsInputs <- MCQsInputs  Threshold = 3
  Letters = {"a", "b"}  Patterns <- MCPatterns  Subjects <- MCSubjects
  ArgLists <- MCArgLists  RawLines <- MCRawLines
  Texts16 <- MCTexts16  Callers = {"bytes", "chars", "all"}
  CvTexts <- MCCvTexts  MinOut = 2  CvLimit = 1000
  Documents <- MCDocuments  CutPieces = 3
  RowSets <- MCRowSets  NoValue = NoValue  IntHalf = 4
  SqStrings <- MCSqStrings  SqNumbers <- MCSqNumbers
  U8Any <- MCU8Any  U8Good <- MCU8Good  U16Any <- MCU16Any
  Scripts <- MCScripts  PipeSize = 1  ReadSize = 2
  FcWriters = {"w1", "w2"}  FcReaders = {"r"}  Blocks = 2  Calls <- MCCalls
  DgLengths <- MCDgLengths  DgBlock = 8  DgBits = 2  DgWord = 32
  CmBlock = 2  Perm <- MCPerm  CmIv <- MCIv  CmPlains <- MCPlains  CmCiphers <- MCCiphers
  Drives = 2  Sectors = {"s1", "s2", "s3"}  Modelled = {"s1", "s2"}  ScsiOrder <- MCScsiOrder
  MaxLoads = 2  MaxChanges = 1
SPECIFICATION MCSpec
INVARIANTS
  AlgorithmsTypeOK SplitExact ArrCorrect CryptoCorrect SortsCorrect TextCorrect
  ConversionsCorrect SqlCorrect SystemCorrect
PROPERTIES ArrIsVector LoopsEnd
CHECK_DEADLOCK FALSE

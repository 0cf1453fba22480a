CONSTANTS
  Junk = "junk"  Null = "null"  Items = {"a", "b", "c"}  Rank <- MCRank
  MinSize = 2  Width = 4  MaxEntries = 4
  NUL = "nul"  Chars = {"a", "b"}  Words <- MCWords  Slack = 1  MinAlloc = 2  MaxStr = 3
  Elements = {"a", "b", "0"}  Zero = "0"  Block = 3  Initial = 1  MaxElements = 4
  Nodes = {1, 2, 3, 4}  None = 0  Data = {"x", "y"}  Key <- MCKey
  Keys = {"k1", "k2", "l", "m"}  Name <- MCName  Hash <- MCHash  Primes <- MCPrimes  Load = 5
  Values = {"v"}  Absent = "absent"  NoKey = "null"
SPECIFICATION MCSpec
INVARIANTS
  ContainersTypeOK VecCorrect StrCorrect GaCorrect ListsLinked HCorrect
PROPERTIES
  Implemented CallsKeepWord
CHECK_DEADLOCK FALSE

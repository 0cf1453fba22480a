CONSTANTS
  en = en
  zh = zh
  name = name
  undef = undef
  full = full
  half = half
  unknown = unknown
  engine = engine
  abs = abs
  cmd = cmd
  nocmd = nocmd
  k1 = k1
  k2 = k2
  Languages = {en, zh}
  Names = {name, undef}
  Undefined = undef
  Codes = {half, unknown}
  Classes = {engine, abs}
  Commands = {cmd, nocmd}
  TextTable <- MCTextTable
  TroubleTable <- MCTroubleTable
  LiveTable <- MCLiveTable
  CommandTable = {cmd}
  FileKey = k1
  NoKey = NoKey
  NoLanguage = NoLanguage
  NoClass = NoClass
  Registrations <- MCRegistered
  Calls = {"getText", "getTroubleCode", "getLiveData"}
  Faults = {"prepare", "step"}
  MaxSessions = 1
SPECIFICATION Spec
INVARIANTS TypeOK AnswersExact CursorBound RowsInOrder
PROPERTY EndMeansAllRows
CHECK_DEADLOCK FALSE

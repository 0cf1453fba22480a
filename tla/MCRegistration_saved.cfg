CONSTANTS
  Licences <- MCLicences
  Computers <- MCComputers
  Newline = "n"
  Fold <- MCFold
  IdMax = 3
  MessageLines = 7
  DatabasePassword = 4
  Language = 5
SPECIFICATION LoginSpec
INVARIANT SavedReadable

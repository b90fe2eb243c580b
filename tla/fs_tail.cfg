SPECIFICATION Spec
CONSTANTS
  a = a
  b = b
  Torn = Torn
  Paths <- OneFile
  HostSizes = {4}
  BlocksCount = 3
  BlockSize = 4
  StaleMounts = FALSE
INVARIANT
  ExportGivesImport

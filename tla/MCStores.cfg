CONSTANTS
  ifaceA = ifaceA
  ifaceB = ifaceB
  RtBits = 2
  RtOwn = 1
  RtIfaces = {lo, ifaceA, ifaceB}
  RtLo = lo
  RtName <- MCName
  RtLength <- MCLength
  RtMaxlen = 44
  RtTexts <- MCTexts
  RtReaders = {r1}
  RtUnset = unset
  RtNull = null
  RtMax = 4
  LgCells = 9
  LgLongest = 3
  LgEntries = 6
  LgRestarts = 2
  FtpUnits = 5
  FtpSizes = {1, 3, 4}
  FtpRanges = 2
  FtpCommands = 4
SPECIFICATION Spec
CHECK_DEADLOCK FALSE
INVARIANTS StoresTypeOK RtLongest RtRoundTrip LgReadsBack FtpResumes

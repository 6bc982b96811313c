\* One wiper, OSErrors, other programs, no short writes; an odd chunk at the end.
CONSTANTS
  Wipers = {w1}
  Paths = {p}
  Links = {}
  Passes <- ThreePass
  Random = "random"
  Zero = "0x00"
  SingleByte <- Bytes
  MultiByte <- Patterns
  FileSize = 5
  BufferSize = 2
  ShortWrites = FALSE
  Interference = {"overwrite", "extend", "truncate", "replace", "remove"}
  MaxErrors = 1
  MaxChanges = 1
SPECIFICATION FairSpec
INVARIANTS VerifiedPassesCover LastPassRemains
PROPERTY WipeEnds
\* a finished wipe stops the model
CHECK_DEADLOCK FALSE

\* Two wipers, short writes, OSErrors, and other programs at work on the file.
CONSTANTS
  Wipers = {w1, w2}
  Paths = {p}
  Links = {}
  Passes <- RandomFirst
  Random = "random"
  Zero = "0x00"
  SingleByte <- Bytes
  MultiByte <- Patterns
  FileSize = 2
  BufferSize = 2
  ShortWrites = TRUE
  Interference = {"overwrite", "extend", "truncate", "replace", "remove"}
  MaxErrors = 1
  MaxChanges = 1
SPECIFICATION Spec
SYMMETRY Symmetric
INVARIANTS TypeOK VerifiedMeansErased ErrorsNeverVerified
\* a finished wipe stops the model
CHECK_DEADLOCK FALSE

\* One batch over up to two of a file, a folder and a socket, two over one of them,
\* or three over the socket.
CONSTANTS
  Files = {1, 2}
  Targets = {"link", "folder", "socket"}
  Kind <- KindOf
  Under <- FilesOf
  Drive <- DriveOf
  Standards = {"DOD_5220_22M_3PASS", "NIST_800_88_PURGE"}
  MaxTargets = 2
  MaxBatches = 3
  MaxChanges = 1
SPECIFICATION FairSpec
INVARIANTS TypeOK OneWorker UncertifiedIsCurrent UnwipedIsUnseen EndIsAccounted OverwritingIsNoPurge
PROPERTY BatchEnds
ACTION_CONSTRAINT MattersNow
CHECK_DEADLOCK FALSE

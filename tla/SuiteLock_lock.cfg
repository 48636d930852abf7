SPECIFICATION LockFairSpec
CONSTANTS
  Wrappers = {w1, w2, w3, ci}
  CI = {ci}
  CrashPoints = {"mkdir", "reclaim", "rename", "wait", "write", "spawn", "setChildPid", "await", "release", "rmdir"}
INVARIANTS OneGateWhileHoldersLive HolderOwnsDirectory
PROPERTIES EveryWrapperEnds

SPECIFICATION Spec
CONSTANTS
  Keys = {k1, k2}
  Actors = {"cycle"}
  Inodes = {i1, i2}
  NoInode = NoInode
  NoActor = NoActor
PROPERTIES AtomicQueue

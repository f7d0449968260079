SPECIFICATION Spec
CONSTANTS
  Keys = {k1}
  Actors = {"cycle", "realtime"}
  Inodes = {i1, i2, i3}
  NoInode = NoInode
  NoActor = NoActor
INVARIANTS NoPartialRead

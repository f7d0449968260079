SPECIFICATION FairSpec
CONSTANTS
  Keys = {k1}
  Actors = {"pipeline", "realtime"}
  Inodes = {i1, i2, i3}
  NoInode = NoInode
  NoActor = NoActor
INVARIANT TornOnlyByOverlap
PROPERTIES EveryCallEnds

\* Three shapes of different size compete for two places, and SetMaxBytes is
\* called while the cache is in use.
CONSTANTS
  Goroutines = {g1, g2}
  NoOne = NoOne
  q1 = q1
  q2 = q2
  k1 = k1
  k2 = k2
  k3 = k3
  Srcs = {q1}
  Keys = {k1, k2, k3}
  Encodings <- Shapes
  Encode <- DistinctEncode
  Calls <- ThreeShapes
  TooLong = {}
  Cap = 2
  Bytes <- MixedBytes
  InitMaxBytes = 3
  ByteBounds = {0, 2}
  MaxWork = 3
SPECIFICATION Spec
SYMMETRY GoroutineSymmetry
INVARIANTS
  TypeOK
  EvictionSound
  SnapshotFresh
PROPERTIES
  HitsNeverDecrease

\* Shape keys that share a map key, refused trees and failing compositions.
CONSTANTS
  Goroutines = {g1, g2}
  NoOne = NoOne
  q1 = q1
  q2 = q2
  k1 = k1
  k2 = k2
  k3 = k3
  Srcs = {q1, q2}
  Keys = {k1, k2}
  Encodings = {q1, q2}
  Encode <- CollidingEncode
  Calls <- CollidingCalls
  TooLong <- RefusedShapes
  Cap = 2
  Bytes <- UnitBytes
  InitMaxBytes = 0
  ByteBounds = {1}
  MaxWork = 2
SPECIFICATION FairSpec
INVARIANTS
  ServedMatches
PROPERTIES
  ServiceSpec
  CallsReturn
  MutexReleased

SPECIFICATION Spec
CONSTANTS
  Devices = {d1, d2}
  TTL = 4
  Cycle = 1
  Tasks = {t1, t2}
  Sessions = {s1}
  Manifests <- MCManifests
  Requests <- MCRequests
  Durations <- MCDurations
  Ceiling = 1
INVARIANTS
  AnnouncedIsListed
  SilentIsForgotten
PROPERTY UsedWithinGrant

CONSTANTS
  Apps = {"yolox310p", "deepsort310p", "fusion310p", "yoloxOrin", "deepsortOrin", "fusionOrin"}
  Instances <- MCInstances
  MaxIO = 2
  Device = 0
  Workers = {t1, t2}
  Packets = {p1, p2}
  Crops = 2
SPECIFICATION Spec
SYMMETRY Interchangeable
INVARIANTS NoDangling EnvCounted CleanedUp OwnContext OwnResult

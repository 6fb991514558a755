CONSTANTS
  SECTORSIZE = 4
  GRAINSECTORS = 2
  GTEPERGT = 2
  OFFSETSIZE = 2
  DescriptorSize = 1
  MaxExtent = 24
  MaxMonolithic = 40
  Sizes = {1, 8, 12, 15, 16, 17, 32, 40, 41, 56}
SPECIFICATION Spec
INVARIANTS GrainAligned

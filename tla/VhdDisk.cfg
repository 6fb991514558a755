SPECIFICATION SpecVhd
CONSTANTS
  N = 2
  Requests = {0, 1, 516096, 1048577, 1550000, 4194304}
  Heads = 16
  Sectors = 63
  MaxCylinders = 16
  sectorsPerBlock = 4096
INVARIANTS
  NoOverflow
  RegionsApart
  VhdIsTheDisk

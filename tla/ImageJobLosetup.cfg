SPECIFICATION SpecJob
CONSTANTS
  Schemes <- SomeSchemes
  Roots <- SomeRoots
  PlainRoots <- SomePlainRoots
  Contents <- SomeContents
  SwapSizes = {0, 64}
  FreeSpace = 10
  Numerals <- SomeNumerals
  Formats = {"raw_hd", "raw_fs", "vmware", "esx", "vpc", "virtual_iron", "xen_ova", "ami", "tarball", "ami_s3"}
  Varied = {"raw_hd", "raw_fs", "ami", "tarball"}
  Sizes = {1, 2, 4, 5}
  ChunkLimit = 2
INVARIANT LosetupOwn

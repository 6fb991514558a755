SPECIFICATION Spec
CONSTANTS
  Kinds = {"installable", "update", "appliance"}
  MaxDiscs = 3
  Radix = 3
  TarSizes = {3, 4}
  chunkSize = 2
  Signers = {"a"}
  Templates <- SomeTemplates
  Media <- SomeMedia
INVARIANT DiscLaid

SPECIFICATION Spec
CONSTANT N = 7
INVARIANT ExtractedOnParent

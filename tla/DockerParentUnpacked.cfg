SPECIFICATION Spec
CONSTANT N = 6
INVARIANT ParentUnpacked

SPECIFICATION Spec
CONSTANT SkipExtensions = {"doc", "other"}
INVARIANT NativeNeverExtracted

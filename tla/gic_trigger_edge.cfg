SPECIFICATION Spec
CONSTANT Intids = {14, 15, 30, 31, 32, 33}
INVARIANT HasTypeAskedFor

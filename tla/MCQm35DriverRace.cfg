SPECIFICATION Spec
CONSTANT
  Callers = {c1, c2}
  MaxRegFails = 0
INVARIANT StartedIsListening

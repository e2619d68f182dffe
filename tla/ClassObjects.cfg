SPECIFICATION Spec
CONSTANTS
  Functions = {f}
  Properties = {p}
  MaxClasses = 4
  MaxBases = 2
  MaxCalls = 3
INVARIANTS InheritsUnlessAmbiguous MethodsGetTheirBase InitializedOnce
CHECK_DEADLOCK FALSE

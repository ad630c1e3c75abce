\* Two outputs and two inputs.
SPECIFICATION Spec
CONSTANTS
    Num = 2
    Null = Null
INVARIANT OutputTakesEffect

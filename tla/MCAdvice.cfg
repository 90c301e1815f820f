\* No number above 99 fits.
CONSTANTS
    Inputs <- MCInputs
    None = None
    U32Max = 99
SPECIFICATION Spec
INVARIANTS TypeOK FirstHintKept JavaAdviceFits HardeningAgreed

SPECIFICATION FramingSpec
CONSTANTS
    Char = {"x", "y"}
    MaxBytes = 6
INVARIANTS
    NoLineHeldBack
    LinesAreTheInputs

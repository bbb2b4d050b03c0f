CONSTANTS
    levels <- MCLevels
    output_ohm = 100000
    full_ohm = 200000
    Readings <- MCReadings
SPECIFICATION Spec
INVARIANT VoltageOrError

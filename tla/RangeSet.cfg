CONSTANTS
    Key <- MCKey
    NULL = 0
SPECIFICATION Spec
PROPERTIES
    ImplementsIntervals

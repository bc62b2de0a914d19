SPECIFICATION Spec
CONSTANTS
    Templates <- MCTemplates
    Helpers <- MCHelpers
    Values <- MCValues
    Names = {"this", "x", "y"}
INVARIANTS TypeOK RendersMeaning MisnestedRefused
\* The rendering ends.
CHECK_DEADLOCK FALSE

\* Methods and ids of up to 3 characters over d, i and the two separators.
\* The inputs do not change: the run evaluates the conversions on each.
CONSTANTS
    Letters = {"d", "i"}
    MaxLen = 3
SPECIFICATION Spec
INVARIANT
    TextRoundTrip

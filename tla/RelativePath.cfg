\* Absolute paths over x, y and '/', bases of up to 3 characters and full
\* paths of up to 4.  The inputs do not change.  The base /x and the full
\* path /xx, a sibling of /x, give "x".
CONSTANTS
    Letters = {"x", "y"}
    MaxLen = 3
SPECIFICATION Spec
INVARIANT RelativeIsSubpath

SPECIFICATION Spec
CONSTANTS
    c1 = c1
    c2 = c2
    m1 = m1
    m2 = m2
    Callers <- OneCaller
    Boot = Boot
    Reader = Reader
    Messages <- OneMessage
INVARIANT NoEventMissed
\* The calls are finite in number.
CHECK_DEADLOCK FALSE

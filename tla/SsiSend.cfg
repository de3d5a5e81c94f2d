CONSTANTS
    Chars <- MCChars
    Pages <- MCPages
    Inserts <- MCInserts
    MaxName = 2
    SndBuf = 16
    MaxSend = 9
SPECIFICATION Spec
INVARIANT SentIsPrefix
INVARIANT ClosedWhenSent
INVARIANT NoStall
PROPERTY CallReturns
\* A page that has been sent is left alone.
CHECK_DEADLOCK FALSE

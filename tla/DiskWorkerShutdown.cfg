CONSTANTS
    Tasks = {c1, c2, settler, closer}
    Settler = settler
    Closer = closer
SPECIFICATION FairSpec
PROPERTY CloseEndsThread
CHECK_DEADLOCK FALSE

\* The first message of a node, through a whole cycle of the MTI, and messages
\* whose MTI is four characters of any kind.
CONSTANTS
    Ids = {0, 7, 42, 998}
    StrangeChars = {0, 2, 9, 10, 11, 12, 13}
    MaxHops = 1001
    MaxStrangeHops = 3
SPECIFICATION Spec
INVARIANT TextFollowsFormat
INVARIANT RouterAndNodesAgree
INVARIANT RepliesParse
CHECK_DEADLOCK FALSE

SPECIFICATION Spec
CONSTANT Msgs = 4
PROPERTIES ConnectResolved RepliesRead
CHECK_DEADLOCK FALSE

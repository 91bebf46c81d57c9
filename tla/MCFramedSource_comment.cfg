SPECIFICATION Spec
CONSTANT MaxPacket = 4
INVARIANT DataBeforeAfterGetting
CHECK_DEADLOCK FALSE

CONSTANT MaxPackets = 2
SPECIFICATION Spec
INVARIANT ReleasedWhenUnlocked

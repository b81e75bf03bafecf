CONSTANT MaxPackets = 4
SPECIFICATION Spec
INVARIANTS
  TypeOK
  InOrder
  AllReleased
PROPERTY PacketCustody

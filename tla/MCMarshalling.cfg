SPECIFICATION Spec
CONSTANTS
  a1 = a1
  a2 = a2
  a3 = a3
  Addresses <- ThreeAddresses
  Null = null
  Serverbound <- AllServerbound
  Handled <- WithHandler
  Clientbound <- AllClientbound
  MaxReceived = 3
  MaxReplies = 2
INVARIANTS
  OneOwner
  PacketsSurvive
  FieldsSurvive
  FitsTheBuffer
SYMMETRY Symmetry
CHECK_DEADLOCK FALSE

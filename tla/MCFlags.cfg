SPECIFICATION Spec
CONSTANTS
  a1 = a1
  a2 = a2
  a3 = a3
  Addresses <- ThreeAddresses
  Null = null
  Serverbound <- AllServerbound
  Handled <- WithHandler
  Clientbound <- AllClientbound
  MaxReceived = 1
  MaxReplies = 0
INVARIANTS
  FlagsSurvive
SYMMETRY Symmetry
CHECK_DEADLOCK FALSE

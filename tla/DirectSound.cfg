SPECIFICATION Spec
CONSTANTS
  Half = 2
INVARIANTS
  RequestIsAnnounced
  RefillFits
  EchoesEnd
PROPERTY
  RequestIsAnswered

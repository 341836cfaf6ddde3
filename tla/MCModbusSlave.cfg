SPECIFICATION FairSpec
CONSTANTS
  TcpLinks = {"conn"}
  RtuLinks = {"line"}
  Menu <- MCMenu
  MayDrop = {"line"}
  HeadSize = 2
  MaxFrame = 4
  RxMax = 2
  MinRtu = 2
  AddrSpace = 8
  LowByte = 4
  MaxQuantity <- MCMaxQuantity
  RegMap <- MCRegMap
  DataMod = 4
  Inputs <- MCInputs
  Outputs <- MCOutputs
  MaxVersion = 1
INVARIANTS TypeOK AnswersInOrder WriteSetsThePrefix FlagFollowsData ReadKeepsOrder
PROPERTIES WritesInRange RequestsAnswered
CHECK_DEADLOCK FALSE

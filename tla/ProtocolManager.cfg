SPECIFICATION Spec
CONSTANTS
  MaxProtocols = 4
  MaxHandlers = 2
  NoProtocol = NoProtocol
  NoHandler = NoHandler
  Service = Service
  Spared = 1
  MaxChain = 2
  MaxOutput = 1
  MaxBatch = 2
INVARIANTS
  PointersMutual
  NoDoubleFree
  CarrierHasChain
  NothingLeftBehind
  GracefulIsRemembered

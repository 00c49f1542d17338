CONSTANTS
  Devices <- AllDevices
  Data <- MCData
SPECIFICATION Spec
INVARIANT MappedPagesExist

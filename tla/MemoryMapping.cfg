CONSTANTS
  Devices <- AllDevices
  Data <- MCData
SPECIFICATION Spec
INVARIANTS BanksCurrent RestoringRestores WindowsInv
PROPERTIES PortsKeepToTheirBanks

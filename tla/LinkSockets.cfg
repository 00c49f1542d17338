CONSTANTS
  none = none
  leaver = leaver
  sender = sender
  idle = idle
  nobody = nobody
  file = file
  Bytes <- MCBytes
  Nothing = none
  Assisted = TRUE
  Clients <- MCClients
  Nobody = nobody
  File = file
  Slots = 2
  AcceptPeriod = 0
  Backlog = 1
  Text <- MCText
  GuestText <- MCGuestText
  Leavers <- MCLeavers
  GuestMasks <- MCGuestMasks
SPECIFICATION FairHostSpec
INVARIANTS HandshakeInv BytesArrive ClientsHear
PROPERTIES ImplementsChannel TransmitterRecovers

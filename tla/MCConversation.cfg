SPECIFICATION ConversationSpec
CONSTANTS
  MaxTickets = 3
  NoContact = NoContact
  NoThread = NoThread
  Contacts = {c1, c2}
  Threads = {h1}
  Agents = {a1}
  Asked = {"open", "pending", "on_hold", "resolved", "closed"}
  Closers = {a1}
  Customers = {r1, r2}
INVARIANTS
  OneLivePerChain
  OneLivePerThread
  ChainIsCoherent
PROPERTIES
  ClosedHasOneDoor
  NoLostTransition
  MessageComesWithItsReopen
  JoinsAskAgain
CHECK_DEADLOCK FALSE
SYMMETRY Symmetry
CONSTRAINTS ThirdIsPlain HoldIsPlain ThreeAreOneContacts

SPECIFICATION Spec
CONSTANTS
  Mail <- MCMail
  Here = here
  Asker = asker
  Requests = {h1}
  Loop = loop
  Capacity = 1
  MaxArrivals = 3
  Nothing = Nothing
INVARIANTS
  FetchedInOrder
  AnsweredOnce
PROPERTY FetchedIsHandled

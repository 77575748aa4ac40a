SPECIFICATION Spec
CONSTANTS
  None = None
  Home = Home
  Cafe = Cafe
  Alice = Alice
  Addr = {Home, Cafe}
  Client = {Alice}
  Browser = {Alice}
  ChallengeOf <- Challenges
  Start <- AtHome
  Version <- Current
  Auth <- HashedCdKey
  Form <- Snappy
  MaxConnections = 2
  MaxAttempts <- Attempts2
  MaxMoves <- Moves1
CHECK_DEADLOCK FALSE
INVARIANT TypeOK
INVARIANT ChallengeFirst
INVARIANT AcceptedIsRouted
PROPERTY AttemptsEnd

SPECIFICATION Spec
CONSTANTS
  s1 = s1
  s2 = s2
  alice = alice
  home = home
  co = co
  o1 = o1
  p1 = p1
  p2 = p2
  Submissions <- TwoSubmissions
  PhoneOf <- OnePhone
  IpOf <- OneAddress
  CountryOf <- Country
  Offers <- OneOffer
  Prices <- TwoPrices
  Limits <- TwoLimits
  Faults <- AllFaults
  MaxChanges = 1
SYMMETRY Symmetry
INVARIANTS
  SoldAsOffered
  ScreeningSeesThePast
  RateLimitHolds
  AnswerIsTrue
CHECK_DEADLOCK FALSE

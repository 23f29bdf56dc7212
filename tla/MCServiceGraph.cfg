SPECIFICATION Spec
CONSTANTS
  Mode <- mcMode
  Plans <- mcPlans
  Factory <- mcFactory
  Offers <- mcOffers
  Settings <- mcSettings
  Service <- mcService
INVARIANTS NoDangling TwoWay NeverStuck

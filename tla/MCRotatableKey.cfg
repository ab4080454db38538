CONSTANTS
  Interval = 2
  MaxTime = 8

SPECIFICATION Spec

INVARIANT TypeOK
INVARIANT TokenLifetimeWindow

PROPERTY TokenLifetime

CONSTANTS
  MaxFileSize = 2
  MaxTexts = 14
SPECIFICATION Spec
INVARIANTS TypeOK IntactChain DamageIsLocal
PROPERTY VerifiedStaysVerified

SPECIFICATION FairSpec
CONSTANTS
  WORKERS = {w1, w2}
  SECTORS = 3
  Images <- MCImages
  Factory <- MCFactory
INVARIANTS TypeOK BootsVerified
PROPERTIES FlashReleased RebootComes

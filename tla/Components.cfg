SPECIFICATION Spec
CONSTANTS
  Nil = Nil
  j1 = j1
  p1 = p1
  p2 = p2
  t1 = t1
  t2 = t2
  r1 = r1
  c1 = c1
  q1 = q1
  q2 = q2
  w1 = w1
  w2 = w2
  e1 = e1
  e2 = e2
  f1 = f1
  f2 = f2
  f3 = f3
  n1 = n1
  n2 = n2
  n3 = n3
  g1 = g1
  g2 = g2
  y1 = y1
  y2 = y2
  k1 = k1
  y3 = y3
  j2 = j2
  r2 = r2
INVARIANTS
  TypeOK
  PanelIsHonest
  PublishedAsConfirmed
  ReviewIsKept
  BridgeIsSound
  PreparationIsFenced
  WorldEditsAreKept
  RemovesOwnMarker
  WorldIsProven
  LibraryIsKept
  PortraitIsProven
  SegmentIsKept
  AuthoringIsScoped
  ComparisonIsWhole
  TransfersAreVerified
  CanonIsDecided
  LoaderShowsWork
  SourceIsKept
  InstallationIsWhole
PROPERTIES
  NeverOlder
  SavesWhatIsShown
  PromotionIsWanted
CHECK_DEADLOCK FALSE

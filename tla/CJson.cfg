SPECIFICATION UseSpec
CONSTANTS
  Null = Null
  Items = {i1, i2, i3, i4}
  Kinds <- AllKinds
  Arrays <- Lists
  Names = {"a", "A"}
  MaxCount = 2
  NestingLimit = 2
  IntMax = 40
  DefaultSize = 4
  NumberSize = 63
  MaxWeight = 4
  SmallWeight = 3
  Texts <- OtherTexts
  Damage <- WrongBytes
SYMMETRY Sym
INVARIANTS LinksRight TextKeepsTree ParserStrict NothingLost RoomRight AccessRight
CHECK_DEADLOCK FALSE

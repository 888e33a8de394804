CONSTANTS
  Letters = {"s", "u", "n", "y", " ", "."}
  Table <- MCTable
  LineMax = 3
  CountMod = 8
  Garbage = {0}
  Fifo = 2
  Space = 12
  Line = 4
  Default = 5
  Widths = {1, 2, 4}
  FillWidths = {1, 4}
  Typed = {0, 1, 3, 4, 6, 11}
  Names = {"D", "DM", "F", "M"}
  MaxEdits = 1
  Size = 6
  Bits = 2
  Unroll = 2
  DdrStarts <- MCDdrStarts
  DdrSize = 3
  Base = 4
  WorkSize = 6
  Word32 = 16
  Sector = 2
  CardSize = 9
  Tops = {0, 2, 14}
  Places = {0, 2, 3, 6, 14, 15}
  LengthMax = 2
  RecordsMax = 2
  Radix = 2
  Digits = 3
  Full = 4
  Ten = 3
  Positions = 2
  CellSizes = {1, 2, 4}
  AddressUnit = 2
  StartUnit = 4
  DefaultTop = 6
  BootUnit = 2
  Cards <- MCCards
  KeyMax = 4
SPECIFICATION MCSpec
INVARIANT LineIsTyped
INVARIANT NumbersAgree
PROPERTY RunsWhatIsTyped
INVARIANT AccessAligned
INVARIANT DumpResumes
INVARIANT FillExact
INVARIANT VerdictRight
 

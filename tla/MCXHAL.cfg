CONSTANTS
  Docs <- MCDocs
  Vars <- MCVars
  Width = 4
  AddrMod = 64
  AddrOffset = 16
  StoiTakes0b = FALSE
  Clients = {c1, c2}
  Registers = {20}
  InitWords <- MCInitWords
  Reads <- MCReads
  RawReads = {20}
  Writes <- MCWrites
  MaxCalls = 2
SPECIFICATION Spec
INVARIANTS
  TypeOK
  TableMatches
  FieldsKept
PROPERTIES
  ReadsBack
CHECK_DEADLOCK FALSE

CONSTANTS
  Char <- MCChar
  Nul = "nul"
  Space <- MCSpace
  Octal = {"0", "1"}
  Digit <- MCDigits
  Letters = {"n"}
  EscapeOf <- MCEscape
  OctalValue <- MCOctalValue
  MaxUlong = 65535
  OctalCode = "code"
  NoDelim = NoDelim
  Optionv <- NctOptionv
  Paramv <- NctParamv
  NoParamv = NoParamv
  NoOption = NoOption
  Variables <- MCVariables
  Default <- MCDefault
  NumberOf <- MCNumberOf
  Infinity = 2000000
  Domain <- MCDomain
  Suffix <- MCSuffix
  CommandLines <- MCCommandLines
  Lines <- MCLines
  LibraryCalls <- MCLibraryCalls
  Alnum = {"host", "x", "user"}
  Lower <- MCLower
  NoMount = NoMount
  MaxLength = 65536
SPECIFICATION Spec
INVARIANTS StartupTypeOK BufferBound SplitAsDescribed AcceptedLine ArgumentsHandedOut MountsWhatWasAsked

SPECIFICATION Spec
CONSTANTS
  Tag = 2
  Room = 20
  Lengths = {0}
  Places = {0}
  Radix = 4
  Barrier = 2
  Word = 2
  SizeMax = 5
  Strings <- MCStrings
  Texts <- MCTexts
  Blocks = {0, 1, 2, 3, 4}
  Counts = {0, 16, 24, 32, 8191, 8192, 65536}
  SignedChar = TRUE
  Data <- MCData
  HexTexts <- MCHexTexts
  B64Texts <- HighTexts
  Ignored = {{}, {32, 58}}
  Room64 = {0, 3}
  Plus <- MCPlus
  Mix <- MCMix
  Rotl <- MCRotl
  WordSize = 256
  ByteSize = 4
  Rounds20 = 4
  Rounds12 = 6
  Rounds8 = 2
  Sigma <- MCSigma
  Key <- MCKey
  Nonce <- MCNonce
  StreamLengths = {0}
  Counters = {0}
  H = 5
  C = 3
  Factors <- MCFactors
  Loose = {}
  LooseB = {}
  Signed = {}
  SignedB = {}
  Unreduced = {}
  Multipliers = {1, 38, 500}
  Spare = 3
  B = 6
  M <- MCM
  FactorsL <- MCFactorsL
  Scalars = {}
  ScalarsB = {}
  Wides = {}
  Moduli <- MCModuli
  Q = 61
  D = 40
  Generator <- MCGenerator
  Order = 7
  OrderDigits <- MCOrderDigits
  Nibbles = 4
  Denominators = {5}
  Width = 6
  LowBits = 2
  Montgomery = 10
  EighthY = {6, 55}
  SqrtM1 = 50
  SqrtADM1 = 9
  InvSqrtAMD = 34
  SecondStrings = {}
  Hash <- MCHash
  EighthU = {8, 23}
  MessageMax = 16
  PointScalars = {}
  CoreScalars = {}
  Seeds = {0}
  Messages = {}
  SignatureStrings = {1, 6, 7, 17, 34, 63, 71}
  SValues = {0, 1, 4, 5, 7, 8191, 8192}
  SignedLengths = {}
  HalfBits = 12
  ByteBits = 6
  P64 = {11, 9, 8}
  Aes <- MCAes
  GcmNonce <- MCGcmNonce
  GcmText <- MCGcmText
  HashKeys <- MCHashKeys
  SubByte <- MCSubByte
  XorByte <- MCPlus
  KeyBytes <- MCKeyBytes
  GcmSizeMax = 310
  GcmLengths = {0}
  AdLengths = {0}
  InPlace = {TRUE, FALSE}
  BlaMka <- MCMix
  XorWord <- MCPlus
  RotrWord <- MCRotl
  MixWords <- MCMixWords
  Compress <- MCMix
  XorBlocks <- MCPlus
  FirstBlock <- MCFirstBlock
  Address <- MCAddress
  WordOf <- MCWordOf
  Spread <- MCSpread
  Salt <- MCSalt
  RandBits = 4
  ADDRESSES_IN_BLOCK = 2
  UINT32_MAX = 300
  ULONG_MAX = 1234
  ARGON2_MAX_LANES = 20
  Fillings = {8, 9, 13, 16, 17, 27, 35}
  BLAKE_MAX = 4
  LongLengths = {1, 2, 3, 4, 5, 6, 7, 8, 9, 10, 11, 12, 13}
  Memlimits = {8191, 8192, 9215, 9216, 10241}
  MEMLIMIT_MAX = 10240
  STRBYTES = 128
  Numerals <- MCNumerals
INVARIANT OnlyAlphabet

CONSTANTS
    Symbols <- AllSymbols
    KeyLength = 2
    KeyTexts <- TwoByteKeys
    TokenLength = 3
    Path <- TwoMixers
    Mailbox = "box"
    Address <- Addresses
    CipherTexts <- Ciphers
    NonceBytes = 3
    MacBytes = 1
    Sizes = 4
    MaxLength = 4
    Files <- ConfigFiles
    Digital = {"10.0.0.1", "10.0.0.2"}
    MaxLen = 12
    FileTexts <- FileBytes
    Mails <- SomeMails
    MaxCalls = 2
SPECIFICATION Spec
INVARIANTS LinesReadBack ArrivesIffUnmarked OpensUnlessCut RightSection AttachmentsDecode SentAsMeant
CHECK_DEADLOCK FALSE

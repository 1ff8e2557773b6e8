\* Chirps of up to five characters, with limits of four; headers of up to five
\* characters, two-byte refresh tokens, keys of three digits.
CONSTANTS
    Char <- MCChar
    Space = " "
    Width <- MCWidth
    Lower <- MCLower
    BadWords <- MCBadWords
    Mask <- MCMask
    MaxBytes = 4
    MaxRunes = 4
    MaxTyped = 5
    Hex = {"0", "f"}
    Base64 = {"z"}
    Other = {"?"}
    refreshTokenLength = 2
    apiKeyTokenLength = 3
    MaxText = 5
SPECIFICATION InputSpec
INVARIANTS NoBadWord NothingLost TokensReturn OneKind
CHECK_DEADLOCK FALSE

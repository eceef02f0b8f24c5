CONSTANTS
    Width <- MCWidth
    SafeChars <- MCSafe
    MAX_HANDSHAKE_NAME_LEN = 4
    MAX_PEER_NAME_CHARS = 2
    MaxNameChars = 5
    MaxForeign = 4
SPECIFICATION Spec
INVARIANTS LabelSafe FramingKept LabelIsOfName

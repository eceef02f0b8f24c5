\* Two-byte fields, four byte values, three packets of four bytes.
CONSTANTS
    FIELD_SIZE = 2
    BYTE = 4
    MaxPackets = 3
SPECIFICATION Spec
INVARIANT CodecRoundTrip
PROPERTY DeliversInOrder

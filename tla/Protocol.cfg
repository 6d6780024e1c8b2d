SPECIFICATION WireSpec
CONSTANTS
    Base = 5
    IntModulus = 66
    Messages <- MCMessages
    Scripts <- MCScripts
INVARIANT WireTypeOK
INVARIANT NetworkByteOrder
PROPERTY ChannelSpec

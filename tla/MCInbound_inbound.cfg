\* Every configuration and every kind of header; every message.
CONSTANTS
    Ip4 = {41, 42, 43, 44}
    Ip6 = {61, 62}
    Port = {7, 8}
    MAX_HEADER_SIZE = 12
    Base = 4
    MAX_FRAME_LENGTH = 60
    Cases <- MCCases
    Direct <- MCDirect
    Local <- MCLocal

SPECIFICATION Spec
CHECK_DEADLOCK FALSE

INVARIANTS
    BytesConserved
    ChunkingIrrelevant
    HeaderHonoured
    UpstreamLearnsOrigin
    MessagesIntact

PROPERTY Served

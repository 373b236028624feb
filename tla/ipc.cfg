SPECIFICATION Spec
CONSTANTS
    HeaderSize = 3
    LengthSize = 2
    MagicSize = 1
    BufferSize = 15
    Characters = {"a", "b"}
    Texts <- TheTexts
    PortNumbers = {0, 7}
    StrayLengths = {1, 3}
    MaxMessages = 3
INVARIANTS Delivered NothingInvented SenderBounds ReceiverInBounds
\* The writer stops after MaxMessages.
CHECK_DEADLOCK FALSE

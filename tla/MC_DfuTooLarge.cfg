CONSTANTS
    BlockPages = 2
    FlashPages = 3
    SmallestPages = 2
    ImageSizes = {4}
    Polls = 2
    Old = Old
    Erased = Erased
    Unset = Unset
SPECIFICATION Spec
PROPERTY SuccessMeansInstalled

CONSTANTS
    BlockPages = 2
    FlashPages = 3
    SmallestPages = 2
    ImageSizes = {1, 3, 4}
    Polls = 2
    Old = Old
    Erased = Erased
    Unset = Unset
SPECIFICATION Spec
INVARIANTS TypeOK ConfirmedIsFlashed OnlyTheImage AnswerInPlace TimeoutsExplained
PROPERTIES UploadIsComplete DownloadsFinish

SPECIFICATION AttachmentsFairSpec
CONSTANTS
    Messages = {1, 2, 3, 4}
    Images = {1}
    a = a
    b = b
    Albums = {a, b}
    AlbumOf <- MCAlbumOf
    Alone = Alone
    NameOf <- MCNameOf
    Days = {1, 2}
    MaxPending = 1
INVARIANTS
    PartOnce
    OwnFile
PROPERTIES
    EveryFileSettles
CHECK_DEADLOCK FALSE

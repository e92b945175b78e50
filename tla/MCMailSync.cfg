CONSTANTS
    inbox = inbox
    archive = archive
    talk = talk
    None = None
    Boxes = {inbox, archive}
    Inbox = inbox
    Mids = {1, 2, 3}
    Anonymous = {2}
    Entry = {inbox}
    ThreadOf <- OneThread
    Window = 1
    BackWindow = 2
    Tail = 1
    MaxUid = 2
    MaxEvents = 1
SPECIFICATION Spec
INVARIANTS LockOwned NothingMissed UidNamesOwnMail
CHECK_DEADLOCK FALSE

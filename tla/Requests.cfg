SPECIFICATION Spec
CONSTANTS
    p1 = p1
    p2 = p2
    u1 = u1
    u2 = u2
    mail = mail
    phone = phone
    author = author
    reader = reader
    Handlers = {p1, p2}
    Email = mail
    Phones = {phone}
    Limit = 3
    MaxBlocks = 2
    Budgets <- MCBudgets
    Requests = {p1, p2}
    MaxRequests = 4
    MaxStops = 1
    Sessions = {p1, p2}
    MaxCalls = 6
    Talkers = {p1, p2}
    Author = author
    Readers = {reader}
    Ten = 2
    MaxTalks = 5
    MaxBreaks = 1
    Senders = {p1, p2}
    MaxNotes = 5
    Visits = {p1, p2}
    MaxAttachments = 1
    MaxVisits = 3
    MaxOutages = 1
    Mailers = {p1, p2}
    MaxMails = 5
    Curators = {p1, p2}
    Wishers = {u1, u2}
    Styles <- MCStyles
    Colors = {red}
    red = red
    MaxAvatars = 3
    MaxEdits = 4
    Tellers = {p1, p2}
    People = {u1, u2}
    Names <- MCNames
    Faces = {red}
    MaxTells = 3
    MaxFalls = 1
SYMMETRY Symmetry
INVARIANT ThrottleSound
INVARIANT AccountSound
INVARIANT AdminSound
INVARIANT TalkSound
INVARIANT InboxSound
INVARIANT DeskSound
INVARIANT CatalogSound
INVARIANT InfoSound
PROPERTY EmailKept
CHECK_DEADLOCK FALSE

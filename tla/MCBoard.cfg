CONSTANTS
    e1 = e1 e2 = e2 u1 = u1 f1 = f1 a1 = a1 a2 = a2 a3 = a3 o1 = o1 o2 = o2
    t1 = t1 t2 = t2 v1 = v1 v2 = v2
    Members = {a1, a2, a3, o1, o2} Moderators = {o1, o2} Taps = {t1, t2} Views = {v1, v2}
    Notes = {"n1", "n2"} TapOwner <- MCTapOwner MaxRows = 2 MaxComments = 2 MaxReports = 2
    Editors = {e1, e2} Users = {u1} Uploads = {f1}
    Names = {"n1", "n2"} Cats = {1, 2, 3} DefaultCat = 1
    NoNotice = NoNotice NoCategory = NoCategory NoCat = NoCat GoneCat = GoneCat
    NoEdit = NoEdit Nothing = Nothing NoComment = NoComment NoReport = NoReport GoneReport = GoneReport Idle = Idle
    PageSize = 2 FeedCategoryMaxCount = 3 MaxNotices = 4
SPECIFICATION MCSpec
PROPERTIES
    NoticesAreFound
    ReactionsAgree
    ModerationHolds
CHECK_DEADLOCK FALSE

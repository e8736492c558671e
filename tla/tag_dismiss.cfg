SPECIFICATION Spec
CONSTANTS
    Usable = {"veli", "ogrenci", "info-check", "hizmet-veremiyoruz"}
    Terminal = {"kayip", "sozlesme"}
    NeverTouch = {"aranacak"}
    Labels = {"veli", "ogrenci", "info-check", "hizmet-veremiyoruz", "kayip", "sozlesme", "aranacak", "deal_awaiting", "fiyat-soruyor", "ai", "tag", "human_needed"}
    Groups <- MCGroups
    First <- MCFirst
    Genders <- MCGenders
    Rooms <- MCRooms
    Universities <- MCUniversities
    Aliases <- MCAliases
    Campuses <- MCCampuses
    OutOfCity <- MCOutOfCity
    Hotels <- MCHotels
    DroppedWords = {"universitesi"}
    Stopwords = {"bu", "mu"}
    Distance <- MCDistance
    Length <- MCLength
    Descriptors = {"kampusu"}
    DefaultCampus <- MCDefaultCampus
    ListValues <- MCListValues
    Speech <- MCSpeech
    Answers <- MCAnswers
    AgentLabels = {"info-check", "aranacak"}
    AgentValues <- MCAgentValues
    Properties <- MCProperties
    DealList = {"goztepe", "biruni"}
    Begins <- MCBegins
    Assignees = {"nobody", "bot"}
    Handlers = {h1, h2}
    MaxWrites = 2
    MaxRuns = 1
    MaxEvents = 2
INVARIANT DismissalSticks
SYMMETRY MCSymmetry
CHECK_DEADLOCK FALSE

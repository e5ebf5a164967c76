SPECIFICATION ServicesSpec
CONSTANTS
    Agents = {p1, p2}
    Writers = {p1, p2}
    Attesters = {p1, p2}
    Reviewers = {p1, p2}
    SignIns = {o1, o2}
    Records = {o1, o2}
    Disputes = {o1, o2}
    Appeals = {o1, o2}
    Agreements = {o1, o2}
    Challenges = {h1, h2}
    Jobs = {h1, h2}
    Reviews = {h1, h2}
    Handlers = {h1, h2}
    Linkings = {h1, h2}
    Runs = {h1, h2}
    Entries = {1, 2, 3}
    Rows = {1, 2, 3}
    Proposals = {q}
    Facts = {f}
    OneSteward = s1
    Self = self
    NoOne = noone
    NoJob = nojob
    NoAuthor = noauthor
    NoClaim = noclaim
    Nobody = nobody
    NoSigner = nosigner
    NoAnswer = noanswer
    NoPlace = noplace
    NoRecord = norecord
    NoValue = novalue
    NoRun = norun
    NoProposal = noproposal
    n1 = n1
    n2 = n2
    n3 = n3
    n4 = n4
    Nodes = {n1, n2, n3, n4}
    Origin = n1
    Places = {n1, n2, n3}
    Signers = {n1, n2, n3}
    Stewards <- MCStewards
    StewardOf <- MCStewardOf
    AnswersFor <- MCAnswersFor
    Links <- MCLinks
    Weight <- MCWeight
    Trusts <- MCTrusts
    MaxAgents = 1
    Limits = {0, 1}
    MaxPerSteward = 1
    MaxTraces = 3
    MaxInFlight = 2
    MaxRows = 2
    Reports <- MCReports
    Proposed <- MCProposed
    InputWeight <- MCInputWeight
    Mandates <- MCMandates
    DefaultMandate <- MCDefault
    K = 2
    MaxTtl = 3
    MaxChanges = 2
SYMMETRY Symmetry
INVARIANTS TypeOK AccessIsAnsweredFor RecordsAreReviewed ConsentHolds FactsCountOnce AppealStands DeletionIsWhole EvidenceIsSettled ProvenIsSigned WordIsKept
PROPERTIES ActsAsMandated FindsEveryPath
CHECK_DEADLOCK FALSE

SPECIFICATION MCSpec
CONSTANTS
    Voters = {u1, u2, u3}
    MaxSec = 200
    MinAlertSec = 10
    Word = 100000
    Users = {u1, u2, u3, u4}
    GameScores <- MCGameScores
    Multiples = {1, 3}
    IntBound = 128
    Bettors = {b1, b2, b3, b4}
    MaxCoins = 3
    Hands = {1, 2}
    Bidders = {p1, p2, p3}
    Bots = {p3}
    FirstItems <- MCFirstItems
    Coins = 4
    BidRounds = 2
    Rounds = 1
    Penalty = 25
    DeckSize = 1
    Seats = 4
    Machines = {3, 4}
    Asked = {2, 30}
    Letters = {0, 3}
    Expects = {1}
    Turns = 2
    Rules = {3, 4, 9}
    Clerks = {t1, t2}
    Members = {m1, m2}
    Games = {g}
    Gains <- MCGains
    Required = 1
    MaxMatches = 2
    MaxBirths = 1
    MaxHonors = 1
    Admins = {a1, a2}
    Settings = {0, 1}
    Guests = 3
    Hearts = 1
    Gamblers = {c1, c2, c3}
    Androids = {c3}
    Chips = 3
    BaseEvery = 1
    Deals = 2
    Survivors = 1
    IntMax = 12
    Arguments = {"name", "text", "year", "here", "on", "3", "12th", "A", "new"}
    Endings = {"here", "6"}
    Radix = 2
    Room = 3
    MaxPayload = 2
    Payloads <- MCPayloads
    Result <- MCResult
    MaxRequests = 2
    MaxPushes = 1
    Hunts <- MCHunts
    Threads = {"long", "short"}
    Public = {"long"}
    Humans = {"h1", "h2"}
INVARIANTS
    InterruptedWhenUnanimous AlertsTellTheTruth
    PartTypesOK RecordsAddUp  EveryCardOnce ScoresAreFair
    LaterRoundsAreForTheBest TableIsFair SaidIsHeard PayloadsArrive
PROPERTIES
    GameEnds ChoicesAreLegal
CHECK_DEADLOCK FALSE

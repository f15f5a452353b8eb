CONSTANTS
    game = game
    tool = tool
    bash = bash
    home = home
    games = games
    play = play
    d1 = d1
    d2 = d2
    None = None
    Bare = Bare
    Command = Command
    Pids = {p1, p2}
    Users = {"ann"}
    Files = {game, tool, bash}
    Dirs = {d1, d2}
    Relative = {play}
    Joined <- MCJoined
    Patterns = {home, games}
    Under <- MCUnder
    Length <- MCLength
    Interpreters = {bash}
    Shells = {bash}
    Emulators = {}
    Reported = {game, tool}
    Images <- MCImages
    Lists <- MCLists
    Overlays <- MCOverlays
    MaxEvents = 3
    MaxChanges = 1
    MaxLost = 1
SPECIFICATION Spec
SYMMETRY MCSymmetry
CHECK_DEADLOCK FALSE
INVARIANTS TypeOK NoForbiddenSurvives TrackedIsOfThisProcess

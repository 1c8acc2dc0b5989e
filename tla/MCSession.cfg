SPECIFICATION FairSpec
CONSTANT Calls = {c1, c2, c3}
INVARIANTS NoGhostToken FlagHasToken HomeIsLoggedIn
PROPERTIES RefusedSessionEnds RefusedEndsLoggedOut

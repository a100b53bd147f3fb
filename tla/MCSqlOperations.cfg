SPECIFICATION FairSpec
CONSTANTS
    r1 = r1
    r2 = r2
    c1 = c1
    public = public
    member = member
    super = super
    owner = owner
    t1 = t1
    t2 = t2
    t3 = t3
    t4 = t4
    ghost = ghost
    None = None
    Requests = {r1, r2}
    Conns = {c1}
    Asks <- MCAsks
    Roles = {public, member, super, ghost}
    RoleKind <- MCRoleKind
    PublicRole = public
    Owner = owner
    Tokens = {t1, t2, t3, t4}
    RoleClaim <- MCRoleClaim
    Auth = {"secret"}
INVARIANTS
    RunsAsAsked
    NoStateSurvives
    RepliesTrue
PROPERTIES
    SqlAnswered
    ConnectionsReturn
CHECK_DEADLOCK FALSE

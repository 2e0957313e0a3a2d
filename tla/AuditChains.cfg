SPECIFICATION FairSpec
CONSTANTS
    c1 = c1
    c2 = c2
    s1 = s1
    s2 = s2
    a = a
    b = b
    None = None
    Chains = {c1, c2}
    Sessions = {s1, s2}
    Entries = {a, b}
    MaxLength = 2
    MaxPerTxn = 2
INVARIANT TypeOK
INVARIANT ChainsVerify
INVARIANT HeadStaysCurrent
INVARIANT DamageIsLocated
INVARIANT AnchorSeesCut
PROPERTY AppendsReturn

\* Create in its four modes, against any cluster and user.
SPECIFICATION FairSpec
INVARIANTS
    SuccessIsAsked
    AwaitIsServed
    CreateInv
PROPERTIES
    ImplementsConnect
    CreateSettles

SPECIFICATION Spec
CONSTANTS
    t1 = t1  t2 = t2  alice = alice  bob = bob  s1 = s1  s2 = s2
    Tab = {t1, t2}
    FLT = {alice, bob}
    SignIn = {s1, s2}
    MaxAge = 1
    MaxTime = 2
SYMMETRY Symmetric
INVARIANT SessionInv
INVARIANT LogoutInv
INVARIANT SignInHonoured
PROPERTY LogoutEnds
CHECK_DEADLOCK FALSE

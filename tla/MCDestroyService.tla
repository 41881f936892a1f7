-------------------------- MODULE MCDestroyService --------------------------
EXTENDS DestroyService

CONSTANTS a, b, c, f

ThreeRegistrations == {a, b, c}
OneCallback == {f}
NoCallbacks == {}

\* The registrations are treated alike by every definition.
AnyOrder == Permutations(ThreeRegistrations)

=============================================================================

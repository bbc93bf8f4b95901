--------------------------- MODULE MCDurableBuy ---------------------------
(* Instances of DurableBuy for TLC. *)
EXTENDS DurableBuy, TLC

CONSTANTS c1, c2, plan, rotated, other

\* "rotated" is "plan" after its webhook credential was rotated: the hash
\* excludes the credential.
MCCanon == (plan :> "P") @@ (rotated :> "P") @@ (other :> "Q")

\* Override keys: two that KEY_PATTERN admits, and a malformed one.
May   == << "may" >>
Short == << "x" >>

Derived(p)      == [plan |-> p, override |-> NoKey]
Supplied(p, k)  == [plan |-> p, override |-> k]

MCOverrides == {May, << "may", 2 >>, Short}
MCPattern   == MCOverrides \ {Short}

\* One plan, re-issued with a rotated credential, and under a malformed key.
Reissue == { Derived(plan), Derived(rotated), Supplied(plan, Short) }
\* Two supplied keys, one of which ends like the other's second attempt.
Suffixed == { Supplied(plan, May), Supplied(plan, << "may", 2 >>) }
\* One request, under a supplied and under a derived key.
Named  == { Supplied(plan, May) }
Single == { Derived(plan) }

\* A proxy's page, a proxy's JSON error, a redirect, and a 200 that is no JSON.
AllFaults == { Response(502, "other", NoBuy), Response(502, "object", NoBuy),
               Response(302, "object", NoBuy), Response(200, "other", NoBuy) }
NoBooking == { Response(502, "object", NoBuy), Response(200, "other", NoBuy) }
NoFaults   == {}

CallerSymmetry == Permutations(Callers)
=============================================================================

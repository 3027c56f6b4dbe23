-------------------------------- MODULE Lease --------------------------------
(***************************************************************************)
(* Lease and the clocks (libs/common/src/lease.cpp, clock.cpp): a lease is *)
(* issued by one clock and judged by another, as by two nodes.  The clocks *)
(* move forward by any amounts, and are set back; the tolerance given to   *)
(* IsExpired is meant to cover the skew between them.                      *)
(***************************************************************************)
EXTENDS Integers

CONSTANTS
  MaxTime,   \* bound on the clocks
  MaxTtl,
  Tolerance  \* clock_skew_tolerance, and the skew kept between the clocks

ASSUME LeaseConstants == MaxTime \in Nat /\ MaxTtl \in Nat /\ Tolerance \in Nat

VARIABLES
  issuer, judge,          \* the two clocks
  issued_at, ttl, leased, \* the lease, if there is one
  expired, asked          \* the last answer of IsExpired and when it was given

leaseVars == <<issuer, judge, issued_at, ttl, leased, expired, asked>>

LeaseInit == /\ issuer = 0 /\ judge = 0
             /\ issued_at = 0 /\ ttl = 0 /\ leased = FALSE
             /\ expired = FALSE /\ asked = [now |-> 0, expires |-> 0]

\* Advance and SetTo of the two clocks, as far as the skew allows; system clocks
\* are set back as well as forward.
SetTo(a, b) ==
  /\ a - b <= Tolerance /\ b - a <= Tolerance
  /\ issuer' = a /\ judge' = b
  /\ UNCHANGED <<issued_at, ttl, leased, expired, asked>>

IssueNow(d) ==
  /\ leased' = TRUE /\ issued_at' = issuer /\ ttl' = d
  /\ UNCHANGED <<issuer, judge, expired, asked>>

ExpiresAt == issued_at + ttl

\* Mutant: the tolerance shortens the lease.
IsExpired_Shortens(now) == now > issued_at + ttl - Tolerance

IsExpired(now) == now > issued_at + ttl + Tolerance

\* The judge asks; asked remembers the issuer's clock at that moment, and the
\* expiry by that clock.
Ask ==
  /\ leased
  /\ expired' = IsExpired(judge) /\ asked' = [now |-> issuer, expires |-> ExpiresAt]
  /\ UNCHANGED <<issuer, judge, issued_at, ttl, leased>>

LeaseNext == \/ \E a, b \in 0..MaxTime : SetTo(a, b)
             \/ \E d \in 0..MaxTtl : IssueNow(d)
             \/ Ask
LeaseSpec == LeaseInit /\ [][LeaseNext]_leaseVars

\* Whatever the two clocks did before, within the skew that the tolerance was
\* chosen for: no lease is called expired that the issuer's clock still grants,
\* and one is called expired once the issuer's clock is two tolerances past it.
ExpiryWithinSkew ==
  /\ expired => asked.now > asked.expires
  /\ asked.now > asked.expires + 2 * Tolerance => expired
=============================================================================

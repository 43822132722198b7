---------------------------------- MODULE Rsa ----------------------------------
(***************************************************************************)
(* RSA keys and the private operation (rsa.py): the generation of primes   *)
(* and keys, the checks on numbers that are loaded, and the blinded CRT    *)
(* operation, whose two halves a fault may change, with its release check. *)
(***************************************************************************)
EXTENDS ModArith, FiniteSets

CONSTANTS
  SmallPrimes,    \* the primes of trial division
  MinKeyBits,     \* MIN_KEY_BITS
  RsaRequests,    \* records of bits and e, arguments of generate_private_key
  RsaFiles,       \* records of the numbers of a key, as a file may hold them
  RsaBlindings    \* bound: random numbers that blind

\* The checks of generate_private_key on its arguments.  e has 32 bits at most and MIN_KEY_BITS is
\* 1024, so that e is far below the product of the least primes that may be drawn.
ASSUME RequestsAssumption ==
  /\ MinKeyBits \in Nat
  /\ \A a \in RsaRequests :
       /\ a.bits \in Nat /\ a.bits >= MinKeyBits
       /\ a.e \in Nat /\ a.e >= 3 /\ a.e % 2 = 1
       /\ \A low \in {2 ^ (a.bits \div 2 - 1)}, high \in {2 ^ (a.bits - a.bits \div 2 - 1)} :
            low \in Nat /\ high \in Nat /\ a.e < low * high

\* int_value, which reads the numbers of a file, refuses negative ones.
ASSUME FilesAssumption ==
  RsaFiles \subseteq [n : Nat, e : Nat, d : Nat, p : Nat, q : Nat, dmp1 : Nat, dmq1 : Nat, iqmp : Nat]

VARIABLE rsa

Gcd(a, b) == LET D == {k \in 1 .. b : a % k = 0 /\ b % k = 0}
             IN  CHOOSE d \in D : \A k \in D : k <= d
Lcm(a, b) == (a * b) \div Gcd(a, b)

\* _miller_rabin, for one base: d is odd and n - 1 = d * 2^r.
Passes(n, a) ==
  LET r == CHOOSE r \in 1 .. n : (n - 1) % 2 ^ r = 0 /\ (n - 1) % 2 ^ (r + 1) # 0
      x == Pow(a, (n - 1) \div 2 ^ r, n)
  IN  x = 1 \/ \E i \in 0 .. r - 1 : Pow(x, 2 ^ i, n) = n - 1

Bases(n) == 2 .. n - 2

\* _is_probable_prime: whether it may be so found, whatever the number of rounds.
MayBePrime(n) ==
  IF \E p \in SmallPrimes : n % p = 0 THEN n \in SmallPrimes
  ELSE \E a \in Bases(n) : Passes(n, a)

\* Mutant: primes for which e has no inverse.
GeneratedAny(bits, e) == {c \in 2 ^ (bits - 1) .. 2 ^ bits - 1 : c % 2 = 1 /\ MayBePrime(c)}

\* _generate_prime
Generated(bits, e) ==
  {c \in 2 ^ (bits - 1) .. 2 ^ bits - 1 : c % 2 = 1 /\ Gcd(c - 1, e) = 1 /\ MayBePrime(c)}

\* _check_public_numbers
PublicOk(k) ==
  /\ BitLength(k.n) >= MinKeyBits /\ k.n % 2 = 1
  /\ k.e \in 3 .. k.n - 1 /\ k.e % 2 = 1

\* _check_private_numbers: "" when the key is accepted.
CheckPrivate(k) ==
  IF ~PublicOk(k) \/ k.p * k.q # k.n          THEN "InvalidKey"
  ELSE IF k.p = 1                             THEN "ZeroDivisionError"
  ELSE IF k.dmp1 # k.d % (k.p - 1)            THEN "InvalidKey"
  ELSE IF k.q = 1                             THEN "ZeroDivisionError"
  ELSE IF k.dmq1 # k.d % (k.q - 1)            THEN "InvalidKey"
  ELSE IF (k.iqmp * k.q) % k.p # 1            THEN "InvalidKey"
  ELSE IF (k.e * k.d) % Lcm(k.p - 1, k.q - 1) # 1 THEN "InvalidKey"
  ELSE ""

RsaInit == rsa = [stage |-> "idle"]

\* The key of the primes p > q, or ValueError from an inverse that does not exist.
KeyOf(p, q, e) ==
  LET l == Lcm(p - 1, q - 1)
      d == Inv(e, l)
  IN  IF ~Invertible(e, l) \/ ~Invertible(q, p) THEN [raised |-> "ValueError"]
      ELSE [n |-> p * q, e |-> e, d |-> d, p |-> p, q |-> q,
            dmp1 |-> d % (p - 1), dmq1 |-> d % (q - 1), iqmp |-> Inv(q, p)]

\* generate_private_key: the pair of primes that ends the loop.
RsaGenerate ==
  /\ rsa.stage = "idle"
  /\ \E a \in RsaRequests :
     \E p \in Generated(a.bits \div 2, a.e), q \in Generated(a.bits - a.bits \div 2, a.e) :
       /\ p # q /\ BitLength(p * q) = a.bits
       /\ LET k == IF p < q THEN KeyOf(q, p, a.e) ELSE KeyOf(p, q, a.e)
          IN  rsa' = [stage |-> "key", bits |-> a.bits, primes |-> {p, q}, key |-> k,
                      failed |-> IF "raised" \in DOMAIN k THEN k.raised ELSE CheckPrivate(k)]

\* RSAPrivateKey of numbers that were parsed.
RsaLoad ==
  /\ rsa.stage = "idle"
  /\ \E k \in RsaFiles :
       rsa' = [stage |-> "key", bits |-> 0, primes |-> {k.p, k.q}, key |-> k,
               failed |-> CheckPrivate(k)]

-----------------------------------------------------------------------------
(* The private operation.                                                    *)

\* Mutant: what has been computed is released.
ReleasedAlways(k, m, c) == TRUE

Released(k, m, c) == Pow(m, k.e, k.n) = c % k.n

\* _rsadp of c with the blinding r, the second half being the sum of its value and a fault.
PrivateOp(k, c, r, fault) ==
  LET blinded == (c * Pow(r, k.e, k.n)) % k.n
      m1 == Pow(blinded % k.p, k.dmp1, k.p)
      m2 == (Pow(blinded % k.q, k.dmq1, k.q) + fault) % k.q
      h == (k.iqmp * (m1 - m2)) % k.p
      m == (((m2 + h * k.q) % k.n) * Inv(r, k.n)) % k.n
  IN  IF Released(k, m, c) THEN [m |-> m] ELSE [raised |-> "PureCryptError"]

\* _rsadp; a fault may change the result of the second exponentiation.
RsaPrivate ==
  /\ rsa.stage = "key" /\ rsa.failed = ""
  /\ \E c \in 0 .. rsa.key.n - 1, fault \in 0 .. rsa.key.q - 1,
        r \in {r \in RsaBlindings : r \in 2 .. rsa.key.n - 1 /\ Gcd(r, rsa.key.n) = 1} :
       rsa' = [stage |-> "done", key |-> rsa.key, c |-> c, fault |-> fault,
               out |-> PrivateOp(rsa.key, c, r, fault)]

RsaNext == RsaGenerate \/ RsaLoad \/ RsaPrivate

RsaSpec == RsaInit /\ [][RsaNext]_rsa

-----------------------------------------------------------------------------

\* A generated key has the size that was asked for and passes the checks that its constructor
\* makes, unless composite numbers were taken for primes (rsa.py:180-223).
RsaKeysUsable ==
  rsa.stage = "key" /\ rsa.bits > 0 /\ (\A p \in rsa.primes : IsPrime(p)) =>
    rsa.failed = "" /\ BitLength(rsa.key.n) = rsa.bits

\* What the private operation releases is a root of its input, whatever fault has changed a
\* half of it and also for a key whose factors are not primes (rsa.py:483); without a
\* fault and with primes it is released, and the blinding has left no trace.
RsaReleases ==
  rsa.stage = "done" =>
    /\ "m" \in DOMAIN rsa.out => Pow(rsa.out.m, rsa.key.e, rsa.key.n) = rsa.c
    /\ rsa.fault = 0 /\ IsPrime(rsa.key.p) /\ IsPrime(rsa.key.q) =>
         rsa.out = [m |-> Pow(rsa.c, rsa.key.d, rsa.key.n)]
=============================================================================

------------------------------ MODULE Ed25519 ------------------------------
(***************************************************************************)
(* python/witnesskit/ed25519.py, the signatures used when no library is    *)
(* there: the arithmetic of the twisted Edwards curve                      *)
(* -x^2 + y^2 = 1 + d x^2 y^2 over the integers modulo q, its encodings,   *)
(* and sign and verify on top of it.  The parameters are constants, so     *)
(* that the code can be followed step by step on a small curve.  SHA-512   *)
(* is a table that is filled when it is asked: any hash may come out, the  *)
(* same one for the same question.                                         *)
(***************************************************************************)
EXTENDS Integers, FiniteSets

CONSTANTS
  None,      \* Python's None; an encoding of the wrong length, an exception
  q, b, L, d,
  By,        \* the y coordinate of the base point
  Hash,      \* what SHA-512 may return, read as an integer
  Message

ASSUME CurveAssumption ==
  /\ q \in Nat /\ q > 1 /\ \A n \in 2 .. q - 1 : q % n # 0
  /\ b \in Nat /\ b > 4
  /\ q % 8 = 5 /\ 2^(b - 2) < q /\ q < 2^(b - 1)
  /\ d \in 1 .. q - 1 /\ \A x \in 0 .. q - 1 : (x * x - d) % q # 0
ASSUME NoneAssumption == None \notin Int /\ None \notin Int \X Int \X Int \X Int
ASSUME HashAssumption == Hash \subseteq 0 .. 2^(2 * b) - 1

-----------------------------------------------------------------------------
(* Arithmetic                                                               *)

(* pow(x, n, q) *)
pow(x, n) == LET p[k \in 0 .. n] == IF k = 0 THEN 1 ELSE p[k - 1] * x % q IN p[n]

Inverses == [z \in 0 .. q - 1 |-> pow(z, q - 2)]
_inv(z) == Inverses[z % q]

I == pow(2, (q - 1) \div 4)

(* A square root of xx, if it has one. *)
Root(xx) ==
  LET x == pow(xx, (q + 3) \div 8) IN IF (x * x - xx) % q = 0 THEN x ELSE x * I % q

_xrecover(y) ==
  LET x == Root((y * y - 1) * _inv(d * y * y + 1) % q)
  IN  IF x % 2 # 0 THEN q - x ELSE x

B == LET x == _xrecover(By) IN <<x % q, By, 1, x * By % q>>

_edwards_add(P, Q) ==
  LET a == (P[2] - P[1]) * (Q[2] - Q[1]) % q
      c == (P[2] + P[1]) * (Q[2] + Q[1]) % q
      t == P[4] * 2 * d * Q[4] % q
      z == P[3] * 2 * Q[3] % q
  IN  <<(c - a) * (z - t) % q, (z + t) * (c + a) % q,
        (z - t) * (z + t) % q, (c - a) * (c + a) % q>>

(* Double and add. *)
_scalarmult(P, e) ==
  LET mult[n \in 0 .. e] ==
        IF n = 0 THEN <<0, 1, 1, 0>>
        ELSE LET half   == mult[n \div 2]
                 double == _edwards_add(half, half)
             IN  IF n % 2 = 1 THEN _edwards_add(double, P) ELSE double
  IN  mult[e]

(* An encoding is the number its bytes stand for: y, and in the last bit    *)
(* whether x is odd.                                                        *)
Encoding == 0 .. 2^b - 1

_encodepoint(P) ==
  (P[2] * _inv(P[3]) % q) + ((P[1] * _inv(P[3]) % q) % 2) * 2^(b - 1)

(* The test without the equation of the curve. *)
IsPoint(P) == P[3] % q # 0 /\ (P[1] * P[2] - P[3] * P[4]) % q = 0

_isoncurve(P) ==
  /\ P[3] % q # 0
  /\ (P[1] * P[2] - P[3] * P[4]) % q = 0
  /\ (P[2] * P[2] - P[1] * P[1] - P[3] * P[3] - d * P[4] * P[4]) % q = 0

(* None when it raises. *)
_decodepoint(s) ==
  LET y == s % 2^(b - 1)
      even == _xrecover(y)
      x == IF even % 2 # s \div 2^(b - 1) THEN q - even ELSE even
      P == <<x, y, 1, x * y % q>>
  IN  IF _isoncurve(P) THEN P ELSE None

-----------------------------------------------------------------------------
(* Keys and signatures                                                      *)

(* The hash without its bits changed. *)
RawScalar(h) == h

(* The scalar of a seed whose hash begins with the b bits h: the three low  *)
(* bits are cleared, the two high ones replaced.                            *)
_secret_scalar(h) == 2^(b - 2) + (h % 2^(b - 2)) - (h % 8)

publickey(a) == _encodepoint(_scalarmult(B, a))

(* The scalar reduced by the order of the field. *)
ScalarModQ(r, h, a) == (r + h * a) % q

Scalar(r, h, a) == (r + h * a) % L

(* A scalar the check on its size lets through. *)
AnyScalar(S) == TRUE

InRange(S) == S < L

(* S B = R + h A, in projective coordinates. *)
Equation(R, S, h, A) ==
  LET P == _scalarmult(B, S)
      Q == _edwards_add(R, _scalarmult(A, h))
  IN  (P[1] * Q[3] - Q[1] * P[3]) % q = 0 /\ (P[2] * Q[3] - Q[2] * P[3]) % q = 0

(* verify, where h is the hash of the encodings and the message. *)
verify(R, S, pk, h) ==
  /\ R # None /\ pk # None
  /\ _decodepoint(R) # None /\ _decodepoint(pk) # None
  /\ InRange(S)
  /\ Equation(_decodepoint(R), S, h, _decodepoint(pk))

-----------------------------------------------------------------------------
VARIABLES
  key,       \* the secret scalar and the public key, None before
  signed,    \* a signature, with what it is of and the hash that went in
  checked    \* the arguments of verify, its hash and its verdict

vars == <<key, signed, checked>>

Init == key = None /\ signed = None /\ checked = None

Generate ==
  /\ key = None /\ checked = None
  /\ \E h \in 0 .. 2^b - 1 :
       LET a == _secret_scalar(h) IN key' = [a |-> a, pk |-> publickey(a)]
  /\ UNCHANGED <<signed, checked>>

(* sign: one hash for r, another for the encodings and the message. *)
Sign ==
  /\ key # None /\ signed = None
  /\ \E message \in Message, r, h \in Hash :
       signed' = [R |-> _encodepoint(_scalarmult(B, r)), S |-> Scalar(r, h, key.a),
                  pk |-> key.pk, message |-> message, h |-> h]
  /\ UNCHANGED <<key, checked>>

(* No more than two scalars are tried that are too large. *)
Tried == 0 .. L + 1

Check(R, S, pk, message, h) ==
  /\ checked' = [R |-> R, S |-> S, pk |-> pk, message |-> message, h |-> h,
                 valid |-> verify(R, S, pk, h)]
  /\ UNCHANGED <<key, signed>>

(* A signature made here comes back, perhaps with another scalar or for     *)
(* another message.                                                         *)
CheckOwn ==
  /\ signed # None /\ checked = None
  /\ \E S \in Tried, message \in Message, h \in Hash :
       /\ message = signed.message => h = signed.h
       /\ Check(signed.R, S, signed.pk, message, h)

(* Anything at all is given as a signature and a key, of a message of which *)
(* only the hash matters.                                                   *)
CheckAny ==
  /\ key = None /\ checked = None
  /\ \E R, pk \in Encoding \cup {None}, S \in Tried, h \in Hash :
       Check(R, S, pk, None, h)

Next == Generate \/ Sign \/ CheckOwn \/ CheckAny

Spec == Init /\ [][Next]_vars

-----------------------------------------------------------------------------
(* The curve as a group of pairs: the reference                             *)

Curve ==
  {P \in (0 .. q - 1) \X (0 .. q - 1) :
     (P[2] * P[2] - P[1] * P[1] - 1 - d * P[1] * P[1] * P[2] * P[2]) % q = 0}

(* n / m modulo q, by search. *)
Quotient(n, m) == CHOOSE z \in 0 .. q - 1 : (z * m - n) % q = 0

Sums ==
  [P \in Curve |-> [Q \in Curve |->
     LET x == P[1] * Q[2] + P[2] * Q[1]
         y == P[2] * Q[2] + P[1] * Q[1]
         p == d * P[1] * P[2] * Q[1] * Q[2]
     IN  <<Quotient(x, 1 + p), Quotient(y, 1 - p)>>]]

Sum(P, Q) == Sums[P][Q]

(* P added to the neutral element n times.                                  *)
Multiple(n, P) ==
  LET m[k \in 0 .. n] == IF k = 0 THEN <<0, 1>> ELSE Sum(m[k - 1], P) IN m[n]

(* The same, looked up: n may be reduced by the order of the group.         *)
Multiples ==
  [P \in Curve |-> [n \in 0 .. Cardinality(Curve) - 1 |-> Multiple(n, P)]]

Times(n, P) == Multiples[P][n % Cardinality(Curve)]

Base == <<B[1], B[2]>>

(* What algebra says of these parameters: the theorem of Fermat, and that 2 *)
(* is no square if q is 5 modulo 8; that Sum is associative, and that the   *)
(* order of the group annuls every point.                                   *)
ASSUME FieldAssumption ==
  (\A z \in 1 .. q - 1 : pow(z, q - 1) = 1) /\ pow(2, (q - 1) \div 2) = q - 1

ASSUME GroupAssumption ==
  /\ \A P, Q, R \in Curve : Sum(Sum(P, Q), R) = Sum(P, Sum(Q, R))
  /\ \A P \in Curve : Multiple(Cardinality(Curve), P) = <<0, 1>>

(* The base point generates a group of the prime order L.                   *)
ASSUME BaseAssumption ==
  /\ By \in 0 .. q - 1 /\ Base \in Curve /\ Base # <<0, 1>>
  /\ L \in Nat /\ L > 2 /\ \A n \in 2 .. L - 1 : L % n # 0
  /\ L > 2^(b - 4) /\ Multiple(L, Base) = <<0, 1>>

(* The points an encoding may mean: y is read modulo q, and where x is 0    *)
(* its parity is not looked at.                                             *)
Meant(s) ==
  {P \in Curve : /\ ((s % 2^(b - 1)) - P[2]) % q = 0
                 /\ P[1] = 0 \/ P[1] % 2 = s \div 2^(b - 1)}

-----------------------------------------------------------------------------
(* Properties                                                               *)

TypeOK ==
  /\ key # None => key.a \in 2^(b - 2) .. 2^(b - 1) - 1 /\ key.pk \in Encoding
  /\ signed # None => signed.R \in Encoding /\ signed.S \in 0 .. L - 1
  /\ checked # None => checked.valid \in BOOLEAN

(* Whatever the seed and the hashes were, a signature that comes back as it *)
(* was made is accepted (sign against verify).                              *)
SignaturesVerify ==
  signed # None /\ checked # None =>
    (checked.S = signed.S /\ checked.message = signed.message => checked.valid)

(* No other scalar is accepted in its place, and for another message the    *)
(* signature holds only if the hashes are the same modulo the order L of    *)
(* the base point: a signature answers one question, in one way.            *)
SignaturesBind ==
  signed # None /\ checked # None /\ checked.valid =>
    (checked.S = signed.S <=> (checked.h - signed.h) % L = 0)

(* The verdict on any bytes whatever is that of the group: both encodings   *)
(* mean a point, the scalar is below L, and the base point times the scalar *)
(* is R plus h times the key, in affine addition (verify, _decodepoint,     *)
(* _scalarmult and the projective _edwards_add it uses).                    *)
VerdictIsTheEquation ==
  checked # None =>
    (checked.valid <=>
       /\ checked.R # None /\ checked.pk # None /\ checked.S < L
       /\ \E R \in Meant(checked.R), A \in Meant(checked.pk) :
            Times(checked.S, Base) = Sum(R, Times(checked.h, A)))
=============================================================================

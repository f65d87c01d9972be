---------------------------- MODULE CurvePoints ----------------------------
(***************************************************************************)
(* Package crypto/ec: points and scalars of a curve y^2 = x^3 - 3x + b     *)
(* over a field of prime order p with p % 4 = 3, hashing to the curve,     *)
(* compressed encoding and additive shares.  The code uses P-256; the      *)
(* model has small curves of prime order n # p.  One call is made, with    *)
(* any arguments the package's callers can pass, and its result kept.      *)
(***************************************************************************)
EXTENDS Integers, Sequences, SequencesExt

CONSTANTS
    Curves,     \* records [p, b, base, n, top]: field, curve, base point, order,
                \* and the largest number that fits the bytes of a coordinate
    NumShares   \* members that share a secret

CurvesAssumption ==
    /\ NumShares \in Nat \ {0}
    /\ \A e \in Curves : e.p % 4 = 3 /\ e.b # 0 /\ e.n # e.p /\ e.top >= e.p

VARIABLES curve, call, result
vars == <<curve, call, result>>

Field == 0 .. curve.p - 1
Scalars == 0 .. curve.n - 1
Mod(a) == a % curve.p
ModInverse(a) == CHOOSE b \in Field : Mod(a * b) = 1
Exp(a, k) == FoldLeft(LAMBDA acc, i : Mod(acc * a), 1, [i \in 1 .. k |-> i])

\* math/big's ModSqrt for p % 4 = 3; -1 when there is no root.
ModSqrt(a) == LET y == Exp(Mod(a), (curve.p + 1) \div 4)
              IN  IF Mod(y * y) = Mod(a) THEN y ELSE -1

-----------------------------------------------------------------------------
\* crypto/elliptic: points are affine, <<0, 0>> is the point at infinity.
ZeroPoint == <<0, 0>>
IsOnCurve(pt) == Mod(pt[2] * pt[2]) = Mod(pt[1] * pt[1] * pt[1] - 3 * pt[1] + curve.b)
Add(a, b) ==
    LET slope == IF a = b THEN Mod(Mod(3 * a[1] * a[1] - 3) * ModInverse(Mod(2 * a[2])))
                          ELSE Mod((b[2] - a[2]) * ModInverse(Mod(b[1] - a[1])))
        x == Mod(slope * slope - a[1] - b[1])
    IN  CASE a = ZeroPoint -> b
          [] b = ZeroPoint -> a
          [] a # ZeroPoint /\ b # ZeroPoint /\ a[1] = b[1] /\ a[2] # b[2] -> ZeroPoint
          [] OTHER -> <<x, Mod(slope * (a[1] - x) - a[2])>>
ScalarMult(pt, k) == FoldLeft(LAMBDA acc, i : Add(acc, pt), ZeroPoint, [i \in 1 .. k |-> i])
ScalarBaseMult(k) == ScalarMult(curve.base, k)
Accumulate(pt, others) == FoldLeft(Add, pt, others)
\* Copy goes through NewPoint: nil for what is not on the curve.
CanCopy(pt) == IsOnCurve(pt)

-----------------------------------------------------------------------------
\* SimplifiedSWU.  The second candidate is used when the first has no root.
\* Slip: y is multiplied by t^2 only.
SecondSquare(x, y, u, t) == <<Mod(x * u), Mod(-(y * u))>>
Second(x, y, u, t) == <<Mod(x * u), Mod(Mod(-Mod(y * u)) * t)>>

Point(pt) == [kind |-> "point", pt |-> pt]
Panic == [kind |-> "panic"]
ErrInvalidPoint == [kind |-> "error"]

SimplifiedSWU(t) ==
    LET bDivA == Mod(-(ModInverse(Mod(-3)) * curve.b))
        u == Mod(-(t * t))
        t0 == Mod(u * u + u)
        x == Mod((1 + ModInverse(t0)) * bDivA)
        g == Mod(Mod(Mod(x * x) - 3) * x + curve.b)
        y == Exp(g, (curve.p + 1) \div 4)
    IN  IF t0 = 0 THEN Panic
        ELSE Point(IF Mod(y * y) = g THEN <<x, y>> ELSE Second(x, y, u, t))

\* Marshal and Unmarshal: a tag, 2 or 3 by the parity of y, and x.
Marshal(pt) == <<2 + (pt[2] % 2), pt[1]>>
\* Slip: x may be any number of the right length.
InFieldUntested(x) == TRUE
InField(x) == x < curve.p
\* Slip: the root is negated when the parity agrees.
RootOther(y, sign) == IF y % 2 = sign THEN curve.p - y ELSE y
Root(y, sign) == IF y % 2 # sign THEN curve.p - y ELSE y
Unmarshal(data) ==
    LET x == data[2]
        y == ModSqrt(x * x * x - 3 * x + curve.b)
        pt == <<x, Root(y, data[1] % 2)>>
    IN  IF InField(x) /\ data[1] \in {2, 3} /\ y # -1 /\ IsOnCurve(pt)
        THEN Point(pt) ELSE ErrInvalidPoint

\* Neg and Accumulate of scalars.  Slip: reduced modulo the field's order.
NegInField(k) == IF k = 0 THEN 0 ELSE curve.p - k
Neg(k) == IF k = 0 THEN 0 ELSE curve.n - k
AccumulateScalars(k, others) == FoldLeft(LAMBDA a, b : a + b, k, others) % curve.n
AdditiveShares(secret, random) == <<Neg(AccumulateScalars(Neg(secret), random))>> \o random
\* RandomCurveScalar draws until the masked bytes are below n.
RandomCurveScalar == Scalars

-----------------------------------------------------------------------------
NoCall == [op |-> "none", kind |-> "none"]
Init == curve \in Curves /\ call = NoCall /\ result = NoCall

Return(c, r) == call = NoCall /\ call' = c /\ result' = r /\ UNCHANGED curve

\* HashToBaseField: any hash, reduced modulo the order of the base point, which
\* may be larger or smaller than that of the field.
HashToBaseField == {sum % curve.n : sum \in 0 .. curve.top}
HashToCurvePoint ==
    \E t \in HashToBaseField : Return([op |-> "hash", t |-> t], SimplifiedSWU(t))
Decode ==
    \E tag \in 0 .. 4, x \in 0 .. curve.top :
        Return([op |-> "decode", data |-> <<tag, x>>], Unmarshal(<<tag, x>>))
Encode ==
    \E k \in Scalars \ {0} :
        LET pt == ScalarBaseMult(k)
        IN  Return([op |-> "encode", pt |-> pt], Unmarshal(Marshal(pt)))
\* A secret is shared and every member publishes its share times the base.
Share ==
    \E secret \in Scalars, random \in [1 .. NumShares - 1 -> RandomCurveScalar] :
        LET shares == AdditiveShares(secret, random)
        IN  Return([op |-> "share", secret |-> secret],
                   Point(Accumulate(ZeroPoint, [i \in 1 .. NumShares |-> ScalarBaseMult(shares[i])])))

Next == HashToCurvePoint \/ Decode \/ Encode \/ Share

Spec == Init /\ [][Next]_vars

-----------------------------------------------------------------------------
\* Coordinates of a returned point are reduced field elements.
TypeOK ==
    /\ curve \in Curves
    /\ call.op \in {"none", "hash", "decode", "encode", "share", "dleq", "dl"}
    /\ result.kind \in {"none", "point", "error", "panic", "verified"}
    /\ result.kind = "point" => result.pt \in Field \X Field

\* Both candidates of SimplifiedSWU, for whichever residues t gives, are points
\* of the curve; it panics for 0, 1 and -1 and for no other t (hash.go:64), also
\* when t was reduced modulo an order above that of the field.
HashOnCurve ==
    call.op = "hash" =>
        /\ result.kind = "panic" <=> Mod(call.t) \in {0, 1, curve.p - 1}
        /\ result.kind = "point" => IsOnCurve(result.pt)

\* Unmarshal inverts Marshal, accepts the encodings of the curve's points and
\* no other bytes, so no point has two encodings.
DecodeExact ==
    /\ call.op = "encode" => result = Point(call.pt)
    /\ call.op = "decode" =>
        /\ result.kind = "point" <=> \E pt \in Field \X Field : IsOnCurve(pt) /\ Marshal(pt) = call.data
        /\ result.kind = "point" => Marshal(result.pt) = call.data

\* The members' shares times the base point add up, on the curve, to the public
\* key of the secret: scalars are reduced modulo the order of the base point,
\* not of the field.
SharesMeet == call.op = "share" => result = Point(ScalarBaseMult(call.secret))

\* The package computes on the curve what its callers take it to compute.
CurveInv == TypeOK /\ HashOnCurve /\ DecodeExact /\ SharesMeet
=============================================================================

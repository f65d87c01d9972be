-------------------------------- MODULE Nizk --------------------------------
(***************************************************************************)
(* Package crypto/nizk: proofs of knowledge of a discrete logarithm (dl.go) *)
(* and of the equality of two (dleq.go), on the curves of CurvePoints.  The *)
(* hash is an oracle without collisions: the prover's challenge c is any   *)
(* scalar, and the verifier computes the same hash exactly when it hashes  *)
(* the same points.                                                        *)
(***************************************************************************)
EXTENDS CurvePoints

Verified(ok) == [kind |-> "verified", ok |-> ok]

\* DLEQProof: the response.  Slip: r = s + cx.
ResponsePlus(s, c, x) == (s + c * x) % curve.n
Response(s, c, x) == (-c * x + s) % curve.n

\* NewProof for h = g^x, with the random s, and Verify.  Copy returns nil for
\* the point at infinity, whose use panics.
Hashed(A, B) == <<Marshal(A), Marshal(B)>>
NewProof(G, M, s, c, x) ==
    [R |-> Response(s, c, x), C |-> c, Hash |-> Hashed(ScalarMult(G, s), ScalarMult(M, s))]
Verify(proof, G, H, M, Z) ==
    LET A == Accumulate(ScalarMult(H, proof.C), <<ScalarMult(G, proof.R)>>)
        B == Accumulate(ScalarMult(Z, proof.C), <<ScalarMult(M, proof.R)>>)
    IN  Hashed(A, B) = proof.Hash

Dleq ==
    \E x, m, z, s, c \in Scalars :
        LET G == curve.base
            H == ScalarMult(G, x)
            M == ScalarMult(G, m)
            Z == ScalarMult(G, z)
        IN  Return([op |-> "dleq", x |-> x, m |-> m, z |-> z, c |-> c],
                   IF \A pt \in {G, H, M, Z} : CanCopy(pt)
                   THEN Verified(Verify(NewProof(G, M, s, c, x), G, H, M, Z))
                   ELSE Panic)

\* NewDL and DLProof.Verify, for the value G^x.
NewDL(c, x, r) == [V |-> (c * x + r) % curve.n, Hash |-> Marshal(ScalarBaseMult(r))]
VerifyDL(proof, c, value) ==
    Marshal(Add(ScalarBaseMult(proof.V), ScalarMult(value, c))) = proof.Hash

Dl ==
    \E x, r, c \in Scalars :
        Return([op |-> "dl", x |-> x, c |-> c],
               Verified(VerifyDL(NewDL(c, x, r), c, ScalarBaseMult(x))))

NizkNext == Dleq \/ Dl
NizkSpec == Init /\ [][NizkNext]_vars

-----------------------------------------------------------------------------
\* A proof verifies exactly when the two logarithms are equal, or the hash
\* happens to be zero; Verify panics exactly when a point is at infinity.
DleqExact ==
    call.op = "dleq" =>
        /\ result.kind = "panic" <=> 0 \in {call.x, call.m, call.z}
        /\ result.kind = "verified" =>
            result.ok = (call.c = 0 \/ call.z = (call.x * call.m) % curve.n)

\* NewDL adds c * x where its comment (dl.go:37) subtracts it, so Verify accepts the
\* proof only when c or x is zero.
DlExact == call.op = "dl" => result.ok = (0 \in {call.c, call.x})

\* What a verifier concludes from a proof.
ProofsInv == DleqExact /\ DlExact
=============================================================================

------------------------------ MODULE CarrierProofs ------------------------------
(***************************************************************************)
(* Proofs about the carriers of an AIC: the fields of the certificate      *)
(* extension and of what the delegation signature covers, for AICs of any  *)
(* size; the octets of DER elements whose length takes up to three octets, *)
(* of integers and of object identifiers; and the two forms of an ECDSA    *)
(* signature.                                                              *)
(*                                                                         *)
(* Whether an optional field is there shifts all fields after it; one      *)
(* lemma per structure says where each of them stands, and the reader      *)
(* finds them there.  Octets are read back by induction over the digits    *)
(* written; a reader is followed by its state after each octet.            *)
(***************************************************************************)
EXTENDS CapabilityProofs

-----------------------------------------------------------------------------
(* The carrier: an AIC as an extension of a certificate (x509_bridge.ts).  *)

\* An optional field is there once, or not at all.
LEMMA OptionalField ==
  ASSUME NEW S, NEW el \in S, NEW P \in BOOLEAN
  PROVE  /\ Optional(P, el) \in Seq(S)
         /\ Len(Optional(P, el)) = IF P THEN 1 ELSE 0
         /\ P => Optional(P, el)[1] = el
  <1>1. CASE P
    BY <1>1 DEF Optional
  <1>2. CASE ~P
    BY <1>2 DEF Optional
  <1> QED
    BY <1>1, <1>2

\* The principal's identifier is read back, with the default hash filled in.
LEMMA UidReadsBack ==
  ASSUME NEW uid \in X509PrincipalUid
  PROVE  ParsePrincipalUid(EncodePrincipalUid(uid)[2])
           = [uid EXCEPT !.hashAlgo = IF @ = NoOid THEN Sha256 ELSE @]
  <1> DEFINE f == EncodePrincipalUid(uid)[2]
             h == IF uid.hashAlgo = NoOid THEN Sha256 ELSE uid.hashAlgo
  <1>1. f = <<Utf8(uid.realm), Utf8(uid.id), Octet(uid.keyHash), Ctx0(Seqn(<<Oid(h)>>))>>
    BY DEF EncodePrincipalUid, Seqn
  <1>2. ~IsAt(f, 1, "int") /\ IsAt(f, 4, "ctx0")
    BY <1>1 DEF IsAt, Utf8, Ctx0
  <1>3. /\ f[1][2] = uid.realm /\ f[2][2] = uid.id /\ f[3][2] = uid.keyHash
        /\ f[4][2][1][2][1][2] = h
    BY <1>1 DEF Utf8, Octet, Ctx0, Seqn, Oid
  <1> HIDE DEF f, h
  <1>4. ParsePrincipalUid(f) = [realm |-> uid.realm, id |-> uid.id, keyHash |-> uid.keyHash, hashAlgo |-> h]
    BY <1>2, <1>3 DEF ParsePrincipalUid
  <1> QED
    BY <1>4 DEF f, h, X509PrincipalUid

\* Where the fields of a capability stand.
LEMMA CapabilityLayout ==
  ASSUME NEW S, NEW a \in S, NEW b \in S, NEW o \in Seq(S),
         NEW f, f = <<a, b>> \o o
  PROVE  /\ f \in Seq(S) /\ Len(f) = 2 + Len(o)
         /\ f[1] = a /\ f[2] = b
         /\ Len(o) = 1 => f[3] = o[1]
  OBVIOUS

\* The fields of one capability are read back; parameters only if there are any.
LEMMA CapabilityReadsBack ==
  ASSUME NEW c \in X509Capability
  PROVE  LET f == EncodeCapability(c)[2]
         IN  /\ f[1][2] = c.scheme /\ f[2][2] = c.id
             /\ IsAt(f, 3, "ctx0") <=> c.params # NoParams
             /\ c.params # NoParams => f[3][2][1][2] = c.params
  <1> DEFINE P == c.params # NoParams
             a == Utf8(c.scheme)
             b == Utf8(c.id)
             d == Ctx0(Octet(c.params))
             o == Optional(P, d)
             f == EncodeCapability(c)[2]
             S == {a, b, d}
  <1>1. f = <<a, b>> \o o
    BY DEF EncodeCapability, Seqn
  <1>2. o \in Seq(S) /\ Len(o) = (IF P THEN 1 ELSE 0) /\ (P => o[1] = d)
    <2>1. P \in BOOLEAN /\ d \in S
      OBVIOUS
    <2> HIDE DEF P, d, S
    <2> QED
      BY <2>1, OptionalField
  <1>3. a[2] = c.scheme /\ b[2] = c.id /\ d[1] = "ctx0" /\ d[2][1][2] = c.params
    BY DEF Utf8, Ctx0, Octet
  <1>4. a \in S /\ b \in S
    OBVIOUS
  <1> HIDE DEF a, b, d, S, o, f
  <1>5. /\ f \in Seq(S) /\ Len(f) = 2 + Len(o)
        /\ f[1] = a /\ f[2] = b
        /\ Len(o) = 1 => f[3] = o[1]
    BY <1>1, <1>2, <1>4, CapabilityLayout
  <1>6. DOMAIN f = 1..(2 + Len(o))
    BY <1>5
  <1>7. IsAt(f, 3, "ctx0") <=> P
    BY <1>2, <1>3, <1>5, <1>6 DEF IsAt
  <1>8. /\ f[1][2] = c.scheme /\ f[2][2] = c.id
        /\ c.params # NoParams => f[3][2][1][2] = c.params
    BY <1>2, <1>3, <1>5
  <1> QED
    BY <1>7, <1>8 DEF f

\* A list of capabilities is read back as it was written.
LEMMA CapabilitiesReadBack ==
  ASSUME NEW caps \in Seq(X509Capability)
  PROVE  ParseCapabilities(EncodeCapabilities(caps)[2]) = caps
  <1> DEFINE els == EncodeCapabilities(caps)[2]
  <1>1. els = [n \in DOMAIN caps |-> EncodeCapability(caps[n])]
    BY DEF EncodeCapabilities, Seqn
  <1>2. ASSUME NEW n \in DOMAIN caps
        PROVE  LET f == els[n][2] IN
               [scheme |-> f[1][2], id |-> f[2][2],
                params |-> IF IsAt(f, 3, "ctx0") THEN f[3][2][1][2] ELSE NoParams] = caps[n]
    <2> DEFINE f == els[n][2]
    <2>1. caps[n] \in X509Capability
      OBVIOUS
    <2>2. f = EncodeCapability(caps[n])[2]
      BY <1>1
    <2>3. /\ f[1][2] = caps[n].scheme /\ f[2][2] = caps[n].id
          /\ IsAt(f, 3, "ctx0") <=> caps[n].params # NoParams
          /\ caps[n].params # NoParams => f[3][2][1][2] = caps[n].params
      BY <2>1, <2>2, CapabilityReadsBack
    <2> HIDE DEF f
    <2>4. [scheme |-> f[1][2], id |-> f[2][2],
           params |-> IF IsAt(f, 3, "ctx0") THEN f[3][2][1][2] ELSE NoParams] = caps[n]
      BY <2>1, <2>3 DEF X509Capability
    <2> QED
      BY <2>4 DEF f
  <1>3. ParseCapabilities(els) = [n \in DOMAIN caps |-> caps[n]]
    BY <1>1, <1>2 DEF ParseCapabilities
  <1> QED
    BY <1>3

\* Where the fields of an authorization stand, behind its optional lifetime l
\* and around its optional grants g and signature s.
AuthorizationFields(f, i, r, l, t, n, g, s) ==
  /\ DOMAIN f = 1..(3 + Len(l) + Len(g) + Len(s))
  /\ f[1] = r /\ f[i] = t /\ f[i + 1] = n
  /\ Len(l) = 1 => f[2] = l[1]
  /\ Len(g) = 1 => f[i + 2] = g[1]
  /\ Len(s) = 1 => f[i + 2 + Len(g)] = s[1]

\* A concatenation with at most one of each option has its fields there.
LEMMA AuthorizationLayout ==
  ASSUME NEW S, NEW r \in S, NEW l \in Seq(S), NEW t \in S, NEW n \in S,
         NEW g \in Seq(S), NEW s \in Seq(S),
         Len(l) <= 1, Len(g) <= 1, Len(s) <= 1,
         NEW f, f = <<r>> \o l \o <<t, n>> \o g \o s,
         NEW i, i = Len(l) + 2
  PROVE  AuthorizationFields(f, i, r, l, t, n, g, s)
  BY SMTT(40) DEF AuthorizationFields

\* The authorization is read back as it was written.
LEMMA AuthorizationReadsBack ==
  ASSUME NEW auth \in X509Authorization
  PROVE  /\ ParseAuthorization(EncodeAuthorization(auth)[2]) = auth
         /\ EncodeAuthorization(auth)[1] = "seq"
  <1> DEFINE r == EncodeReason(auth)
             L == auth.lifetime # 0
             d == Num(auth.lifetime)
             t == Time(auth.ts)
             n == Octet(auth.nonce)
             G == auth.sigAlg # NoOid
             e == Seqn(<<Oid(auth.sigAlg)>>)
             Z == auth.sig # << >>
             h == Octet(auth.sig)
             l == Optional(L, d)
             g == Optional(G, e)
             s == Optional(Z, h)
             S == {r, d, t, n, e, h}
             f == EncodeAuthorization(auth)[2]
             i == Len(l) + 2
  <1>1. f = <<r>> \o l \o <<t, n>> \o g \o s /\ EncodeAuthorization(auth)[1] = "seq"
    BY DEF EncodeAuthorization, Seqn
  <1>2. /\ r[2][1][2] = auth.code /\ r[2][2][2] = auth.desc
        /\ d[1] = "int" /\ d[2] = auth.lifetime /\ t[1] = "time" /\ t[2] = auth.ts
        /\ n[2] = auth.nonce /\ e[1] = "seq" /\ e[2][1][2] = auth.sigAlg
        /\ h[1] = "octet" /\ h[2] = auth.sig
    BY DEF EncodeReason, Seqn, Utf8, Num, Time, Octet, Oid
  <1>3. {r, d, t, n, e, h} \subseteq S /\ L \in BOOLEAN /\ G \in BOOLEAN /\ Z \in BOOLEAN
    OBVIOUS
  <1>4. /\ L <=> auth.lifetime # 0 
        /\ G <=> auth.sigAlg # NoOid
        /\ Z <=> auth.sig # << >>
    OBVIOUS
  <1> HIDE DEF r, d, t, n, e, h, S, f, L, G, Z
  <1>5. /\ l \in Seq(S) /\ Len(l) = (IF L THEN 1 ELSE 0) /\ (L => l[1] = d)
        /\ g \in Seq(S) /\ Len(g) = (IF G THEN 1 ELSE 0) /\ (G => g[1] = e)
        /\ s \in Seq(S) /\ Len(s) = (IF Z THEN 1 ELSE 0) /\ (Z => s[1] = h)
    BY <1>3, OptionalField
  <1>0. i = Len(l) + 2
    OBVIOUS
  <1> HIDE DEF l, g, s, i
  <1>15. /\ r \in S /\ t \in S /\ n \in S
         /\ l \in Seq(S) /\ g \in Seq(S) /\ s \in Seq(S)
         /\ Len(l) <= 1 /\ Len(g) <= 1 /\ Len(s) <= 1
    BY <1>3, <1>5
  <1>6. /\ DOMAIN f = 1..(3 + Len(l) + Len(g) + Len(s))
        /\ f[1] = r /\ f[i] = t /\ f[i + 1] = n
        /\ Len(l) = 1 => f[2] = l[1]
        /\ Len(g) = 1 => f[i + 2] = g[1]
        /\ Len(s) = 1 => f[i + 2 + Len(g)] = s[1]
    <2>1. AuthorizationFields(f, i, r, l, t, n, g, s)
      BY <1>0, <1>1, <1>15, AuthorizationLayout
    <2> QED
      BY <2>1 DEF AuthorizationFields
  <1>7. IsAt(f, 2, "int") <=> L
    BY <1>0, <1>2, <1>5, <1>6 DEF IsAt
  <1>8. IsAt(f, i + 2, "seq") <=> G
    BY <1>0, <1>2, <1>5, <1>6 DEF IsAt
  <1>9. (IF IsAt(f, 2, "int") THEN 3 ELSE 2) = i /\ i \in Nat
    BY <1>0, <1>5, <1>7
  <1>10. (IF IsAt(f, i + 2, "seq") THEN i + 3 ELSE i + 2) = i + 2 + Len(g)
    BY <1>5, <1>8, <1>9
  <1>11. (i + 2 + Len(g) = i + 3 <=> G) /\ (i + 2 + Len(g) \in DOMAIN f <=> Z)
    BY <1>0, <1>5, <1>6, <1>9
  <1>12. /\ f[1][2][1][2] = auth.code /\ f[1][2][2][2] = auth.desc
         /\ ValueOr(f, 2, "int", 0) = auth.lifetime
         /\ f[i][2] = auth.ts /\ f[i + 1][2] = auth.nonce
         /\ (IF i + 2 + Len(g) = i + 3 THEN f[i + 2][2][1][2] ELSE NoOid) = auth.sigAlg
         /\ (IF i + 2 + Len(g) \in DOMAIN f THEN f[i + 2 + Len(g)][2] ELSE << >>) = auth.sig
    BY <1>2, <1>4, <1>5, <1>6, <1>7, <1>11 DEF ValueOr, X509Authorization
  <1> HIDE DEF i
  <1>13. ParseAuthorization(f) =
           [code |-> auth.code, desc |-> auth.desc, lifetime |-> auth.lifetime, ts |-> auth.ts,
            nonce |-> auth.nonce, sigAlg |-> auth.sigAlg, sig |-> auth.sig]
    BY <1>9, <1>10, <1>12 DEF ParseAuthorization
  <1>14. ParseAuthorization(f) = auth
    BY <1>13 DEF X509Authorization
  <1> QED
    BY <1>1, <1>14 DEF f

\* Where the fields of an extension stand, around its optional flag o.
ExtensionFields(f, a, o, c) ==
  /\ Len(f) = 2 + Len(o) /\ DOMAIN f = 1..(2 + Len(o))
  /\ f[1] = a /\ f[2 + Len(o)] = c
  /\ Len(o) = 1 => f[2] = o[1]

\* A concatenation with at most one flag has its fields there.
LEMMA ExtensionLayout ==
  ASSUME NEW S, NEW a \in S, NEW o \in Seq(S), NEW c \in S, Len(o) <= 1,
         NEW f, f = <<a>> \o o \o <<c>>
  PROVE  ExtensionFields(f, a, o, c)
  <1>1. f \in Seq(S) /\ Len(f) = 2 + Len(o)
    OBVIOUS
  <1>2. f[1] = a /\ f[2 + Len(o)] = c /\ (Len(o) = 1 => f[2] = o[1])
    OBVIOUS
  <1> QED
    BY <1>1, <1>2 DEF ExtensionFields

\* One extension is read back as it was written.
LEMMA ExtensionReadsBack ==
  ASSUME NEW e \in X509ExtField
  PROVE  ParseExtension(EncodeExtension(e)[2]) = e
  <1> DEFINE C == e.critical
             a == Oid(e.id)
             b == Bool(TRUE)
             c == Octet(e.value)
             o == Optional(C, b)
             S == {a, b, c}
             f == EncodeExtension(e)[2]
  <1>1. f = <<a>> \o o \o <<c>>
    BY DEF EncodeExtension, Seqn
  <1>2. C \in BOOLEAN /\ a \in S /\ b \in S /\ c \in S
    BY DEF X509ExtField
  <1>3. a[1] = "oid" /\ a[2] = e.id /\ b = Bool(TRUE) /\ b[1] = "bool"
        /\ c[1] = "octet" /\ c[2] = e.value
    BY DEF Oid, Bool, Octet
  <1> HIDE DEF a, b, c, S, f
  <1>4. o \in Seq(S) /\ Len(o) = (IF C THEN 1 ELSE 0) /\ (C => o[1] = b)
    BY <1>2, OptionalField
  <1>5. Len(o) <= 1
    BY <1>4
  <1> HIDE DEF o
  <1>6. ExtensionFields(f, a, o, c)
    BY <1>1, <1>2, <1>4, <1>5, ExtensionLayout
  <1>7. (\E n \in DOMAIN f : f[n] = Bool(TRUE)) <=> C
    <2>1. CASE C
      <3>1. 2 \in DOMAIN f /\ f[2] = b
        BY <1>4, <1>6, <2>1 DEF ExtensionFields
      <3> QED
        BY <1>3, <2>1, <3>1
    <2>2. CASE ~C
      <3>1. DOMAIN f = {1, 2} /\ f[1] = a /\ f[2] = c
        BY <1>4, <1>6, <2>2 DEF ExtensionFields
      <3>2. a # b /\ c # b
        BY <1>3
      <3> QED
        BY <1>3, <2>2, <3>1, <3>2
    <2> QED
      BY <2>1, <2>2
  <1>8. f[1][2] = e.id /\ f[Len(f)][2] = e.value
    BY <1>3, <1>6 DEF ExtensionFields
  <1>9. ParseExtension(f) = [id |-> e.id, critical |-> e.critical, value |-> e.value]
    BY <1>2, <1>7, <1>8 DEF ParseExtension
  <1> QED
    BY <1>9 DEF f, X509ExtField

\* A list of extensions is read back as it was written.
LEMMA ExtensionsReadBack ==
  ASSUME NEW exts \in Seq(X509ExtField), NEW els,
         els = [n \in DOMAIN exts |-> EncodeExtension(exts[n])]
  PROVE  [n \in DOMAIN els |-> ParseExtension(els[n][2])] = exts
  <1>1. \A n \in DOMAIN exts : ParseExtension(els[n][2]) = exts[n]
    BY ExtensionReadsBack
  <1>2. [n \in DOMAIN els |-> ParseExtension(els[n][2])] = [n \in DOMAIN exts |-> exts[n]]
    BY <1>1
  <1> QED
    BY <1>2

\* Where the fields of an AIC stand, around its options: the version v, the mode
\* m, the constraints k and the extensions e.
AICFields(f, i, v, a, u, c, m, k, d, e) ==
  /\ DOMAIN f = 1..(4 + Len(v) + Len(m) + Len(k) + Len(e))
  /\ f[i] = a /\ f[i + 1] = u /\ f[i + 2] = c
  /\ f[i + 3 + Len(m) + Len(k)] = d
  /\ Len(v) = 1 => f[1] = v[1]
  /\ Len(m) = 1 => f[i + 3] = m[1]
  /\ Len(k) = 1 => f[i + 3 + Len(m)] = k[1]
  /\ Len(e) = 1 => f[i + 4 + Len(m) + Len(k)] = e[1]

\* A concatenation with at most one of each option has its fields there.
LEMMA AICLayout ==
  ASSUME NEW S, NEW v \in Seq(S), NEW a \in S, NEW u \in S, NEW c \in S, NEW m \in Seq(S),
         NEW k \in Seq(S), NEW d \in S, NEW e \in Seq(S),
         Len(v) <= 1, Len(m) <= 1, Len(k) <= 1, Len(e) <= 1
  PROVE  AICFields(v \o <<a, u, c>> \o m \o k \o <<d>> \o e, Len(v) + 1,
                   v, a, u, c, m, k, d, e)
  <1> DEFINE g == v \o <<a, u, c>> \o m \o k \o <<d>> \o e
             n == Len(v) + 1
  <1>1. /\ g \in Seq(S) /\ Len(g) = 4 + Len(v) + Len(m) + Len(k) + Len(e)
        /\ g[n] = a /\ g[n + 1] = u /\ g[n + 2] = c
        /\ g[n + 3 + Len(m) + Len(k)] = d
        /\ Len(v) = 1 => g[1] = v[1]
        /\ Len(m) = 1 => g[n + 3] = m[1]
        /\ Len(k) = 1 => g[n + 3 + Len(m)] = k[1]
        /\ Len(e) = 1 => g[n + 4 + Len(m) + Len(k)] = e[1]
    BY SMTT(40)
  <1> HIDE DEF g, n
  <1>2. DOMAIN g = 1..Len(g)
    BY <1>1
  <1>3. AICFields(g, n, v, a, u, c, m, k, d, e)
    BY <1>1, <1>2 DEF AICFields
  <1> QED
    BY <1>3 DEF g, n

\* What ParseAIC makes of the fields f, whose mandatory ones begin at i, whose
\* constraints are looked for at j and whose authorization stands at h.
ReadAt(f, i, j, h) ==
  [version |-> ValueOr(f, 1, "int", 1), agentId |-> f[i][2],
   uid |-> ParsePrincipalUid(f[i + 1][2]),
   caps |-> ParseCapabilities(f[i + 2][2]),
   mode |-> ValueOr(f, i + 3, "int", 0),
   constraints |-> IF IsAt(f, j, "ctx0")
                   THEN ParseCapabilities(f[j][2][1][2]) ELSE << >>,
   auth |-> ParseAuthorization(f[h][2]),
   extensions |->
     IF IsAt(f, h + 1, "ctx1")
     THEN [n \in DOMAIN f[h + 1][2][1][2] |->
             ParseExtension(f[h + 1][2][1][2][n][2])]
     ELSE << >>]

\* ParseAIC finds these three offsets by looking at the options.
LEMMA ParseAICAt ==
  ASSUME NEW f,
         NEW i, i = (IF IsAt(f, 1, "int") THEN 2 ELSE 1),
         NEW j, j = (IF IsAt(f, i + 3, "int") THEN i + 3 + 1 ELSE i + 3),
         NEW h, h = (IF IsAt(f, j, "ctx0") THEN j + 1 ELSE j)
  PROVE  ParseAIC(<<"seq", f>>) = ReadAt(f, i, j, h)
  BY DEF ParseAIC, ReadAt

\* An AIC is read back as it was written, defaults filled in, whichever of its
\* options are present.
LEMMA AICReads ==
  ASSUME NEW x \in X509AIC
  PROVE  ParseAIC(EncodeAIC(x)) = Canonical(x)
  <1> DEFINE V == x.version # 1
             M == x.mode # 0
             K == x.constraints # << >>
             E == x.extensions # << >>
             ve == Num(x.version)
             a == Utf8(x.agentId)
             u == EncodePrincipalUid(x.uid)
             c == EncodeCapabilities(x.caps)
             me == Num(x.mode)
             ke == Ctx0(EncodeCapabilities(x.constraints))
             d == EncodeAuthorization(x.auth)
             els == [n \in DOMAIN x.extensions |-> EncodeExtension(x.extensions[n])]
             ee == Ctx1(Seqn(els))
             v == Optional(V, ve)
             m == Optional(M, me)
             k == Optional(K, ke)
             e == Optional(E, ee)
             S == {ve, a, u, c, me, ke, d, ee}
             f == EncodeAIC(x)[2]
             i == Len(v) + 1
  <1>1. f = v \o <<a, u, c>> \o m \o k \o <<d>> \o e
    BY DEF EncodeAIC, Seqn
  <1>2. /\ ve[1] = "int" /\ ve[2] = x.version /\ a[1] = "utf8" /\ a[2] = x.agentId
        /\ me[1] = "int" /\ me[2] = x.mode /\ ke[1] = "ctx0"
        /\ ke[2][1][2] = EncodeCapabilities(x.constraints)[2]
        /\ ee[1] = "ctx1" /\ ee[2][1][2] = els
    BY DEF Utf8, Num, Ctx0, Ctx1, Seqn
  <1>3. d[1] = "seq" /\ ParseAuthorization(d[2]) = x.auth
    BY AuthorizationReadsBack DEF X509AIC
  <1>4. ParsePrincipalUid(u[2]) = [x.uid EXCEPT !.hashAlgo = IF @ = NoOid THEN Sha256 ELSE @]
    BY UidReadsBack DEF X509AIC
  <1>5. /\ ParseCapabilities(c[2]) = x.caps
        /\ ParseCapabilities(ke[2][1][2]) = x.constraints
    BY <1>2, CapabilitiesReadBack DEF X509AIC
  <1>6. [n \in DOMAIN els |-> ParseExtension(els[n][2])] = x.extensions
    <2>1. x.extensions \in Seq(X509ExtField)
      BY DEF X509AIC
    <2> QED
      BY <2>1, ExtensionsReadBack, ZenonT(40)
  <1>7. {ve, a, u, c, me, ke, d, ee} \subseteq S
        /\ V \in BOOLEAN /\ M \in BOOLEAN /\ K \in BOOLEAN /\ E \in BOOLEAN
    OBVIOUS
  <1>8. /\ V <=> x.version # 1
        /\ M <=> x.mode # 0
        /\ K <=> x.constraints # << >>
        /\ E <=> x.extensions # << >>
    OBVIOUS
  <1> HIDE DEF ve, a, u, c, me, ke, d, ee, els, S, f, V, M, K, E
  <1>9. /\ v \in Seq(S) /\ Len(v) = (IF V THEN 1 ELSE 0) /\ (V => v[1] = ve)
        /\ m \in Seq(S) /\ Len(m) = (IF M THEN 1 ELSE 0) /\ (M => m[1] = me)
        /\ k \in Seq(S) /\ Len(k) = (IF K THEN 1 ELSE 0) /\ (K => k[1] = ke)
        /\ e \in Seq(S) /\ Len(e) = (IF E THEN 1 ELSE 0) /\ (E => e[1] = ee)
    BY <1>7, OptionalField
  <1>10. i = Len(v) + 1
    OBVIOUS
  <1> HIDE DEF v, m, k, e, i
  <1>11. /\ a \in S /\ u \in S /\ c \in S /\ d \in S
         /\ Len(v) <= 1 /\ Len(m) <= 1 /\ Len(k) <= 1 /\ Len(e) <= 1
    BY <1>7, <1>9
  <1>12. AICFields(f, i, v, a, u, c, m, k, d, e)
    BY <1>1, <1>9, <1>10, <1>11, AICLayout
  <1>13. DOMAIN f = 1..(4 + Len(v) + Len(m) + Len(k) + Len(e))
    BY <1>12 DEF AICFields
  <1>14. f[i] = a /\ f[i + 1] = u /\ f[i + 2] = c
    BY <1>12 DEF AICFields
  <1>15. IsAt(f, 1, "int") <=> V
    BY <1>2, <1>9, <1>10, <1>12 DEF AICFields, IsAt
  <1>16. i = (IF IsAt(f, 1, "int") THEN 2 ELSE 1)
    BY <1>9, <1>10, <1>15
  <1>17. i + 3 + Len(m) + Len(k) \in DOMAIN f
         /\ f[i + 3 + Len(m) + Len(k)] = d
    BY <1>9, <1>10, <1>13, <1>12 DEF AICFields
  <1>18. IsAt(f, i + 3, "int") <=> M
    BY <1>2, <1>3, <1>9, <1>10, <1>12 DEF AICFields, IsAt
  <1>19. i + 3 + Len(m) = (IF IsAt(f, i + 3, "int") THEN i + 3 + 1 ELSE i + 3)
    BY <1>9, <1>10, <1>18
  <1>20. IsAt(f, i + 3 + Len(m), "ctx0") <=> K
    BY <1>2, <1>3, <1>9, <1>10, <1>12 DEF AICFields, IsAt
  <1>21. i + 3 + Len(m) + Len(k)
           = (IF IsAt(f, i + 3 + Len(m), "ctx0") THEN i + 3 + Len(m) + 1 ELSE i + 3 + Len(m))
    BY <1>9, <1>10, <1>20
  <1>22. IsAt(f, i + 3 + Len(m) + Len(k) + 1, "ctx1") <=> E
    BY <1>2, <1>3, <1>9, <1>10, <1>12 DEF AICFields, IsAt
  <1>23. /\ ValueOr(f, 1, "int", 1) = x.version
         /\ ValueOr(f, i + 3, "int", 0) = x.mode
    BY <1>2, <1>8, <1>9, <1>12, <1>15, <1>18 DEF AICFields, ValueOr
  <1>24. (IF IsAt(f, i + 3 + Len(m), "ctx0")
          THEN ParseCapabilities(f[i + 3 + Len(m)][2][1][2]) ELSE << >>) = x.constraints
    BY <1>5, <1>8, <1>9, <1>12, <1>20 DEF AICFields
  <1>25. (IF IsAt(f, i + 3 + Len(m) + Len(k) + 1, "ctx1")
          THEN [n \in DOMAIN f[i + 3 + Len(m) + Len(k) + 1][2][1][2] |->
                  ParseExtension(f[i + 3 + Len(m) + Len(k) + 1][2][1][2][n][2])]
          ELSE << >>) = x.extensions
    <2>1. CASE E
      <3>1. f[i + 3 + Len(m) + Len(k) + 1] = ee
        BY <1>9, <1>10, <1>12, <2>1 DEF AICFields
      <3> QED
        BY <1>2, <1>6, <1>22, <2>1, <3>1
    <2>2. CASE ~E
      BY <1>8, <1>22, <2>2
    <2> QED
      BY <2>1, <2>2
  <1> DEFINE j == i + 3 + Len(m)
             h == j + Len(k)
             U == [x.uid EXCEPT !.hashAlgo = IF @ = NoOid THEN Sha256 ELSE @]
  <1>26. ParsePrincipalUid(f[i + 1][2]) = U
    BY <1>4, <1>14
  <1>27. EncodeAIC(x) = <<"seq", f>>
    BY DEF EncodeAIC, Seqn, f
  <1>28. Canonical(x) =
           [version |-> x.version, agentId |-> x.agentId, uid |-> U,
            caps |-> x.caps, mode |-> x.mode, constraints |-> x.constraints,
            auth |-> x.auth, extensions |-> x.extensions]
    BY DEF Canonical, X509AIC
  <1> HIDE DEF U
  <1>29. /\ j = (IF IsAt(f, i + 3, "int") THEN i + 3 + 1 ELSE i + 3)
         /\ h = (IF IsAt(f, j, "ctx0") THEN j + 1 ELSE j)
    BY <1>19, <1>21
  <1>30. /\ (IF IsAt(f, j, "ctx0")
             THEN ParseCapabilities(f[j][2][1][2]) ELSE << >>) = x.constraints
         /\ f[h] = d
         /\ (IF IsAt(f, h + 1, "ctx1")
             THEN [n \in DOMAIN f[h + 1][2][1][2] |->
                     ParseExtension(f[h + 1][2][1][2][n][2])]
             ELSE << >>) = x.extensions
    BY <1>17, <1>24, <1>25
  <1> HIDE DEF j, h
  <1>31. ParseAIC(<<"seq", f>>) = ReadAt(f, i, j, h)
    BY <1>16, <1>29, ParseAICAt
  <1> QED
    BY <1>2, <1>3, <1>5, <1>14, <1>23, <1>26, <1>27, <1>28, <1>30, <1>31 DEF ReadAt

\* ... and so it is when it travels as an extension of a certificate.
LEMMA CertificateReadsBack ==
  ASSUME NEW x \in X509AIC, NEW spki
  PROVE  FindAIC(BuildAICCertificate(x, spki)) = <<Canonical(x)>>
  <1> DEFINE ext == Seqn(<<Oid(OidAIC), Octet(EncodeAIC(x))>>)
             tbs == BuildAICCertificate(x, spki)[2][1][2]
             exts == <<ext>>
             hit == {n \in DOMAIN exts : exts[n][2][1] = Oid(OidAIC)}
  <1>1. Len(tbs) = 8 /\ tbs[8] = Ctx3(Seqn(exts))
    BY DEF BuildAICCertificate, Seqn
  <1>2. /\ IsAt(tbs, Len(tbs), "ctx3") /\ tbs[Len(tbs)][2][1][2] = exts
    <2>1. DOMAIN tbs = 1..8
      BY DEF BuildAICCertificate, Seqn
    <2> QED
      BY <1>1, <2>1 DEF IsAt, Ctx3, Seqn
  <1>3. /\ ext[2][1] = Oid(OidAIC) /\ Len(ext[2]) = 2 /\ ext[2][2][2] = EncodeAIC(x)
    BY DEF Seqn, Octet
  <1>4. hit = {1}
    BY <1>3
  <1>5. (CHOOSE n \in hit : \A m \in hit : m <= n) = 1
    BY <1>4
  <1> HIDE DEF hit
  <1> DEFINE e == exts[CHOOSE n \in hit : \A m \in hit : m <= n][2]
  <1>10. exts[1] = ext
    OBVIOUS
  <1>6. e = ext[2]
    BY <1>5, <1>10
  <1>7. e[Len(e)][2] = EncodeAIC(x)
    BY <1>3, <1>6
  <1>8. hit # {}
    BY <1>4
  <1> HIDE DEF tbs, e, exts
  <1>9. FindAIC(BuildAICCertificate(x, spki)) = <<ParseAIC(e[Len(e)][2])>>
    BY <1>2, <1>8 DEF FindAIC, tbs, hit, e
  <1> QED
    BY <1>7, <1>9, AICReads

\* The signed fields of an AIC, read back from the octets under the signature.
ReadTBS(f) ==
  LET i == IF IsAt(f, 1, "int") THEN 2 ELSE 1
      z == Len(f)
      K == IsAt(f, z - 3, "ctx0")
      M == z > i + 6 + (IF K THEN 1 ELSE 0)
  IN  [version |-> ValueOr(f, 1, "int", 1),
       agentId |-> f[i][2], uid |-> ParsePrincipalUid(f[i + 1][2]),
       reason |-> <<f[i + 2][2][1][2], f[i + 2][2][2][2]>>,
       caps |-> ParseCapabilities(f[i + 3][2]),
       mode |-> IF M THEN f[i + 4][2] ELSE 0,
       constraints |-> IF K THEN ParseCapabilities(f[z - 3][2][1][2]) ELSE << >>,
       lifetime |-> f[z - 2][2], ts |-> f[z - 1][2], nonce |-> f[z][2]]

\* The signed fields of an AIC.
Signed(x) ==
  [version |-> x.version, agentId |-> x.agentId,
   uid |-> [x.uid EXCEPT !.hashAlgo = IF @ = NoOid THEN Sha256 ELSE @],
   reason |-> <<x.auth.code, x.auth.desc>>, caps |-> x.caps, mode |-> x.mode,
   constraints |-> x.constraints, lifetime |-> x.auth.lifetime,
   ts |-> x.auth.ts, nonce |-> x.auth.nonce]

\* Where the fields under the signature stand, around the version v, the mode m
\* and the constraints k, which are written only when they say something.
TBSFields(f, i, v, a, u, r, c, m, k, l, t, n) ==
  /\ Len(f) = i + 6 + Len(m) + Len(k) /\ DOMAIN f = 1..Len(f)
  /\ f[i] = a /\ f[i + 1] = u /\ f[i + 2] = r /\ f[i + 3] = c
  /\ Len(v) = 1 => f[1] = v[1]
  /\ Len(m) = 1 => f[i + 4] = m[1]
  /\ Len(k) = 1 => f[i + 4 + Len(m)] = k[1]
  /\ f[i + 4 + Len(m) + Len(k)] = l
  /\ f[i + 5 + Len(m) + Len(k)] = t
  /\ f[i + 6 + Len(m) + Len(k)] = n

\* A concatenation with at most one of each option has its fields there.
LEMMA TBSLayout ==
  ASSUME NEW S, NEW v \in Seq(S), NEW a \in S, NEW u \in S, NEW r \in S, NEW c \in S,
         NEW m \in Seq(S), NEW k \in Seq(S), NEW l \in S, NEW t \in S, NEW n \in S,
         Len(v) <= 1, Len(m) <= 1, Len(k) <= 1
  PROVE  TBSFields(v \o <<a, u, r, c>> \o m \o k \o <<l>> \o <<t, n>>, Len(v) + 1,
                   v, a, u, r, c, m, k, l, t, n)
  <1> DEFINE g == v \o <<a, u, r, c>> \o m \o k \o <<l>> \o <<t, n>>
             i == Len(v) + 1
  <1>1. /\ g \in Seq(S) /\ Len(g) = i + 6 + Len(m) + Len(k)
        /\ g[i] = a /\ g[i + 1] = u /\ g[i + 2] = r /\ g[i + 3] = c
        /\ Len(v) = 1 => g[1] = v[1]
        /\ Len(m) = 1 => g[i + 4] = m[1]
        /\ Len(k) = 1 => g[i + 4 + Len(m)] = k[1]
        /\ g[i + 4 + Len(m) + Len(k)] = l
        /\ g[i + 5 + Len(m) + Len(k)] = t
        /\ g[i + 6 + Len(m) + Len(k)] = n
    BY SMTT(40)
  <1> HIDE DEF g, i
  <1>2. DOMAIN g = 1..Len(g)
    BY <1>1
  <1>3. TBSFields(g, i, v, a, u, r, c, m, k, l, t, n)
    BY <1>1, <1>2 DEF TBSFields
  <1> QED
    BY <1>3 DEF g, i

\* The octets under the signature determine every signed field: a lifetime, which
\* is at least one second, is always written.
LEMMA TBSReadsBack ==
  ASSUME NEW x \in X509AIC, x.auth.lifetime >= 1
  PROVE  ReadTBS(EncodeTBS(x)[2]) = Signed(x)
  <1> DEFINE V == x.version # 1
             M == x.mode # 0
             K == x.constraints # << >>
             ve == Num(x.version)
             a == Utf8(x.agentId)
             u == EncodePrincipalUid(x.uid)
             r == EncodeReason(x.auth)
             c == EncodeCapabilities(x.caps)
             me == Num(x.mode)
             ke == Ctx0(EncodeCapabilities(x.constraints))
             l == Num(x.auth.lifetime)
             t == Time(x.auth.ts)
             n == Octet(x.auth.nonce)
             v == Optional(V, ve)
             m == Optional(M, me)
             k == Optional(K, ke)
             S == {ve, a, u, r, c, me, ke, l, t, n}
             f == EncodeTBS(x)[2]
             i == Len(v) + 1
             z == Len(f)
             U == [x.uid EXCEPT !.hashAlgo = IF @ = NoOid THEN Sha256 ELSE @]
  <1>1. f = v \o <<a, u, r, c>> \o m \o k \o <<l>> \o <<t, n>>
    <2>1. Optional(x.auth.lifetime # 0, l) = <<l>>
      BY DEF Optional, X509AIC, X509Authorization
    <2> QED
      BY <2>1 DEF EncodeTBS, Seqn
  <1>2. /\ ve[1] = "int" /\ ve[2] = x.version /\ a[1] = "utf8" /\ a[2] = x.agentId
        /\ me[1] = "int" /\ me[2] = x.mode /\ ke[1] = "ctx0"
        /\ ke[2][1][2] = EncodeCapabilities(x.constraints)[2]
        /\ l[1] = "int" /\ l[2] = x.auth.lifetime /\ t[2] = x.auth.ts /\ n[2] = x.auth.nonce
    BY DEF Utf8, Num, Ctx0, Seqn, Time, Octet
  <1>3. r[2][1][2] = x.auth.code /\ r[2][2][2] = x.auth.desc
    BY DEF EncodeReason, Seqn, Utf8
  <1>4. ParsePrincipalUid(u[2]) = U
    BY UidReadsBack DEF X509AIC
  <1>5. /\ ParseCapabilities(c[2]) = x.caps
        /\ ParseCapabilities(ke[2][1][2]) = x.constraints
    BY <1>2, CapabilitiesReadBack DEF X509AIC
  <1>6. c[1] = "seq"
    BY DEF EncodeCapabilities, Seqn
  <1>7. {ve, a, u, r, c, me, ke, l, t, n} \subseteq S
        /\ V \in BOOLEAN /\ M \in BOOLEAN /\ K \in BOOLEAN
    OBVIOUS
  <1>8. /\ V <=> x.version # 1
        /\ M <=> x.mode # 0
        /\ K <=> x.constraints # << >>
    OBVIOUS
  <1> HIDE DEF ve, a, u, r, c, me, ke, l, t, n, S, f, V, M, K, U
  <1>9. /\ v \in Seq(S) /\ Len(v) = (IF V THEN 1 ELSE 0) /\ (V => v[1] = ve)
        /\ m \in Seq(S) /\ Len(m) = (IF M THEN 1 ELSE 0) /\ (M => m[1] = me)
        /\ k \in Seq(S) /\ Len(k) = (IF K THEN 1 ELSE 0) /\ (K => k[1] = ke)
    BY <1>7, OptionalField
  <1>10. i = Len(v) + 1
    OBVIOUS
  <1> HIDE DEF v, m, k, i
  <1>11. /\ a \in S /\ u \in S /\ r \in S /\ c \in S /\ l \in S /\ t \in S /\ n \in S
         /\ Len(v) <= 1 /\ Len(m) <= 1 /\ Len(k) <= 1
    BY <1>7, <1>9
  <1>12. TBSFields(f, i, v, a, u, r, c, m, k, l, t, n)
    BY <1>1, <1>9, <1>10, <1>11, TBSLayout
  <1>13. IsAt(f, 1, "int") <=> V
    BY <1>2, <1>9, <1>10, <1>12 DEF TBSFields, IsAt
  <1>14. i = (IF IsAt(f, 1, "int") THEN 2 ELSE 1) /\ i \in {1, 2}
    BY <1>9, <1>10, <1>13
  <1>15. z = i + 6 + Len(m) + Len(k) /\ DOMAIN f = 1..z
    BY <1>12 DEF TBSFields
  <1>16. IsAt(f, z - 3, "ctx0") <=> K
    <2>1. CASE K
      <3>1. z - 3 = i + 4 + Len(m) /\ z - 3 \in 1..z
        BY <1>9, <1>14, <1>15, <2>1
      <3> QED
        BY <1>2, <1>9, <1>12, <1>15, <2>1, <3>1 DEF TBSFields, IsAt
    <2>2. CASE ~K /\ M
      <3>1. z - 3 = i + 4
        BY <1>9, <1>14, <1>15, <2>2
      <3> QED
        BY <1>2, <1>9, <1>12, <2>2, <3>1 DEF TBSFields, IsAt
    <2>3. CASE ~K /\ ~M
      <3>1. z - 3 = i + 3
        BY <1>9, <1>14, <1>15, <2>3
      <3> QED
        BY <1>6, <1>12, <2>3, <3>1 DEF TBSFields, IsAt
    <2> QED
      BY <2>1, <2>2, <2>3
  <1>17. (z > i + 6 + (IF IsAt(f, z - 3, "ctx0") THEN 1 ELSE 0)) <=> M
    BY <1>9, <1>14, <1>15, <1>16
  <1>18. /\ f[i][2] = x.agentId /\ ParsePrincipalUid(f[i + 1][2]) = U
         /\ f[i + 2][2][1][2] = x.auth.code /\ f[i + 2][2][2][2] = x.auth.desc
         /\ ParseCapabilities(f[i + 3][2]) = x.caps
    BY <1>2, <1>3, <1>4, <1>5, <1>12 DEF TBSFields
  <1>19. (IF M THEN f[i + 4][2] ELSE 0) = x.mode
    BY <1>2, <1>8, <1>9, <1>12 DEF TBSFields
  <1>20. (IF K THEN ParseCapabilities(f[z - 3][2][1][2]) ELSE << >>) = x.constraints
    <2>1. CASE K
      <3>1. z - 3 = i + 4 + Len(m)
        BY <1>9, <1>14, <1>15, <2>1
      <3> QED
        BY <1>5, <1>9, <1>12, <2>1, <3>1 DEF TBSFields
    <2>2. CASE ~K
      BY <1>8, <2>2
    <2> QED
      BY <2>1, <2>2
  <1>21. f[z - 2][2] = x.auth.lifetime /\ f[z - 1][2] = x.auth.ts /\ f[z][2] = x.auth.nonce
    <2>1. z - 2 = i + 4 + Len(m) + Len(k) /\ z - 1 = i + 5 + Len(m) + Len(k)
      BY <1>9, <1>14, <1>15
    <2> QED
      BY <1>2, <1>12, <1>15, <2>1 DEF TBSFields
  <1>22. ReadTBS(f) =
           [version |-> x.version, agentId |-> x.agentId, uid |-> U,
            reason |-> <<x.auth.code, x.auth.desc>>, caps |-> x.caps, mode |-> x.mode,
            constraints |-> x.constraints, lifetime |-> x.auth.lifetime,
            ts |-> x.auth.ts, nonce |-> x.auth.nonce]
    <2>1. ValueOr(f, 1, "int", 1) = x.version
      BY <1>2, <1>8, <1>9, <1>12, <1>13 DEF TBSFields, ValueOr
    <2> QED
      BY <1>14, <1>16, <1>17, <1>18, <1>19, <1>20, <1>21, <2>1 DEF ReadTBS
  <1> QED
    BY <1>22 DEF Signed, U, f

\* The claims without the token's extensions, written out.
PlainStart(x, o)    == IF o.now > 0 THEN o.now ELSE x.auth.ts
PlainLifetime(x, o) == IF o.lifetime > 0 THEN o.lifetime ELSE x.auth.lifetime
PlainMode(x)        == IF x.mode = 1 THEN "representative" ELSE "authorized"
PlainDA(x, o) ==
  [ver |-> 2, iss |-> <<x.uid.realm, x.uid.id>>,
   sub |-> IF PlainMode(x) = "representative" THEN <<x.uid.realm, x.uid.id>>
           ELSE <<x.agentId>>,
   aud |-> o.audience, agent |-> x.agentId, principal |-> Principal(x.uid),
   reason |-> <<x.auth.code, x.auth.desc>>, caps |-> x.caps,
   mode |-> PlainMode(x), constraints |-> x.constraints,
   ts |-> PlainStart(x, o), iat |-> PlainStart(x, o),
   lifetime |-> PlainLifetime(x, o),
   exp |-> PlainStart(x, o) + PlainLifetime(x, o),
   jti |-> x.auth.nonce, nonce |-> x.auth.nonce]
PlainAIC(x, e) ==
  [ver |-> x.version, principal |-> Principal(x.uid), mode |-> PlainMode(x),
   caps |-> x.caps, constraints |-> x.constraints, extensions |-> e]
PlainOuter(x, o, a) ==
  [iss |-> "", sub |-> x.agentId, aud |-> o.audience, iat |-> PlainStart(x, o),
   exp |-> PlainStart(x, o) + PlainLifetime(x, o), jti |-> x.auth.nonce,
   jkt |-> "", aic |-> a]
PlainClaims(x, o, e) ==
  [da |-> PlainDA(x, o), outer |-> PlainOuter(x, o, PlainAIC(x, e))]

\* Writing one field of a record, for the records of the token's claims.
LEMMA FieldsWritten ==
  ASSUME NEW b, NEW d, NEW s, NEW a, NEW i, NEW x, NEW j, NEW k,
         NEW v, NEW p, NEW m, NEW c, NEW n, NEW y, NEW z
  PROVE  /\ [[da |-> d, outer |-> y] EXCEPT !.outer = z] = [da |-> d, outer |-> z]
         /\ [[iss |-> b, sub |-> s, aud |-> a, iat |-> i, exp |-> x, jti |-> j,
              jkt |-> k, aic |-> y] EXCEPT !.aic = z]
              = [iss |-> b, sub |-> s, aud |-> a, iat |-> i, exp |-> x, jti |-> j,
                 jkt |-> k, aic |-> z]
         /\ [[ver |-> v, principal |-> p, mode |-> m, caps |-> c, constraints |-> n,
              extensions |-> y] EXCEPT !.extensions = z]
              = [ver |-> v, principal |-> p, mode |-> m, caps |-> c, constraints |-> n,
                 extensions |-> z]
  OBVIOUS

LEMMA ClaimsWrittenOut ==
  ASSUME NEW x, NEW o
  PROVE  SignedClaims(MapToClaims(x, o))
           = IF Principal(x.uid).hashAlg \in HashAlgs THEN <<PlainClaims(x, o, << >>)>>
             ELSE << >>
  <1> DEFINE c == MapToClaims(x, o)
             e == ExtensionClaims(x.extensions)
             A == PlainAIC(x, e)
             B == PlainAIC(x, << >>)
             C == PlainClaims(x, o, e)
  <1>1. CASE Principal(x.uid).hashAlg \in HashAlgs
    <2>1. c = <<C>>
      BY <1>1 DEF MapToClaims, PlainClaims, PlainDA, PlainOuter, PlainAIC, PlainMode,
                  PlainStart, PlainLifetime
    <2>2. [A EXCEPT !.extensions = << >>] = B
      BY FieldsWritten DEF PlainAIC
    <2>3. /\ PlainOuter(x, o, A).aic = A
          /\ [PlainOuter(x, o, A) EXCEPT !.aic = B] = PlainOuter(x, o, B)
      <3> HIDE DEF A, B
      <3>1. PlainOuter(x, o, A).aic = A
        BY DEF PlainOuter
      <3> DEFINE b == ""
                 t == PlainStart(x, o)
                 u == PlainStart(x, o) + PlainLifetime(x, o)
                 j == x.auth.nonce
                 O(y) == [iss |-> b, sub |-> x.agentId, aud |-> o.audience, iat |-> t,
                          exp |-> u, jti |-> j, jkt |-> b, aic |-> y]
      <3>2. PlainOuter(x, o, A) = O(A) /\ PlainOuter(x, o, B) = O(B)
        BY Zenon DEF PlainOuter
      <3> HIDE DEF b, t, u, j
      <3>3. [O(A) EXCEPT !.aic = B] = O(B)
        BY FieldsWritten
      <3> QED
        BY <3>1, <3>2, <3>3
    <2>4. /\ C.outer = PlainOuter(x, o, A)
          /\ [C EXCEPT !.outer = PlainOuter(x, o, B)] = PlainClaims(x, o, << >>)
      BY FieldsWritten DEF PlainClaims
    <2> HIDE DEF A, B, C, c, e
    <2>5. [C EXCEPT !.outer.aic.extensions = << >>] = PlainClaims(x, o, << >>)
      BY <2>2, <2>3, <2>4
    <2>6. DOMAIN c = {1} /\ c[1] = C
      BY <2>1
    <2>7. SignedClaims(c) = <<PlainClaims(x, o, << >>)>>
      BY <2>5, <2>6 DEF SignedClaims
    <2> QED
      BY <1>1, <2>7 DEF c
  <1>2. CASE Principal(x.uid).hashAlg \notin HashAlgs
    <2>1. c = << >>
      BY <1>2 DEF MapToClaims
    <2> QED
      BY <1>2, <2>1 DEF SignedClaims
  <1> QED
    BY <1>1, <1>2

\* The claims but the token's extensions come from signed fields alone.
LEMMA ClaimsAreSigned ==
  ASSUME NEW x \in X509AIC, NEW y \in X509AIC, Signed(x) = Signed(y), NEW o
  PROVE  SignedClaims(MapToClaims(x, o)) = SignedClaims(MapToClaims(y, o))
  <1> DEFINE U(w) == [w.uid EXCEPT !.hashAlgo = IF @ = NoOid THEN Sha256 ELSE @]
  <1>1. ASSUME NEW w \in X509AIC
        PROVE  /\ U(w).realm = w.uid.realm /\ U(w).id = w.uid.id
               /\ U(w).keyHash = w.uid.keyHash
               /\ U(w).hashAlgo = (IF w.uid.hashAlgo = NoOid THEN Sha256 ELSE w.uid.hashAlgo)
    BY DEF X509AIC, X509PrincipalUid
  <1>2. U(x) = U(y)
    BY DEF Signed
  <1> HIDE DEF U
  <1>3. /\ x.uid.realm = y.uid.realm /\ x.uid.id = y.uid.id
        /\ Principal(x.uid) = Principal(y.uid)
    BY <1>1, <1>2 DEF Principal
  <1>4. /\ x.version = y.version /\ x.agentId = y.agentId
        /\ x.auth.code = y.auth.code /\ x.auth.desc = y.auth.desc
        /\ x.caps = y.caps /\ x.mode = y.mode /\ x.constraints = y.constraints
        /\ x.auth.lifetime = y.auth.lifetime /\ x.auth.ts = y.auth.ts
        /\ x.auth.nonce = y.auth.nonce
    BY DEF Signed
  <1>5. PlainClaims(x, o, << >>) = PlainClaims(y, o, << >>)
    BY <1>3, <1>4 DEF PlainClaims, PlainDA, PlainOuter, PlainAIC, PlainMode,
                      PlainStart, PlainLifetime
  <1> QED
    BY <1>3, <1>5, ClaimsWrittenOut

\* A signature made for a that verifies over b is over the same signed fields, so
\* both map to the same claims but for the token's extensions.
LEMMA SignatureSpeaks ==
  ASSUME NEW a \in X509AIC, NEW b \in X509AIC,
         a.auth.lifetime >= 1, b.auth.lifetime >= 1, NEW o,
         VerifyDelegation([b EXCEPT !.auth.sig = Sign(a, "principal").auth.sig],
                          "principal")
  PROVE  SignedClaims(MapToClaims(a, o)) = SignedClaims(MapToClaims(b, o))
  <1> DEFINE s == <<"principal", EncodeTBS(a)>>
             shown == [b EXCEPT !.auth.sig = s]
  <1>1. Sign(a, "principal").auth.sig = s
    BY DEF Sign, X509AIC, X509Authorization
  <1>2. shown.auth.sig = <<"principal", EncodeTBS(shown)>>
    BY <1>1 DEF VerifyDelegation
  <1>3. /\ shown.version = b.version /\ shown.agentId = b.agentId /\ shown.uid = b.uid
        /\ shown.caps = b.caps /\ shown.mode = b.mode /\ shown.constraints = b.constraints
        /\ shown.auth.sig = s
        /\ shown.auth.code = b.auth.code /\ shown.auth.desc = b.auth.desc
        /\ shown.auth.lifetime = b.auth.lifetime /\ shown.auth.ts = b.auth.ts
        /\ shown.auth.nonce = b.auth.nonce
    BY DEF X509AIC, X509Authorization
  <1> HIDE DEF shown
  <1>4. EncodeTBS(shown) = EncodeTBS(b)
    BY <1>3 DEF EncodeTBS, EncodeReason
  <1>5. EncodeTBS(a) = EncodeTBS(b)
    BY <1>2, <1>3, <1>4
  <1>6. Signed(a) = Signed(b)
    BY <1>5, TBSReadsBack
  <1> QED
    BY <1>6, ClaimsAreSigned

-----------------------------------------------------------------------------
(* Loops and digits: a loop that carries one value defines a table, and    *)
(* the digits of a number, read from the left, are the number.             *)

\* Naturals are closed under multiplication,
LEMMA TimesNat ==
  ASSUME NEW a \in Nat, NEW b \in Nat
  PROVE  a * b \in Nat
  OBVIOUS

\* and under a step of Horner's rule.
LEMMA HornerNat ==
  ASSUME NEW a \in Nat, NEW b \in Nat, NEW c \in Nat
  PROVE  a * b + c \in Nat
  BY TimesNat

\* Quotient and remainder.
LEMMA QuotRem ==
  ASSUME NEW b \in Nat, b >= 2, NEW m \in Nat
  PROVE  /\ m \div b \in Nat /\ m % b \in 0..(b - 1)
         /\ m = (m \div b) * b + (m % b)
         /\ m \div b <= m
         /\ m >= b => m \div b < m
  <1> DEFINE q == m \div b
             r == m % b
  <1>1. m = q * b + r /\ r \in 0..(b - 1) /\ q \in Int
    OBVIOUS
  <1>2. q >= 0
    OBVIOUS
  <1> HIDE DEF q, r
  <1>3. q * b >= q * 2
    BY <1>1, <1>2
  <1>4. q <= m /\ (m >= b => q < m)
    BY <1>1, <1>2, <1>3
  <1> QED
    BY <1>1, <1>2, <1>4 DEF q, r
\* What a loop that carries one value computes: init at lo, and from there on
\* step applied to the value before.
IsLoop(lo, N, V, init, step) ==
  /\ lo \in Nat /\ N \in Nat /\ lo <= N /\ init \in V
  /\ step \in [(lo + 1)..N -> [V -> V]]

\* The table of such a loop.
Carries(f, lo, N, init, step) ==
  \A n \in lo..N : f[n] = IF n = lo THEN init ELSE step[n][f[n - 1]]

\* Such a loop has a table: a recursive definition is what it unfolds to only where
\* some function satisfies it.
LEMMA LoopExists ==
  ASSUME NEW lo, NEW N, NEW V, NEW init, NEW step, IsLoop(lo, N, V, init, step)
  PROVE  \E f \in [lo..N -> V] : Carries(f, lo, N, init, step)
  <1> USE DEF IsLoop
  <1> DEFINE D == lo..N
             body(f, n) == IF n = lo THEN init ELSE step[n][f[n - 1]]
             rank == [n \in D |-> n]
             Phi == [f \in [D -> V] |-> [n \in D |-> body(f, n)]]
  <1>1. \A f \in [D -> V] : [n \in D |-> body(f, n)] \in [D -> V]
    <2> SUFFICES ASSUME NEW f \in [D -> V], NEW n \in D PROVE body(f, n) \in V
      OBVIOUS
    <2>1. CASE n = lo
      BY <2>1
    <2>2. CASE n # lo
      <3>1. n - 1 \in D /\ n \in (lo + 1)..N
        BY <2>2
      <3>2. f[n - 1] \in V /\ step[n] \in [V -> V]
        BY <3>1
      <3> QED
        BY <2>2, <3>2
    <2> QED
      BY <2>1, <2>2
  <1>2. \A f, g \in [D -> V] : \A x \in D :
          (\A y \in D : rank[y] < rank[x] => f[y] = g[y]) => body(f, x) = body(g, x)
    <2> SUFFICES ASSUME NEW f \in [D -> V], NEW g \in [D -> V], NEW x \in D,
                        \A y \in D : rank[y] < rank[x] => f[y] = g[y]
                 PROVE  body(f, x) = body(g, x)
      OBVIOUS
    <2>1. x # lo => x - 1 \in D /\ rank[x - 1] < rank[x]
      OBVIOUS
    <2> QED
      BY <2>1
  <1>3. rank \in [D -> Nat] /\ [n \in D |-> init] \in [D -> V]
    OBVIOUS
  <1> HIDE DEF rank, body, D
  <1>4. \A f \in [D -> V] : Phi[f] = [n \in D |-> body(f, n)]
    OBVIOUS
  <1>5. Phi \in [[D -> V] -> [D -> V]]
    BY <1>1
  <1>6. \A f \in [D -> V] : \A x \in D : Phi[f][x] = body(f, x)
    BY <1>4
  <1> HIDE DEF Phi
  <1>7. \A f, g \in [D -> V] : \A x \in D :
          (\A y \in D : rank[y] < rank[x] => f[y] = g[y]) => Phi[f][x] = Phi[g][x]
    <2> SUFFICES ASSUME NEW f \in [D -> V], NEW g \in [D -> V], NEW x \in D,
                        \A y \in D : rank[y] < rank[x] => f[y] = g[y]
                 PROVE  Phi[f][x] = Phi[g][x]
      OBVIOUS
    <2>1. body(f, x) = body(g, x)
      BY <1>2
    <2> QED
      BY <1>6, <2>1
  <1>8. IsRecursion(D, V, rank, Phi)
    BY <1>3, <1>5, <1>7 DEF IsRecursion
  <1>9. \E f \in [D -> V] : f = Phi[f]
    BY <1>8, RecursiveFunctionExists
  <1>10. \E f \in [D -> V] : f = [n \in D |-> body(f, n)]
    BY <1>4, <1>9
  <1> QED
    BY <1>10 DEF D, body, Carries

\* The value of a digit string is read from the left.
LEMMA ValueLoop ==
  ASSUME NEW base \in Nat, NEW s \in Seq(Nat)
  PROVE  \E v \in [0..Len(s) -> Nat] :
           /\ v[0] = 0
           /\ \A n \in 1..Len(s) : v[n] = v[n - 1] * base + s[n]
           /\ Value(s, base) = v[Len(s)]
  <1> DEFINE v[n \in 0..Len(s)] == IF n = 0 THEN 0 ELSE v[n - 1] * base + s[n]
             step == [n \in 1..Len(s) |-> [x \in Nat |-> x * base + s[n]]]
  <1>1. IsLoop(0, Len(s), Nat, 0, step)
    BY DEF IsLoop
  <1>2. PICK f \in [0..Len(s) -> Nat] : Carries(f, 0, Len(s), 0, step)
    <2> HIDE DEF step
    <2> QED
      BY <1>1, LoopExists
  <1>3. \E g : g = [n \in 0..Len(s) |-> IF n = 0 THEN 0 ELSE g[n - 1] * base + s[n]]
    <2>1. ASSUME NEW n \in 0..Len(s)
          PROVE  f[n] = (IF n = 0 THEN 0 ELSE f[n - 1] * base + s[n])
      <3>1. f[n] = (IF n = 0 THEN 0 ELSE step[n][f[n - 1]])
        BY <1>2 DEF Carries
      <3>2. n # 0 => n \in 1..Len(s) /\ f[n - 1] \in Nat
        OBVIOUS
      <3> QED
        BY <3>1, <3>2
    <2>2. f = [n \in 0..Len(s) |-> IF n = 0 THEN 0 ELSE f[n - 1] * base + s[n]]
      BY <2>1
    <2> QED
      BY <2>2
  <1>4. v = [n \in 0..Len(s) |-> IF n = 0 THEN 0 ELSE v[n - 1] * base + s[n]]
    BY <1>3 DEF v
  <1>5. Value(s, base) = v[Len(s)]
    BY DEF Value
  <1> HIDE DEF v
  <1>6. v[0] = 0 /\ \A n \in 1..Len(s) : v[n] = v[n - 1] * base + s[n]
    <2>1. ASSUME NEW n \in 0..Len(s)
          PROVE  v[n] = (IF n = 0 THEN 0 ELSE v[n - 1] * base + s[n])
      BY <1>4, Zenon
    <2>2. 0 \in 0..Len(s) /\ \A n \in 1..Len(s) : n \in 0..Len(s) /\ n # 0
      OBVIOUS
    <2> QED
      BY <2>1, <2>2, Zenon
  <1> DEFINE U == {n \in Nat : n <= Len(s) => v[n] \in Nat}
  <1>7. 0 \in U
    BY <1>6
  <1>8. ASSUME NEW n \in Nat, n \in U PROVE n + 1 \in U
    <2> SUFFICES ASSUME n + 1 <= Len(s) PROVE v[n + 1] \in Nat
      OBVIOUS
    <2>1. v[n] \in Nat /\ n + 1 \in 1..Len(s) /\ (n + 1) - 1 = n /\ s[n + 1] \in Nat
      BY <1>8
    <2>2. v[n + 1] = v[(n + 1) - 1] * base + s[n + 1]
      BY <1>6, <2>1
    <2>3. v[n] * base + s[n + 1] \in Nat
      BY <2>1, HornerNat
    <2> QED
      BY <2>1, <2>2, <2>3
  <1>9. Nat \subseteq U
    <2> HIDE DEF U
    <2> QED
      BY <1>7, <1>8, Induction
  <1>10. v \in [0..Len(s) -> Nat]
    <2>1. \A n \in 0..Len(s) : v[n] \in Nat
      BY <1>9
    <2> QED
      BY <1>4, <2>1
  <1> QED
    BY <1>5, <1>6, <1>10

\* One more digit is one more step of Horner's rule.
LEMMA ValueOfAppend ==
  ASSUME NEW base \in Nat, NEW s \in Seq(Nat), NEW d \in Nat
  PROVE  /\ Value(s, base) \in Nat
         /\ Value(Append(s, d), base) = Value(s, base) * base + d
  <1> DEFINE t == Append(s, d)
             N == Len(s)
  <1>1. t \in Seq(Nat) /\ Len(t) = N + 1 /\ t[N + 1] = d /\ \A n \in 1..N : t[n] = s[n]
    OBVIOUS
  <1> HIDE DEF t
  <1>2. PICK v \in [0..N -> Nat] : /\ v[0] = 0
                                   /\ \A n \in 1..N : v[n] = v[n - 1] * base + s[n]
                                   /\ Value(s, base) = v[N]
    BY ValueLoop
  <1>3. PICK w \in [0..Len(t) -> Nat] : /\ w[0] = 0
                                   /\ \A n \in 1..Len(t) : w[n] = w[n - 1] * base + t[n]
                                   /\ Value(t, base) = w[Len(t)]
    BY <1>1, ValueLoop
  <1> N \in Nat
    OBVIOUS
  <1> HIDE DEF N
  <1> DEFINE U == {n \in Nat : n <= N => w[n] = v[n]}
  <1>4. 0 \in U
    BY <1>2, <1>3
  <1>5. ASSUME NEW n \in Nat, n \in U PROVE n + 1 \in U
    <2> SUFFICES ASSUME n + 1 <= N PROVE w[n + 1] = v[n + 1]
      OBVIOUS
    <2>1. w[n] = v[n] /\ n + 1 \in 1..N /\ n + 1 \in 1..Len(t)
      BY <1>1, <1>5
    <2>2. w[n + 1] = w[(n + 1) - 1] * base + t[n + 1] /\ v[n + 1] = v[(n + 1) - 1] * base + s[n + 1]
      BY <1>2, <1>3, <2>1
    <2>3. (n + 1) - 1 = n /\ t[n + 1] = s[n + 1]
      BY <1>1, <2>1
    <2> QED
      BY <2>1, <2>2, <2>3
  <1> HIDE DEF U
  <1>6. N \in U
    BY <1>4, <1>5, Induction
  <1>7. w[N] = v[N]
    BY <1>6 DEF U
  <1>8. w[N + 1] = w[(N + 1) - 1] * base + t[N + 1] /\ (N + 1) - 1 = N
    BY <1>1, <1>3
  <1> QED
    BY <1>1, <1>2, <1>3, <1>7, <1>8 DEF t

\* A function defined by division: of n in terms of a smaller number.
Divides(V, base, quot, first, step) ==
  /\ base \in Nat \ {0} /\ quot \in [Nat -> Nat]
  /\ \A n \in Nat : n >= base => quot[n] < n
  /\ first \in [0..(base - 1) -> V] /\ step \in [Nat -> [V -> V]]

\* Such a recursive definition defines a function, by induction.
LEMMA DivisionLoop ==
  ASSUME NEW V, NEW base, NEW quot, NEW first, NEW step,
         Divides(V, base, quot, first, step)
  PROVE  \E f \in [Nat -> V] : \A n \in Nat :
           f[n] = IF n < base THEN first[n] ELSE step[n][f[quot[n]]]
  <1> USE DEF Divides
  <1> DEFINE D == Nat
             any == first[0]
             body(f, n) == IF n < base THEN first[n] ELSE step[n][f[quot[n]]]
             rank == [n \in D |-> n]
             Phi == [f \in [D -> V] |-> [n \in D |-> body(f, n)]]
  <1>1. \A f \in [D -> V] : [n \in D |-> body(f, n)] \in [D -> V]
    <2> SUFFICES ASSUME NEW f \in [D -> V], NEW n \in D PROVE body(f, n) \in V
      OBVIOUS
    <2>1. CASE n < base
      <3>1. n \in 0..(base - 1)
        BY <2>1
      <3> QED
        BY <2>1, <3>1
    <2>2. CASE ~(n < base)
      <3>1. f[quot[n]] \in V /\ step[n] \in [V -> V]
        OBVIOUS
      <3> QED
        BY <2>2, <3>1
    <2> QED
      BY <2>1, <2>2
  <1>2. \A f, g \in [D -> V] : \A x \in D :
          (\A y \in D : rank[y] < rank[x] => f[y] = g[y]) => body(f, x) = body(g, x)
    <2> SUFFICES ASSUME NEW f \in [D -> V], NEW g \in [D -> V], NEW x \in D,
                        \A y \in D : rank[y] < rank[x] => f[y] = g[y]
                 PROVE  body(f, x) = body(g, x)
      OBVIOUS
    <2>1. CASE x < base
      BY <2>1
    <2>2. CASE ~(x < base)
      <3>1. quot[x] \in Nat /\ rank[quot[x]] < rank[x]
        BY <2>2
      <3>2. f[quot[x]] = g[quot[x]]
        BY <3>1
      <3> QED
        BY <2>2, <3>2
    <2> QED
      BY <2>1, <2>2
  <1>3. rank \in [D -> Nat] /\ [n \in D |-> any] \in [D -> V]
    OBVIOUS
  <1> HIDE DEF rank, body, D, any, Divides
  <1>4. \A f \in [D -> V] : Phi[f] = [n \in D |-> body(f, n)]
    OBVIOUS
  <1>5. Phi \in [[D -> V] -> [D -> V]]
    BY <1>1
  <1>6. \A f \in [D -> V] : \A x \in D : Phi[f][x] = body(f, x)
    BY <1>4
  <1> HIDE DEF Phi
  <1>7. \A f, g \in [D -> V] : \A x \in D :
          (\A y \in D : rank[y] < rank[x] => f[y] = g[y]) => Phi[f][x] = Phi[g][x]
    <2> SUFFICES ASSUME NEW f \in [D -> V], NEW g \in [D -> V], NEW x \in D,
                        \A y \in D : rank[y] < rank[x] => f[y] = g[y]
                 PROVE  Phi[f][x] = Phi[g][x]
      OBVIOUS
    <2>1. body(f, x) = body(g, x)
      BY <1>2
    <2> QED
      BY <1>6, <2>1
  <1>8. IsRecursion(D, V, rank, Phi)
    BY <1>3, <1>5, <1>7 DEF IsRecursion
  <1>9. PICK f \in [D -> V] : f = Phi[f]
    BY <1>8, RecursiveFunctionExists
  <1>10. \A n \in D : f[n] = body(f, n)
    BY <1>6, <1>9
  <1> QED
    BY <1>10 DEF body, D

\* What Digits computes, one digit at a time.
LEMMA DigitsUnfold ==
  ASSUME NEW base \in Nat, base >= 2
  PROVE  /\ \A n \in Nat : Digits(n, base) \in Seq(Nat)
         /\ \A n \in 0..(base - 1) : Digits(n, base) = <<n>>
         /\ \A n \in Nat : n >= base =>
              Digits(n, base) = Append(Digits(n \div base, base), n % base)
  <1> DEFINE V == Seq(Nat)
             ds[m \in Nat] == IF m < base THEN <<m>> ELSE Append(ds[m \div base], m % base)
             quot == [n \in Nat |-> n \div base]
             first == [n \in 0..(base - 1) |-> <<n>>]
             step == [n \in Nat |-> [s \in V |-> Append(s, n % base)]]
  <1>1. \A n \in Nat : n \div base \in Nat /\ (n % base) \in Nat /\ (n >= base => n \div base < n)
    BY QuotRem
  <1>2. quot \in [Nat -> Nat] /\ \A n \in Nat : n >= base => quot[n] < n
    BY <1>1
  <1>3. first \in [0..(base - 1) -> V]
    OBVIOUS
  <1>4. step \in [Nat -> [V -> V]]
    BY <1>1
  <1>5. << >> \in V
    OBVIOUS
  <1>6. PICK f \in [Nat -> V] : \A n \in Nat :
           f[n] = IF n < base THEN first[n] ELSE step[n][f[quot[n]]]
    <2>1. Divides(V, base, quot, first, step)
      <3>1. base \in Nat \ {0}
        OBVIOUS
      <3> HIDE DEF quot, first, step, V
      <3> QED
        BY <1>2, <1>3, <1>4, <3>1 DEF Divides
    <2> HIDE DEF quot, first, step, V
    <2> QED
      BY <2>1, DivisionLoop
  <1>7. \E g : g = [m \in Nat |-> IF m < base THEN <<m>> ELSE Append(g[m \div base], m % base)]
    <2>1. ASSUME NEW m \in Nat
          PROVE  f[m] = IF m < base THEN <<m>> ELSE Append(f[m \div base], m % base)
      <3>1. CASE m < base
        <4>1. m \in 0..(base - 1)
          BY <3>1
        <4>2. first[m] = <<m>>
          BY <4>1
        <4> HIDE DEF first
        <4> QED
          BY <1>6, <3>1, <4>2
      <3>2. CASE ~(m < base)
        <4>1. f[m] = step[m][f[quot[m]]]
          BY <1>6, <3>2
        <4>2. quot[m] = m \div base /\ f[m \div base] \in V
          BY <1>1
        <4>3. \A s \in V : step[m][s] = Append(s, m % base)
          OBVIOUS
        <4> HIDE DEF step, quot, V
        <4> QED
          BY <3>2, <4>1, <4>2, <4>3
      <3> QED
        BY <3>1, <3>2
    <2>2. f = [m \in Nat |-> f[m]]
      OBVIOUS
    <2>3. f = [m \in Nat |-> IF m < base THEN <<m>> ELSE Append(f[m \div base], m % base)]
      BY <2>1, <2>2, Zenon
    <2> QED
      BY <2>3
  <1>8. ds = [m \in Nat |-> IF m < base THEN <<m>> ELSE Append(ds[m \div base], m % base)]
    BY <1>7, Zenon DEF ds
  <1>9. \A n : Digits(n, base) = ds[n]
    BY DEF Digits
  <1> HIDE DEF ds, V, quot, first, step
  <1>10. \A m \in Nat : ds[m] = IF m < base THEN <<m>> ELSE Append(ds[m \div base], m % base)
    BY <1>8, Zenon
  <1>11. ASSUME NEW m \in Nat, m < base PROVE ds[m] = <<m>>
    BY <1>10, <1>11, Zenon
  <1>12. ASSUME NEW m \in Nat, ~(m < base) PROVE ds[m] = Append(ds[m \div base], m % base)
    BY <1>10, <1>12, Zenon
  <1> DEFINE U == {k \in Nat : \A m \in 0..k : ds[m] \in Seq(Nat)}
  <1>13. 0 \in U
    <2>1. ds[0] = <<0>>
      BY <1>11
    <2>2. 0..0 = {0}
      OBVIOUS
    <2>3. ds[0] \in Seq(Nat)
      <3>1. <<0>> \in Seq(Nat)
        OBVIOUS
      <3> QED
        BY <2>1, <3>1
    <2> QED
      BY <2>2, <2>3
  <1>14. ASSUME NEW k \in Nat, k \in U PROVE k + 1 \in U
    <2>1. ds[k + 1] \in Seq(Nat)
      <3>1. CASE k + 1 < base
        <4>1. ds[k + 1] = <<k + 1>>
          BY <1>11, <3>1
        <4> QED
          BY <4>1
      <3>2. CASE ~(k + 1 < base)
        <4> DEFINE q == (k + 1) \div base
                   r == (k + 1) % base
        <4>1. q \in 0..k /\ r \in Nat
          <5>1. k + 1 \in Nat /\ k + 1 >= base
            BY <3>2
          <5>2. q \in Nat /\ r \in Nat /\ q < k + 1
            BY <1>1, <5>1
          <5> HIDE DEF q
          <5> QED
            BY <5>2
        <4>2. ds[k + 1] = Append(ds[q], r)
          <5>1. k + 1 \in Nat
            OBVIOUS
          <5> QED
            BY <1>12, <3>2, <5>1, Zenon
        <4> HIDE DEF q, r
        <4>3. ds[q] \in Seq(Nat)
          BY <1>14, <4>1
        <4> QED
          BY <4>1, <4>2, <4>3
      <3> QED
        BY <3>1, <3>2
    <2> QED
      BY <1>14, <2>1
  <1>15. Nat \subseteq U
    <2> HIDE DEF U
    <2> QED
      BY <1>13, <1>14, Induction
  <1>16. \A n \in Nat : Digits(n, base) \in Seq(Nat)
    <2> SUFFICES ASSUME NEW n \in Nat PROVE ds[n] \in Seq(Nat)
      BY <1>9
    <2>1. n \in U /\ n \in 0..n
      BY <1>15
    <2> QED
      BY <2>1
  <1>17. \A n \in 0..(base - 1) : Digits(n, base) = <<n>>
    BY <1>9, <1>11
  <1>18. ASSUME NEW n \in Nat, n >= base
         PROVE  Digits(n, base) = Append(Digits(n \div base, base), n % base)
    <2>1. ~(n < base)
      BY <1>18
    <2> QED
      BY <1>9, <1>12, <2>1
  <1> QED
    BY <1>16, <1>17, <1>18

\* Where a number of at least two digits is cut.
LEMMA DigitsCut ==
  ASSUME NEW base \in Nat, base >= 2, NEW n \in Nat, n >= base
  PROVE  \E q \in 1..(n - 1), r \in 0..(base - 1) :
           /\ n = q * base + r
           /\ Digits(n, base) = Append(Digits(q, base), r)
           /\ Digits(q, base) \in Seq(Nat)
  <1> DEFINE q == n \div base
             r == n % base
  <1>1. q \in Nat /\ r \in 0..(base - 1) /\ n = q * base + r /\ q < n
    BY QuotRem
  <1>2. Digits(n, base) = Append(Digits(q, base), r) /\ Digits(q, base) \in Seq(Nat)
    BY <1>1, DigitsUnfold
  <1> HIDE DEF q, r
  <1>3. q # 0
    BY <1>1
  <1>4. q \in 1..(n - 1)
    BY <1>1, <1>3
  <1> QED
    BY <1>1, <1>2, <1>4

\* Digits are below the base, and the first is not zero unless it is alone.
LEMMA DigitsAre ==
  ASSUME NEW base \in Nat, base >= 2, NEW n \in Nat
  PROVE  /\ Digits(n, base) \in Seq(0..(base - 1)) /\ Len(Digits(n, base)) >= 1
         /\ Value(Digits(n, base), base) = n
         /\ n > 0 => Digits(n, base)[1] > 0
  <1> DEFINE Right(m) == /\ Digits(m, base) \in Seq(0..(base - 1)) /\ Len(Digits(m, base)) >= 1
                         /\ Value(Digits(m, base), base) = m
                         /\ m > 0 => Digits(m, base)[1] > 0
             U == {k \in Nat : \A m \in 0..k : Right(m)}
  <1>1. ASSUME NEW m \in Nat, m < base PROVE Right(m)
    <2>1. Digits(m, base) = <<m>> /\ <<m>> = Append(<< >>, m)
      BY <1>1, DigitsUnfold
    <2> DEFINE e == << >>
    <2>2. e \in Seq(Nat) /\ Len(e) = 0
      OBVIOUS
    <2>6. Append(e, m) = <<m>>
      OBVIOUS
    <2> HIDE DEF e
    <2>3. Value(e, base) = 0
      <3>1. PICK v \in [0..Len(e) -> Nat] : v[0] = 0 /\ Value(e, base) = v[Len(e)]
        BY <2>2, ValueLoop
      <3> QED
        BY <2>2, <3>1
    <2>4. Value(Append(e, m), base) = Value(e, base) * base + m
      BY <2>2, ValueOfAppend
    <2>5. 0 * base = 0
      OBVIOUS
    <2>7. Value(<<m>>, base) = m
      BY <2>3, <2>4, <2>5, <2>6
    <2> QED
      BY <1>1, <2>1, <2>7
  <1>2. ASSUME NEW m \in Nat, m >= base, \A k \in 0..(m - 1) : Right(k) PROVE Right(m)
    <2>1. PICK q \in 1..(m - 1), r \in 0..(base - 1) :
           /\ m = q * base + r
           /\ Digits(m, base) = Append(Digits(q, base), r)
           /\ Digits(q, base) \in Seq(Nat)
      BY <1>2, DigitsCut
    <2>2. Right(q)
      BY <1>2
    <2> DEFINE d == Digits(q, base)
    <2>3. Value(Append(d, r), base) = Value(d, base) * base + r
      BY <2>1, ValueOfAppend
    <2>4. d \in Seq(0..(base - 1)) /\ Len(d) >= 1 /\ d[1] > 0 /\ Value(d, base) = q
      BY <2>2
    <2>5. Digits(m, base) = Append(d, r)
      BY <2>1
    <2> HIDE DEF d
    <2>6. Value(Digits(m, base), base) = m
      BY <2>1, <2>3, <2>4, <2>5
    <2>7. Append(d, r) \in Seq(0..(base - 1)) /\ Len(Append(d, r)) >= 1 /\ Append(d, r)[1] = d[1]
      BY <2>4
    <2> QED
      BY <2>4, <2>5, <2>6, <2>7
  <1> HIDE DEF Right
  <1>3. 0 \in U
    BY <1>1
  <1>4. ASSUME NEW k \in Nat, k \in U PROVE k + 1 \in U
    <2>1. Right(k + 1)
      <3>1. CASE k + 1 < base
        BY <1>1, <3>1
      <3>2. CASE k + 1 >= base
        BY <1>2, <1>4, <3>2
      <3> QED
        BY <3>1, <3>2
    <2> QED
      BY <1>4, <2>1
  <1>5. n \in U
    <2> HIDE DEF U
    <2> QED
      BY <1>3, <1>4, Induction
  <1> QED
    BY <1>5 DEF Right

-----------------------------------------------------------------------------
(* Elements: tag, length and content, wherever they stand.                 *)

\* What the octets of a number are.
LEMMA BytesAre ==
  ASSUME NEW n \in Nat
  PROVE  /\ Bytes(n) \in Seq(Nat) /\ Len(Bytes(n)) >= 1
         /\ Number(Bytes(n)) = n
         /\ n > 0 => Bytes(n)[1] > 0
         /\ n < 256 => Bytes(n) = <<n>>
         /\ n >= 256 => \E q \in 1..(n - 1), r \in Nat :
              /\ n = q * 256 + r /\ r < 256
              /\ Bytes(n) = Append(Bytes(q), r)
              /\ Bytes(q) \in Seq(Nat)
  <1>1. PICK base \in Nat : base = 256 /\ base >= 2
    OBVIOUS
  <1>2. base \in Nat /\ base >= 2
    BY <1>1
  <1>3. \A m : Bytes(m) = Digits(m, base)
    BY <1>1, Zenon DEF Bytes
  <1>4. \A m : Number(m) = Value(m, base)
    BY <1>1, Zenon DEF Number
  <1>5. /\ Digits(n, base) \in Seq(Nat) /\ Len(Digits(n, base)) >= 1
        /\ Value(Digits(n, base), base) = n
        /\ n > 0 => Digits(n, base)[1] > 0
    <2>1. Digits(n, base) \in Seq(Nat)
      BY <1>2, DigitsUnfold
    <2> QED
      BY <1>2, <2>1, DigitsAre
  <1>6. n < base => Digits(n, base) = <<n>>
    BY <1>2, DigitsUnfold
  <1>7. n >= base => \E q \in 1..(n - 1), r \in Nat :
              /\ n = q * base + r /\ r < base
              /\ Digits(n, base) = Append(Digits(q, base), r)
              /\ Digits(q, base) \in Seq(Nat)
    <2> SUFFICES ASSUME n >= base
                 PROVE  \E q \in 1..(n - 1), r \in Nat :
                          /\ n = q * base + r /\ r < base
                          /\ Digits(n, base) = Append(Digits(q, base), r)
                          /\ Digits(q, base) \in Seq(Nat)
      OBVIOUS
    <2>1. PICK q \in 1..(n - 1), r \in 0..(base - 1) :
           /\ n = q * base + r
           /\ Digits(n, base) = Append(Digits(q, base), r)
           /\ Digits(q, base) \in Seq(Nat)
      BY <1>2, DigitsCut
    <2>2. r \in Nat /\ r < base
      BY <1>2
    <2> QED
      BY <2>1, <2>2
  <1>8. /\ Bytes(n) \in Seq(Nat) /\ Len(Bytes(n)) >= 1
        /\ Number(Bytes(n)) = n
        /\ n > 0 => Bytes(n)[1] > 0
    BY <1>3, <1>4, <1>5, Zenon
  <1>9. n < 256 => Bytes(n) = <<n>>
    BY <1>1, <1>3, <1>6, Zenon
  <1>10. n >= 256 => \E q \in 1..(n - 1), r \in Nat :
              /\ n = q * 256 + r /\ r < 256
              /\ Bytes(n) = Append(Bytes(q), r)
              /\ Bytes(q) \in Seq(Nat)
    BY <1>1, <1>3, <1>7, ZenonT(40)
  <1> QED
    BY <1>8, <1>9, <1>10, Zenon

\* One octet for each power of 256 reached.
LEMMA BytesCount ==
  ASSUME NEW n \in Nat
  PROVE  /\ n < 256 * 256 => Len(Bytes(n)) <= 2
         /\ n < 256 * 256 * 256 => Len(Bytes(n)) <= 3
  <1>1. ASSUME NEW m \in Nat, m < 256 PROVE Len(Bytes(m)) = 1
    <2>1. Bytes(m) = <<m>>
      BY <1>1, BytesAre
    <2> QED
      BY <2>1
  <1>2. ASSUME NEW m \in Nat, m >= 256
        PROVE  \E q \in 1..m : /\ Len(Bytes(m)) = Len(Bytes(q)) + 1 
                               /\ Len(Bytes(q)) \in Nat /\ q * 256 <= m
    <2>1. PICK q \in 1..(m - 1), r \in Nat :
           /\ m = q * 256 + r /\ r < 256
           /\ Bytes(m) = Append(Bytes(q), r)
           /\ Bytes(q) \in Seq(Nat)
      BY <1>2, BytesAre
    <2>2. Len(Bytes(m)) = Len(Bytes(q)) + 1 /\ Len(Bytes(q)) \in Nat
      BY <2>1
    <2>3. q \in 1..m /\ q * 256 <= m
      BY <1>2, <2>1
    <2> QED
      BY <2>2, <2>3
  <1>3. ASSUME NEW m \in Nat, m < 256 * 256 PROVE Len(Bytes(m)) <= 2
    <2>1. CASE m < 256
      <3>1. Len(Bytes(m)) = 1
        BY <1>1, <2>1
      <3> QED
        BY <3>1
    <2>2. CASE m >= 256
      <3>1. PICK q \in 1..m : /\ Len(Bytes(m)) = Len(Bytes(q)) + 1 
                              /\ Len(Bytes(q)) \in Nat /\ q * 256 <= m
        BY <1>2, <2>2
      <3>2. Len(Bytes(q)) = 1
        BY <1>1, <1>3, <3>1
      <3> QED
        BY <3>1, <3>2
    <2> QED
      BY <2>1, <2>2
  <1>4. ASSUME NEW m \in Nat, m < 256 * 256 * 256 PROVE Len(Bytes(m)) <= 3
    <2>1. CASE m < 256
      <3>1. Len(Bytes(m)) = 1
        BY <1>1, <2>1
      <3> QED
        BY <3>1
    <2>2. CASE m >= 256
      <3>1. PICK q \in 1..m : /\ Len(Bytes(m)) = Len(Bytes(q)) + 1 
                              /\ Len(Bytes(q)) \in Nat /\ q * 256 <= m
        BY <1>2, <2>2
      <3>2. Len(Bytes(q)) <= 2
        BY <1>3, <1>4, <3>1
      <3> QED
        BY <3>1, <3>2
    <2> QED
      BY <2>1, <2>2
  <1> QED
    BY <1>3, <1>4

\* A part of a sequence.
LEMMA PartIs ==
  ASSUME NEW S, NEW g \in Seq(S), NEW a \in Nat, NEW c \in Seq(S), a + Len(c) <= Len(g),
         \A i \in 1..Len(c) : g[a + i] = c[i]
  PROVE  SubSeq(g, a + 1, a + Len(c)) = c
  <1> DEFINE s == SubSeq(g, a + 1, a + Len(c))
             N == Len(c)
  <1>1. N \in Nat
    OBVIOUS
  <1>2. s \in Seq(S) /\ Len(s) = N /\ \A i \in 1..N : s[i] = g[a + i]
    BY <1>1
  <1>3. \A i \in 1..N : s[i] = c[i]
    BY <1>2
  <1> HIDE DEF s
  <1>4. s = c
    BY <1>2, <1>3, SeqEqual
  <1> QED
    BY <1>4 DEF s

\* An element of the buffer g at offset p + 1: tag, first octet of the length,
\* its other octets k, and the content c, which ends at e.
Element(g, p, tag, l, k, c, e) ==
  /\ p + 2 <= Len(g) /\ g[p + 1] = tag /\ g[p + 2] = l
  /\ SubSeq(g, p + 2 + 1, p + 2 + Len(k)) = k
  /\ SubSeq(g, p + 2 + Len(k) + 1, p + 2 + Len(k) + Len(c)) = c
  /\ e = p + 2 + Len(k) + Len(c) /\ e <= Len(g)

\* A concatenation of these five parts has its element there.
LEMMA ElementLayout ==
  ASSUME NEW S, NEW pre \in Seq(S), NEW tag \in S, NEW l \in S, NEW k \in Seq(S),
         NEW c \in Seq(S), NEW post \in Seq(S)
  PROVE  Element(pre \o <<tag, l>> \o k \o c \o post, Len(pre), tag, l, k, c,
                 Len(pre \o <<tag, l>> \o k \o c))
  <1> DEFINE g == pre \o <<tag, l>> \o k \o c \o post
             p == Len(pre)
             e == Len(pre \o <<tag, l>> \o k \o c)
  <1>1. /\ g \in Seq(S) /\ Len(g) = p + 2 + Len(k) + Len(c) + Len(post)
        /\ g[p + 1] = tag /\ g[p + 2] = l
        /\ e = p + 2 + Len(k) + Len(c)
    OBVIOUS
  <1>2. /\ \A i \in 1..Len(k) : g[p + 2 + i] = k[i]
        /\ \A i \in 1..Len(c) : g[p + 2 + Len(k) + i] = c[i]
    OBVIOUS
  <1>3. p \in Nat /\ Len(post) \in Nat
    OBVIOUS
  <1> HIDE DEF g, p, e
  <1>4. SubSeq(g, p + 2 + 1, p + 2 + Len(k)) = k
    <2> DEFINE a == p + 2
    <2>1. a \in Nat /\ a + Len(k) <= Len(g) /\ \A i \in 1..Len(k) : g[a + i] = k[i]
      BY <1>1, <1>2, <1>3
    <2> HIDE DEF a
    <2>2. SubSeq(g, a + 1, a + Len(k)) = k
      BY <1>1, <2>1, PartIs
    <2> QED
      BY <2>2 DEF a
  <1>5. SubSeq(g, p + 2 + Len(k) + 1, p + 2 + Len(k) + Len(c)) = c
    <2> DEFINE a == p + 2 + Len(k)
    <2>1. a \in Nat /\ a + Len(c) <= Len(g) /\ \A i \in 1..Len(c) : g[a + i] = c[i]
      BY <1>1, <1>2, <1>3
    <2> HIDE DEF a
    <2>2. SubSeq(g, a + 1, a + Len(c)) = c
      BY <1>1, <2>1, PartIs
    <2> QED
      BY <2>2 DEF a
  <1>6. p + 2 <= Len(g) /\ e <= Len(g)
    <2>1. Len(k) \in Nat /\ Len(c) \in Nat
      OBVIOUS
    <2> QED
      BY <1>1, <1>3, <2>1
  <1>7. Element(g, p, tag, l, k, c, e)
    BY <1>1, <1>4, <1>5, <1>6, SMT DEF Element
  <1> QED
    BY <1>7 DEF g, p, e

\* The octets l and k of the length n: n itself when below 128, or how many
\* octets follow.
LengthIs(n, l, k) ==
  /\ l \in Nat /\ k \in Seq(Nat) /\ DerLen(n) = <<l>> \o k
  /\ \/ l = n /\ l < 128 /\ Len(k) = 0
     \/ l = 128 + Len(k) /\ Len(k) >= 1 /\ Len(k) <= 3 /\ Number(k) = n

\* Every length of up to three octets is written as such.
LEMMA LengthOctets ==
  ASSUME NEW n \in Nat, Len(Bytes(n)) <= 3
  PROVE  \E l, k : LengthIs(n, l, k)
  <1>1. CASE n < 128
    <2>1. DerLen(n) = <<n>>
      BY <1>1 DEF DerLen
    <2>2. <<n>> \o << >> = <<n>> /\ << >> \in Seq(Nat) /\ Len(<< >>) = 0
      OBVIOUS
    <2>3. LengthIs(n, n, << >>)
      BY <1>1, <2>1, <2>2 DEF LengthIs
    <2> QED
      BY <2>3
  <1>2. CASE n >= 128
    <2> DEFINE k == Bytes(n)
    <2>1. k \in Seq(Nat) /\ Len(k) >= 1 /\ Len(k) <= 3 /\ Number(k) = n
      <3>1. k \in Seq(Nat) /\ Len(k) >= 1 /\ Number(k) = n
        BY BytesAre
      <3>2. Len(k) <= 3
        OBVIOUS
      <3> QED
        BY <3>1, <3>2
    <2>2. DerLen(n) = <<128 + Len(k)>> \o k
      BY <1>2 DEF DerLen
    <2> HIDE DEF k
    <2>3. 128 + Len(k) \in Nat
      BY <2>1
    <2>4. LengthIs(n, 128 + Len(k), k)
      BY <2>1, <2>2, <2>3 DEF LengthIs
    <2> QED
      BY <2>4
  <1> QED
    <2>1. n < 128 \/ n >= 128
      OBVIOUS
    <2> QED
      BY <1>1, <1>2, <2>1, Zenon

\* What ReadElement makes out at off, when nothing is wrong.
Reads(g, off, l, n, len, from) ==
  /\ l = g[off + 1] /\ n = (IF l >= 128 THEN l - 128 ELSE 0)
  /\ len = IF l < 128 THEN l ELSE Number(SubSeq(g, off + 2, off + 1 + n))
  /\ from = off + 2 + n
  /\ ~(off + 1 > Len(g)) /\ ~(l = 128) /\ ~(n > 4)
  /\ ~(from - 1 > Len(g)) /\ ~(from - 1 + len > Len(g))

\* Then it returns the element.
LEMMA ReadsAt ==
  ASSUME NEW g, NEW off, NEW l, NEW n, NEW len, NEW from, Reads(g, off, l, n, len, from)
  PROVE  ReadElement(g, off)
           = [ok |-> TRUE, tag |-> g[off], content |-> SubSeq(g, from, from - 1 + len),
              next |-> from + len]
  BY DEF ReadElement, Reads

\* Concatenation is associative.
LEMMA ConcatNat ==
  \A s, t, u \in Seq(Nat) : (s \o t) \o u = s \o (t \o u)
  BY ConcatAssociative, SMTT(40)

\* An element, grouped as it is written ...
Written(t, tag, l, k, c) == t = <<tag>> \o (<<l>> \o k) \o c

\* ... and in a row.
InRow(r, pre, tag, l, k, c) == r = pre \o <<tag, l>> \o k \o c

\* The two groupings are one sequence.
LEMMA TLLayout ==
  ASSUME NEW pre \in Seq(Nat), NEW tag \in Nat, NEW l \in Nat, NEW k \in Seq(Nat),
         NEW c \in Seq(Nat), NEW t, Written(t, tag, l, k, c)
  PROVE  InRow(pre \o t, pre, tag, l, k, c)
  <1> DEFINE h == <<tag, l>>
  <1>1. h \in Seq(Nat) /\ <<tag>> \in Seq(Nat) /\ <<l>> \in Seq(Nat)
    OBVIOUS
  <1>2. <<tag>> \o <<l>> = h
    <2> DEFINE j == <<tag>> \o <<l>>
    <2>1. j \in Seq(Nat) /\ Len(j) = 2 /\ j[1] = tag /\ j[2] = l
      OBVIOUS
    <2>2. h \in Seq(Nat) /\ Len(h) = 2 /\ h[1] = tag /\ h[2] = l
      OBVIOUS
    <2> HIDE DEF j, h
    <2>3. \A i \in 1..2 : j[i] = h[i]
      BY <2>1, <2>2
    <2>4. j = h
      BY <2>1, <2>2, <2>3, SeqEqual
    <2> QED
      BY <2>4 DEF j
  <1>3. (<<tag>> \o <<l>>) \o k = <<tag>> \o (<<l>> \o k)
    BY <1>1, ConcatAssociative
  <1>4. h \o k \in Seq(Nat)
    <2> HIDE DEF h
    <2> QED
      BY <1>1
  <1>5. (pre \o (h \o k)) \o c = pre \o ((h \o k) \o c)
    <2> DEFINE w == h \o k
    <2>1. w \in Seq(Nat)
      BY <1>4
    <2> HIDE DEF w
    <2>2. (pre \o w) \o c = pre \o (w \o c)
      BY <2>1, ConcatNat, ZenonT(40)
    <2> QED
      BY <2>2 DEF w
  <1>6. (pre \o h) \o k = pre \o (h \o k)
    BY <1>1, ConcatAssociative, SMTT(40)
  <1>7. pre \o (<<tag>> \o (<<l>> \o k) \o c) = pre \o h \o k \o c
    <2> HIDE DEF h
    <2> QED
      BY <1>2, <1>3, <1>5, <1>6, Zenon
  <1> QED
    BY <1>7 DEF h, Written, InRow

\* What was written is read, wherever it stands among other octets.
LEMMA ElementReads ==
  ASSUME NEW pre \in Seq(Nat), NEW tag \in Nat, NEW c \in Seq(Nat),
         NEW post \in Seq(Nat), Len(Bytes(Len(c))) <= 3
  PROVE  ReadElement(pre \o TL(tag, c) \o post, Len(pre) + 1)
           = [ok |-> TRUE, tag |-> tag, content |-> c,
              next |-> Len(pre \o TL(tag, c)) + 1]
  <1>1. PICK l, k : LengthIs(Len(c), l, k)
    <2>1. Len(c) \in Nat
      OBVIOUS
    <2> QED
      BY <2>1, LengthOctets
  <1> DEFINE f == pre \o <<tag, l>> \o k \o c
             g == f \o post
             p == Len(pre)
             e == Len(f)
             off == p + 1
             n == IF l >= 128 THEN l - 128 ELSE 0
             len == IF l < 128 THEN l ELSE Number(SubSeq(g, off + 2, off + 1 + n))
             from == off + 2 + n
  <1>2. l \in Nat /\ k \in Seq(Nat)
    BY <1>1 DEF LengthIs
  <1>3. pre \o TL(tag, c) = f
    <2>1. Written(TL(tag, c), tag, l, k, c)
      BY <1>1, Zenon DEF TL, LengthIs, Written
    <2>2. l \in Nat
      BY <1>2
    <2>3. InRow(pre \o TL(tag, c), pre, tag, l, k, c)
      BY <1>2, <2>1, TLLayout
    <2> QED
      BY <2>3, Zenon DEF InRow
  <1>4. Element(g, p, tag, l, k, c, e)
    BY <1>2, ElementLayout
  <1>5. p \in Nat /\ Len(k) \in Nat /\ Len(c) \in Nat
    BY <1>2
  <1> HIDE DEF g, f, p, e
  <1>6. n = Len(k) /\ ~(l = 128) /\ ~(n > 4)
    <2> DEFINE z == Len(k)
    <2>1. z \in Nat
      BY <1>5
    <2>2. \/ l < 128 /\ z = 0
          \/ l = 128 + z /\ z >= 1 /\ z <= 3
      BY <1>1 DEF LengthIs
    <2> HIDE DEF z
    <2>3. n = z /\ ~(l = 128) /\ ~(n > 4)
      BY <1>2, <2>1, <2>2
    <2> QED
      BY <2>3 DEF z
  <1> HIDE DEF n
  <1>7. SubSeq(g, off + 2, off + 1 + n) = k
    <2>1. off + 2 = p + 2 + 1 /\ off + 1 + n = p + 2 + Len(k)
      BY <1>5, <1>6
    <2> QED
      BY <1>4, <2>1 DEF Element
  <1>8. len = Len(c)
    <2>1. CASE l = Len(c) /\ l < 128
      BY <2>1
    <2>2. CASE l = 128 + Len(k) /\ Number(k) = Len(c)
      <3>1. ~(l < 128)
        BY <1>5, <2>2
      <3> QED
        BY <1>7, <2>2, <3>1
    <2> QED
      BY <1>1, <2>1, <2>2 DEF LengthIs
  <1> HIDE DEF len
  <1>9. /\ l = g[off + 1] /\ tag = g[off] /\ ~(off + 1 > Len(g))
        /\ from = p + 2 + Len(k) + 1 /\ from - 1 + len = p + 2 + Len(k) + Len(c)
        /\ ~(from - 1 > Len(g)) /\ ~(from - 1 + len > Len(g)) /\ from + len = e + 1
    <2>1. off + 1 = p + 2 /\ off = p + 1
      BY <1>5
    <2>2. /\ p + 2 <= Len(g) /\ g[p + 1] = tag /\ g[p + 2] = l
          /\ e = p + 2 + Len(k) + Len(c) /\ e <= Len(g)
      BY <1>4 DEF Element
    <2>3. Len(g) \in Nat
      BY <1>2 DEF g, f
    <2>4. l = g[off + 1] /\ tag = g[off] /\ ~(off + 1 > Len(g))
      BY <1>5, <2>1, <2>2, <2>3
    <2> DEFINE z == Len(k)
               y == Len(c)
    <2>5. n = z /\ len = y /\ z \in Nat /\ y \in Nat /\ p \in Nat /\ e = p + 2 + z + y
      BY <1>5, <1>6, <1>8, <2>2
    <2> HIDE DEF z, y
    <2>6. from = p + 2 + z + 1 /\ from - 1 + len = p + 2 + z + y /\ from + len = e + 1
          /\ from - 1 <= e
      BY <2>5
    <2>7. ~(from - 1 > Len(g)) /\ ~(from - 1 + len > Len(g))
      BY <2>2, <2>3, <2>5, <2>6
    <2> QED
      BY <2>4, <2>6, <2>7 DEF z, y
  <1>10. SubSeq(g, from, from - 1 + len) = c
    BY <1>4, <1>9 DEF Element
  <1>11. ReadElement(g, off)
            = [ok |-> TRUE, tag |-> g[off], content |-> SubSeq(g, from, from - 1 + len),
               next |-> from + len]
    <2>1. n = (IF l >= 128 THEN l - 128 ELSE 0)
      BY DEF n
    <2>2. len = (IF l < 128 THEN l ELSE Number(SubSeq(g, off + 2, off + 1 + n)))
      BY DEF len
    <2>3. from = off + 2 + n
      OBVIOUS
    <2> HIDE DEF from, off
    <2>4. Reads(g, off, l, n, len, from)
      BY <1>6, <1>9, <2>1, <2>2, <2>3 DEF Reads
    <2> QED
      BY <2>4, ReadsAt
  <1>12. ReadElement(g, off) = [ok |-> TRUE, tag |-> tag, content |-> c, next |-> e + 1]
    BY <1>9, <1>10, <1>11
  <1> QED
    BY <1>3, <1>12 DEF g, p, e

-----------------------------------------------------------------------------
(* Integers.                                                               *)

\* A zero in front of the digits changes nothing.
LEMMA ValueAfterZero ==
  ASSUME NEW base \in Nat, NEW s \in Seq(Nat)
  PROVE  Value(<<0>> \o s, base) = Value(s, base)
  <1> DEFINE t == <<0>> \o s
             N == Len(s)
  <1>1. N \in Nat /\ t \in Seq(Nat) /\ Len(t) = N + 1 /\ t[1] = 0
        /\ \A n \in 1..N : t[n + 1] = s[n]
    OBVIOUS
  <1> HIDE DEF t
  <1>2. PICK v \in [0..N -> Nat] : /\ v[0] = 0
                                   /\ \A n \in 1..N : v[n] = v[n - 1] * base + s[n]
                                   /\ Value(s, base) = v[N]
    BY ValueLoop
  <1>3. PICK w \in [0..Len(t) -> Nat] : /\ w[0] = 0
                                   /\ \A n \in 1..Len(t) : w[n] = w[n - 1] * base + t[n]
                                   /\ Value(t, base) = w[Len(t)]
    BY <1>1, ValueLoop
  <1>9. Value(t, base) = w[Len(t)] /\ Len(t) = N + 1
    BY <1>1, <1>3
  <1> HIDE DEF N
  <1> DEFINE U == {n \in Nat : n <= N => w[n + 1] = v[n]}
  <1>4. 0 \in U
    <2>1. w[1] = w[1 - 1] * base + t[1] /\ 1 - 1 = 0
      BY <1>1, <1>3
    <2>2. 0 * base = 0
      OBVIOUS
    <2> QED
      BY <1>1, <1>2, <1>3, <2>1, <2>2
  <1>5. ASSUME NEW n \in Nat, n \in U PROVE n + 1 \in U
    <2> SUFFICES ASSUME n + 1 <= N PROVE w[n + 2] = v[n + 1]
      OBVIOUS
    <2>1. w[n + 1] = v[n] /\ n + 1 \in 1..N /\ n + 2 \in 1..Len(t)
      BY <1>1, <1>5
    <2>2. w[n + 2] = w[(n + 2) - 1] * base + t[n + 2] /\ v[n + 1] = v[(n + 1) - 1] * base + s[n + 1]
      BY <1>2, <1>3, <2>1
    <2>3. (n + 1) - 1 = n /\ (n + 2) - 1 = n + 1 /\ t[n + 2] = s[n + 1]
      BY <1>1, <2>1
    <2> QED
      BY <2>1, <2>2, <2>3
  <1> HIDE DEF U
  <1>6. N \in U
    BY <1>1, <1>4, <1>5, Induction
  <1>7. w[N + 1] = v[N]
    BY <1>1, <1>6 DEF U
  <1>8. Value(t, base) = Value(s, base)
    <2>1. w[Len(t)] = v[N]
      BY <1>7, <1>9
    <2>2. Value(s, base) = v[N]
      BY <1>2
    <2> QED
      BY <1>9, <2>1, <2>2
  <1> QED
    BY <1>8 DEF t

\* So it is for the octets of a number.
LEMMA NumberAfterZero ==
  ASSUME NEW s \in Seq(Nat)
  PROVE  Number(<<0>> \o s) = Number(s)
  <1>1. PICK base \in Nat : base = 256
    OBVIOUS
  <1>2. \A x : Number(x) = Value(x, base)
    BY <1>1, Zenon DEF Number
  <1>3. Value(<<0>> \o s, base) = Value(s, base)
    BY ValueAfterZero
  <1> QED
    BY <1>2, <1>3, Zenon

\* Octets are a natural number.
LEMMA NumberIsNat ==
  ASSUME NEW s \in Seq(Nat)
  PROVE  Number(s) \in Nat
  <1>1. PICK base \in Nat : base = 256
    OBVIOUS
  <1>2. \A x : Number(x) = Value(x, base)
    BY <1>1, Zenon DEF Number
  <1>3. Value(s, base) \in Nat
    BY ValueOfAppend
  <1> QED
    BY <1>2, <1>3, Zenon

\* The content of an INTEGER: octets of a number, or a zero before them.
LEMMA DerIntIs ==
  ASSUME NEW n \in Nat
  PROVE  /\ Bytes(n)[1] < 128 => DerInt(n) = Bytes(n)
         /\ Bytes(n)[1] >= 128 => DerInt(n) = <<0>> \o Bytes(n)
  <1> DEFINE d == Bytes(n)
  <1>1. d \in Seq(Nat) /\ Len(d) >= 1
    BY BytesAre
  <1>2. DerInt(n) = IF Head(d) >= 128 THEN <<0>> \o d ELSE d
    BY DEF DerInt
  <1> HIDE DEF d
  <1>3. Head(d) = d[1] /\ d[1] \in Nat
    BY <1>1
  <1>4. (d[1] < 128 => DerInt(n) = d) /\ (d[1] >= 128 => DerInt(n) = <<0>> \o d)
    BY <1>2, <1>3
  <1> QED
    BY <1>4 DEF d

\* An INTEGER is read back; its top bit is never set, and without its leading
\* zero it is the octets of the number.
LEMMA DerIntReads ==
  ASSUME NEW n \in Nat
  PROVE  /\ DerInt(n) \in Seq(Nat) /\ Len(DerInt(n)) <= Len(Bytes(n)) + 1
         /\ DerIntValue(DerInt(n)) = n
         /\ Head(DerInt(n)) < 128
         /\ StripLeadZero(DerInt(n)) = Bytes(n)
  <1> DEFINE d == Bytes(n)
             c == DerInt(n)
  <1>1. d \in Seq(Nat) /\ Len(d) >= 1 /\ Number(d) = n /\ (n > 0 => d[1] > 0)
        /\ (n = 0 => d = <<n>>)
    BY BytesAre
  <1>2. d[1] < 128 => c = d
    BY DerIntIs
  <1>3. d[1] >= 128 => c = <<0>> \o d
    BY DerIntIs
  <1>4. d[1] \in Nat
    BY <1>1
  <1> HIDE DEF d, c
  <1>5. CASE d[1] < 128
    <2>1. c \in Seq(Nat) /\ Len(c) <= Len(d) + 1 /\ Head(c) < 128 /\ Number(c) = n
      BY <1>1, <1>2, <1>5
    <2>2. StripLeadZero(d) = d
      <3>1. CASE n = 0
        <4>1. d = <<0>>
          BY <1>1, <3>1
        <4>2. Len(d) = 1
          BY <4>1
        <4>3. {i \in 0..(Len(d) - 1) : \A j \in 1..i : d[j] = 0} = {0}
          BY <4>2
        <4>4. (CHOOSE i \in {0} : \A j \in {0} : j <= i) = 0
          OBVIOUS
        <4> QED
          BY <1>1, <4>2, <4>3, <4>4, SubSeqFull DEF StripLeadZero
      <3>2. CASE n > 0
        <4>1. {i \in 0..(Len(d) - 1) : \A j \in 1..i : d[j] = 0} = {0}
          <5>1. ASSUME NEW i \in 0..(Len(d) - 1), \A j \in 1..i : d[j] = 0
                PROVE  i = 0
            <6>1. i >= 1 => 1 \in 1..i
              BY <1>1
            <6> QED
              BY <1>1, <3>2, <5>1, <6>1
          <5>2. 0 \in 0..(Len(d) - 1) /\ \A j \in 1..0 : d[j] = 0
            BY <1>1
          <5> QED
            BY <5>1, <5>2
        <4>2. (CHOOSE i \in {0} : \A j \in {0} : j <= i) = 0
          OBVIOUS
        <4>3. StripLeadZero(d) = SubSeq(d, 1 + 0, Len(d))
          BY <4>1, <4>2, Zenon DEF StripLeadZero
        <4>4. SubSeq(d, 1, Len(d)) = d
          BY <1>1, SubSeqFull
        <4> QED
          BY <4>3, <4>4
      <3> QED
        BY <3>1, <3>2
    <2> QED
      BY <1>2, <1>5, <2>1, <2>2 DEF d, c, DerIntValue
  <1>6. CASE d[1] >= 128
    <2>1. c = <<0>> \o d
      BY <1>3, <1>6
    <2>2. /\ c \in Seq(Nat) /\ Len(c) = Len(d) + 1 /\ c[1] = 0
          /\ \A i \in 1..Len(d) : c[1 + i] = d[i]
      BY <1>1, <2>1
    <2>3. Number(c) = n
      BY <1>1, <2>1, NumberAfterZero
    <2>4. Head(c) = 0
      BY <2>2
    <2>5. SubSeq(c, 1 + 1, 1 + Len(d)) = d
      <3>1. 1 \in Nat /\ 1 + Len(d) <= Len(c)
        BY <1>1, <2>2
      <3> QED
        BY <1>1, <2>2, <3>1, PartIs
    <2>6. StripLeadZero(c) = d
      <3> DEFINE lead == {i \in 0..(Len(c) - 1) : \A j \in 1..i : c[j] = 0}
      <3>1. lead = {0, 1}
        <4>1. ASSUME NEW i \in lead
              PROVE  i \in {0, 1}
          <5>1. c[2] = d[1] /\ d[1] # 0
            BY <1>1, <1>4, <1>6, <2>2
          <5>2. i >= 2 => 2 \in 1..i
            OBVIOUS
          <5> QED
            BY <5>1, <5>2
        <4>2. 0 \in lead /\ 1 \in lead
          BY <1>1, <2>2
        <4> QED
          BY <4>1, <4>2
      <3>2. (CHOOSE i \in {0, 1} : \A j \in {0, 1} : j <= i) = 1
        OBVIOUS
      <3>3. StripLeadZero(c) = SubSeq(c, 1 + 1, Len(c))
        BY <3>1, <3>2 DEF StripLeadZero
      <3> QED
        BY <1>1, <2>2, <2>5, <3>3
    <2> QED
      BY <1>6, <2>2, <2>3, <2>4, <2>6 DEF d, c, DerIntValue
  <1> QED
    BY <1>4, <1>5, <1>6

-----------------------------------------------------------------------------
(* The children of a constructed element.                                  *)

\* A good element ends after it begins, and within the buffer.
LEMMA ReadsForward ==
  ASSUME NEW g \in Seq(Nat), NEW off \in 1..Len(g), ReadElement(g, off).ok
  PROVE  ReadElement(g, off).next \in (off + 2)..(Len(g) + 1)
  <1> DEFINE l == g[off + 1]
             n == IF l >= 128 THEN l - 128 ELSE 0
             len == IF l < 128 THEN l ELSE Number(SubSeq(g, off + 2, off + 1 + n))
             from == off + 2 + n
             wrong == \/ l = 128 \/ n > 4 \/ from - 1 > Len(g)
                      \/ from - 1 + len > Len(g)
             e == ReadElement(g, off)
             good == [ok |-> TRUE, tag |-> g[off], content |-> SubSeq(g, from, from - 1 + len),
                      next |-> from + len]
  <1>1. e = (IF off + 1 > Len(g) THEN Failed ELSE IF wrong THEN Failed ELSE good)
    BY DEF ReadElement
  <1>2. ~Failed.ok /\ e.ok
    BY DEF Failed
  <1>3. good.next = from + len
    OBVIOUS
  <1>4. off \in Nat /\ Len(g) \in Nat
    OBVIOUS
  <1> HIDE DEF good, wrong, e
  <1>5. ~(off + 1 > Len(g)) /\ ~wrong /\ e = good
    BY <1>1, <1>2
  <1>6. l \in Nat
    BY <1>4, <1>5
  <1> HIDE DEF l
  <1>7. n \in Nat
    BY <1>6
  <1> HIDE DEF n
  <1>8. from \in Nat /\ from >= off + 2
    BY <1>4, <1>7
  <1> HIDE DEF from
  <1>9. len \in Nat
    <2>1. CASE l < 128
      BY <1>6, <2>1
    <2>2. CASE ~(l < 128)
      <3> DEFINE k == SubSeq(g, off + 2, off + 1 + n)
      <3>1. off + 1 + n <= Len(g)
        BY <1>4, <1>5, <1>7 DEF wrong, from
      <3>2. k \in Seq(Nat)
        BY <1>4, <1>7, <3>1
      <3> HIDE DEF k
      <3>3. Number(k) \in Nat
        BY <3>2, NumberIsNat
      <3> QED
        BY <2>2, <3>3 DEF k
    <2> QED
      BY <2>1, <2>2
  <1> HIDE DEF len
  <1>10. from - 1 + len <= Len(g)
    BY <1>4, <1>5, <1>8, <1>9 DEF wrong
  <1> QED
    BY <1>3, <1>4, <1>5, <1>8, <1>9, <1>10 DEF e

\* What DerChildren makes of the rest of the content from each offset on.
ReadsOn(f, g) ==
  \A off \in 1..(Len(g) + 1) :
    f[off] = IF off > Len(g) THEN [ok |-> TRUE, els |-> << >>]
             ELSE IF ~ReadElement(g, off).ok THEN [ok |-> FALSE, els |-> << >>]
             ELSE [ok |-> f[ReadElement(g, off).next].ok,
                   els |-> <<ReadElement(g, off)>> \o f[ReadElement(g, off).next].els]

\* DerChildren is such a walk, from the first offset.
LEMMA ChildrenUnfold ==
  ASSUME NEW g \in Seq(Nat)
  PROVE  \E E, f : /\ f \in [1..(Len(g) + 1) -> [ok : BOOLEAN, els : Seq(E)]]
                   /\ ReadsOn(f, g) /\ DerChildren(g) = f[1]
  <1> DEFINE N == Len(g)
             D == 1..(N + 1)
             el == [off \in 1..N |-> ReadElement(g, off)]
             E == {el[off] : off \in 1..N}
             V == [ok : BOOLEAN, els : Seq(E)]
             body(f, off) ==
               IF off > N THEN [ok |-> TRUE, els |-> << >>]
               ELSE IF ~el[off].ok THEN [ok |-> FALSE, els |-> << >>]
               ELSE [ok |-> f[el[off].next].ok, els |-> <<el[off]>> \o f[el[off].next].els]
             rank == [off \in D |-> N + 1 - off]
             Phi == [f \in [D -> V] |-> [off \in D |-> body(f, off)]]
             from[off \in 1..(Len(g) + 1)] ==
               IF off > Len(g) THEN [ok |-> TRUE, els |-> << >>]
               ELSE LET e == ReadElement(g, off)
                    IN  IF ~e.ok THEN [ok |-> FALSE, els |-> << >>]
                        ELSE LET rest == from[e.next]
                             IN  [ok |-> rest.ok, els |-> <<e>> \o rest.els]
  <1>1. N \in Nat
    OBVIOUS
  <1>2. \A off \in 1..N : el[off].ok => el[off].next \in (off + 2)..(N + 1)
    BY ReadsForward
  <1>3. \A off \in 1..N : el[off] = ReadElement(g, off) /\ el[off] \in E
    OBVIOUS
  <1>4. DerChildren(g) = from[1]
    BY DEF DerChildren
  <1> HIDE DEF N, el, E
  <1>5. \A f \in [D -> V] : \A off \in D : body(f, off) \in V
    <2> SUFFICES ASSUME NEW f \in [D -> V], NEW off \in D PROVE body(f, off) \in V
      OBVIOUS
    <2>1. CASE off > N
      BY <2>1
    <2>2. CASE ~(off > N) /\ ~el[off].ok
      BY <2>2
    <2>3. CASE ~(off > N) /\ el[off].ok
      <3>1. off \in 1..N
        BY <1>1, <2>3
      <3>2. el[off].next \in D /\ el[off] \in E
        BY <1>1, <1>2, <1>3, <2>3, <3>1
      <3>3. f[el[off].next].ok \in BOOLEAN /\ f[el[off].next].els \in Seq(E)
        BY <3>2
      <3> QED
        BY <2>3, <3>2, <3>3
    <2> QED
      BY <2>1, <2>2, <2>3
  <1>6. \A f, h \in [D -> V] : \A x \in D :
          (\A y \in D : rank[y] < rank[x] => f[y] = h[y]) => body(f, x) = body(h, x)
    <2> SUFFICES ASSUME NEW f \in [D -> V], NEW h \in [D -> V], NEW x \in D,
                        \A y \in D : rank[y] < rank[x] => f[y] = h[y]
                 PROVE  body(f, x) = body(h, x)
      OBVIOUS
    <2>1. CASE x > N
      BY <2>1
    <2>2. CASE ~(x > N) /\ ~el[x].ok
      BY <2>2
    <2>3. CASE ~(x > N) /\ el[x].ok
      <3>1. x \in 1..N
        BY <1>1, <2>3
      <3>2. el[x].next \in D /\ rank[el[x].next] < rank[x]
        <4> DEFINE y == el[x].next
        <4>1. y \in (x + 2)..(N + 1)
          BY <1>2, <2>3, <3>1
        <4> HIDE DEF y
        <4>2. y \in D /\ N + 1 - y < N + 1 - x
          BY <1>1, <3>1, <4>1
        <4>3. rank[y] = N + 1 - y /\ rank[x] = N + 1 - x
          BY <4>2
        <4>4. y \in D /\ rank[y] < rank[x]
          BY <4>2, <4>3
        <4> QED
          BY <4>4 DEF y
      <3>3. f[el[x].next] = h[el[x].next]
        BY <3>2
      <3> QED
        BY <2>3, <3>3
    <2> QED
      BY <2>1, <2>2, <2>3
  <1>7. rank \in [D -> Nat] /\ [n \in D |-> [ok |-> TRUE, els |-> << >>]] \in [D -> V]
    BY <1>1
  <1> HIDE DEF rank, body, D, V
  <1>8. \A f \in [D -> V] : Phi[f] = [off \in D |-> body(f, off)]
    OBVIOUS
  <1>9. Phi \in [[D -> V] -> [D -> V]]
    BY <1>5
  <1>10. \A f \in [D -> V] : \A x \in D : Phi[f][x] = body(f, x)
    BY <1>8
  <1> HIDE DEF Phi
  <1>11. \A f, h \in [D -> V] : \A x \in D :
          (\A y \in D : rank[y] < rank[x] => f[y] = h[y]) => Phi[f][x] = Phi[h][x]
    <2> SUFFICES ASSUME NEW f \in [D -> V], NEW h \in [D -> V], NEW x \in D,
                        \A y \in D : rank[y] < rank[x] => f[y] = h[y]
                 PROVE  Phi[f][x] = Phi[h][x]
      OBVIOUS
    <2>1. body(f, x) = body(h, x)
      BY <1>6
    <2> QED
      BY <1>10, <2>1
  <1>12. IsRecursion(D, V, rank, Phi)
    BY <1>7, <1>9, <1>11 DEF IsRecursion
  <1>13. PICK f \in [D -> V] : f = Phi[f]
    BY <1>12, RecursiveFunctionExists
  <1>14. \A off \in D : f[off] = body(f, off)
    BY <1>10, <1>13
  <1>15. ASSUME NEW h, \A off \in D : h[off] = body(h, off)
         PROVE  ReadsOn(h, g)
    <2> SUFFICES ASSUME NEW off \in 1..(Len(g) + 1)
                 PROVE  h[off] =
                   IF off > Len(g) THEN [ok |-> TRUE, els |-> << >>]
                   ELSE IF ~ReadElement(g, off).ok THEN [ok |-> FALSE, els |-> << >>]
                   ELSE [ok |-> h[ReadElement(g, off).next].ok,
                         els |-> <<ReadElement(g, off)>> \o h[ReadElement(g, off).next].els]
      BY DEF ReadsOn
    <2>1. h[off] = body(h, off) /\ N = Len(g)
      BY <1>15 DEF D, N
    <2>2. CASE off > N
      BY <2>1, <2>2 DEF body
    <2>3. CASE ~(off > N)
      <3>1. off \in 1..N
        BY <1>1, <2>1, <2>3
      <3>2. el[off] = ReadElement(g, off)
        BY <1>3, <3>1
      <3> QED
        BY <2>1, <2>3, <3>2 DEF body
    <2> QED
      BY <2>2, <2>3
  <1>16. f = [off \in 1..(Len(g) + 1) |->
               IF off > Len(g) THEN [ok |-> TRUE, els |-> << >>]
               ELSE LET e == ReadElement(g, off)
                    IN  IF ~e.ok THEN [ok |-> FALSE, els |-> << >>]
                        ELSE LET rest == f[e.next]
                             IN  [ok |-> rest.ok, els |-> <<e>> \o rest.els]]
    <2>1. ReadsOn(f, g)
      BY <1>14, <1>15
    <2>2. f = [off \in 1..(Len(g) + 1) |-> f[off]]
      BY <1>13 DEF D, N
    <2> QED
      BY <2>1, <2>2, Zenon DEF ReadsOn
  <1>17. from = [off \in 1..(Len(g) + 1) |->
               IF off > Len(g) THEN [ok |-> TRUE, els |-> << >>]
               ELSE LET e == ReadElement(g, off)
                    IN  IF ~e.ok THEN [ok |-> FALSE, els |-> << >>]
                        ELSE LET rest == from[e.next]
                             IN  [ok |-> rest.ok, els |-> <<e>> \o rest.els]]
    <2>1. \E h : h = [off \in 1..(Len(g) + 1) |->
               IF off > Len(g) THEN [ok |-> TRUE, els |-> << >>]
               ELSE LET e == ReadElement(g, off)
                    IN  IF ~e.ok THEN [ok |-> FALSE, els |-> << >>]
                        ELSE LET rest == h[e.next]
                             IN  [ok |-> rest.ok, els |-> <<e>> \o rest.els]]
      BY <1>16, Zenon
    <2> QED
      BY <2>1, Zenon DEF from
  <1> HIDE DEF from
  <1>18. ReadsOn(from, g)
    BY <1>17, Zenon DEF ReadsOn
  <1>19. DOMAIN from = D /\ from = [off \in D |-> from[off]]
    BY <1>17, Zenon DEF D, N
  <1>20. \A off \in D : from[off] = body(from, off)
    <2> SUFFICES ASSUME NEW off \in D PROVE from[off] = body(from, off)
      OBVIOUS
    <2>1. from[off] =
            IF off > N THEN [ok |-> TRUE, els |-> << >>]
            ELSE IF ~ReadElement(g, off).ok THEN [ok |-> FALSE, els |-> << >>]
            ELSE [ok |-> from[ReadElement(g, off).next].ok,
                  els |-> <<ReadElement(g, off)>> \o from[ReadElement(g, off).next].els]
      BY <1>18 DEF ReadsOn, D, N
    <2>2. CASE off > N
      BY <2>1, <2>2 DEF body
    <2>3. CASE ~(off > N)
      <3>1. off \in 1..N
        BY <1>1, <2>3 DEF D
      <3>2. el[off] = ReadElement(g, off)
        BY <1>3, <3>1
      <3> QED
        BY <2>1, <2>3, <3>2 DEF body
    <2> QED
      BY <2>2, <2>3
  <1> DEFINE U == {k \in Nat : \A off \in D : N + 1 - off < k => from[off] = f[off]}
  <1>21. 0 \in U
    BY <1>1 DEF D
  <1>22. ASSUME NEW k \in Nat, k \in U PROVE k + 1 \in U
    <2> SUFFICES ASSUME NEW off \in D, N + 1 - off < k + 1 PROVE from[off] = f[off]
      OBVIOUS
    <2>1. from[off] = body(from, off) /\ f[off] = body(f, off)
      BY <1>14, <1>20
    <2>2. CASE off > N \/ ~el[off].ok
      BY <2>1, <2>2, SMTT(40) DEF body
    <2>3. CASE ~(off > N) /\ el[off].ok
      <3> DEFINE y == el[off].next
      <3>1. off \in 1..N
        BY <1>1, <2>3 DEF D
      <3>2. y \in (off + 2)..(N + 1)
        BY <1>2, <2>3, <3>1
      <3> HIDE DEF y
      <3>3. y \in D /\ N + 1 - y < k
        BY <1>1, <3>1, <3>2 DEF D
      <3>4. from[y] = f[y]
        BY <1>22, <3>3
      <3> QED
        BY <2>1, <2>3, <3>4 DEF body, y
    <2> QED
      BY <2>2, <2>3
  <1>23. from = f
    <2> SUFFICES ASSUME NEW off \in D PROVE from[off] = f[off]
      BY <1>13, <1>19, Zenon
    <2> DEFINE k == N + 1 - off + 1
    <2>1. k \in Nat /\ N + 1 - off < k
      BY <1>1 DEF D
    <2>2. k \in U
      <3> HIDE DEF U, k
      <3> QED
        BY <1>21, <1>22, <2>1, Induction
    <2> HIDE DEF k
    <2> QED
      BY <2>1, <2>2
  <1> QED
    BY <1>4, <1>13, <1>18, <1>23, Zenon DEF D, V, N

\* The element of a content of less than 128 octets.
Read(tag, c, next) == [ok |-> TRUE, tag |-> tag, content |-> c, next |-> next]

\* Two octets stand before such a content.
LEMMA ShortElement ==
  ASSUME NEW tag \in Nat, NEW c \in Seq(Nat), Len(c) < 128
  PROVE  /\ TL(tag, c) \in Seq(Nat) /\ Len(TL(tag, c)) = 2 + Len(c)
         /\ TL(tag, c)[1] = tag /\ TL(tag, c)[2] = Len(c)
         /\ Len(Bytes(Len(c))) <= 3
  <1> DEFINE n == Len(c)
  <1>1. n \in Nat /\ n < 128
    OBVIOUS
  <1>2. DerLen(n) = <<n>>
    BY <1>1 DEF DerLen
  <1>3. TL(tag, c) = <<tag>> \o <<n>> \o c
    BY <1>2 DEF TL
  <1>4. Len(Bytes(n)) <= 3
    <2>1. Bytes(n) = <<n>>
      <3> HIDE DEF n
      <3>1. n < 256
        BY <1>1
      <3> QED
        BY <1>1, <3>1, BytesAre
    <2>2. Len(<<n>>) = 1
      OBVIOUS
    <2> HIDE DEF n
    <2> QED
      BY <2>1, <2>2
  <1>5. /\ TL(tag, c) \in Seq(Nat) /\ Len(TL(tag, c)) = 2 + n
        /\ TL(tag, c)[1] = tag /\ TL(tag, c)[2] = n
    BY <1>1, <1>3
  <1> QED
    BY <1>4, <1>5

\* g is an element of less than 128 octets of content between pre and post.
Stands(g, pre, tag, c, post) ==
  /\ pre \in Seq(Nat) /\ tag \in Nat /\ c \in Seq(Nat) /\ Len(c) < 128
  /\ post \in Seq(Nat) /\ g = pre \o TL(tag, c) \o post

\* It is read from there.
LEMMA ShortReads ==
  ASSUME NEW g, NEW pre, NEW tag, NEW c, NEW post, Stands(g, pre, tag, c, post)
  PROVE  ReadElement(g, Len(pre) + 1) = Read(tag, c, Len(pre) + Len(c) + 3)
  <1> DEFINE t == TL(tag, c)
  <1>0. /\ pre \in Seq(Nat) /\ tag \in Nat /\ c \in Seq(Nat) /\ Len(c) < 128
        /\ post \in Seq(Nat) /\ g = pre \o t \o post
    BY DEF Stands
  <1>1. t \in Seq(Nat) /\ Len(t) = 2 + Len(c) /\ Len(Bytes(Len(c))) <= 3
    BY <1>0, ShortElement
  <1>2. ReadElement(pre \o TL(tag, c) \o post, Len(pre) + 1)
          = [ok |-> TRUE, tag |-> tag, content |-> c, next |-> Len(pre \o TL(tag, c)) + 1]
    <2>1. Len(Bytes(Len(c))) <= 3
      BY <1>1
    <2> QED
      BY <1>0, <2>1, ElementReads, ZenonT(40)
  <1>5. ReadElement(g, Len(pre) + 1)
          = [ok |-> TRUE, tag |-> tag, content |-> c, next |-> Len(pre \o t) + 1]
    BY <1>0, <1>2
  <1> HIDE DEF t
  <1>3. Len(pre \o t) = Len(pre) + Len(t)
    BY <1>0, <1>1, ConcatProperties
  <1>4. Len(pre \o t) + 1 = Len(pre) + Len(c) + 3
    <2>1. Len(pre) \in Nat /\ Len(c) \in Nat
      BY <1>0
    <2> QED
      BY <1>1, <1>3, <2>1
  <1> QED
    BY <1>4, <1>5 DEF Read

\* A good element e at off.
GoodAt(g, off, e) ==
  g \in Seq(Nat) /\ off \in 1..Len(g) /\ ReadElement(g, off) = e /\ e.ok

\* What the walk does at the good element e.
Steps(f, off, e) == f[off] = [ok |-> f[e.next].ok, els |-> <<e>> \o f[e.next].els]

\* At a good element the walk goes on past it,
LEMMA ReadsStep ==
  ASSUME NEW g, NEW off, NEW e, GoodAt(g, off, e), NEW f, ReadsOn(f, g)
  PROVE  Steps(f, off, e)
  <1>1. off \in 1..(Len(g) + 1) /\ ~(off > Len(g)) /\ ReadElement(g, off) = e /\ e.ok
    BY DEF GoodAt
  <1> QED
    BY <1>1, Zenon DEF ReadsOn, Steps

\* and at the end it stops.
LEMMA ReadsEnd ==
  ASSUME NEW g \in Seq(Nat), NEW f, ReadsOn(f, g)
  PROVE  f[Len(g) + 1] = [ok |-> TRUE, els |-> << >>]
  <1>1. Len(g) + 1 \in 1..(Len(g) + 1) /\ Len(g) + 1 > Len(g)
    OBVIOUS
  <1> QED
    BY <1>1, Zenon DEF ReadsOn

\* DerChildren of one element that was written, and of two.
LEMMA ChildrenOne ==
  ASSUME NEW tag \in Nat, NEW c \in Seq(Nat), Len(c) < 128
  PROVE  DerChildren(TL(tag, c)) = [ok |-> TRUE, els |-> <<Read(tag, c, Len(c) + 3)>>]
  <1> DEFINE g == TL(tag, c)
             e == Read(tag, c, Len(c) + 3)
  <1>1. g \in Seq(Nat) /\ Len(g) = 2 + Len(c)
    BY ShortElement
  <1>2. ReadElement(g, 1) = e
    <2>1. g = << >> \o TL(tag, c) \o << >>
      <3> HIDE DEF g
      <3>1. g = << >> \o g \o << >>
        BY <1>1
      <3> QED
        BY <3>1 DEF g
    <2>2. << >> \in Seq(Nat) /\ Len(<< >>) = 0
      OBVIOUS
    <2>5. Stands(g, << >>, tag, c, << >>)
      BY <2>1, <2>2 DEF Stands
    <2>3. ReadElement(g, Len(<< >>) + 1) = Read(tag, c, Len(<< >>) + Len(c) + 3)
      BY <2>5, ShortReads
    <2>4. Len(<< >>) + 1 = 1 /\ Len(<< >>) + Len(c) + 3 = Len(c) + 3
      BY <2>2
    <2> QED
      BY <2>3, <2>4
  <1>3. e.ok /\ e.next = Len(g) + 1
    BY <1>1 DEF Read
  <1> HIDE DEF g, e
  <1>4. PICK E, f : /\ f \in [1..(Len(g) + 1) -> [ok : BOOLEAN, els : Seq(E)]]
                    /\ ReadsOn(f, g) /\ DerChildren(g) = f[1]
    BY <1>1, ChildrenUnfold
  <1>5. f[Len(g) + 1] = [ok |-> TRUE, els |-> << >>]
    BY <1>1, <1>4, ReadsEnd
  <1>6. f[1] = [ok |-> f[Len(g) + 1].ok, els |-> <<e>> \o f[Len(g) + 1].els]
    <2>1. 1 \in 1..Len(g)
      BY <1>1
    <2>2. f[1] = [ok |-> f[e.next].ok, els |-> <<e>> \o f[e.next].els]
      <3>1. GoodAt(g, 1, e)
        BY <1>1, <1>2, <1>3, <2>1 DEF GoodAt
      <3>2. Steps(f, 1, e)
        BY <1>4, <3>1, ReadsStep
      <3> QED
        BY <3>2, Zenon DEF Steps
    <2> QED
      BY <1>3, <2>2
  <1>7. <<e>> \o << >> = <<e>>
    OBVIOUS
  <1>8. DerChildren(g) = [ok |-> TRUE, els |-> <<e>>]
    BY <1>4, <1>5, <1>6, <1>7
  <1> QED
    BY <1>8 DEF g, e

\* ... and of two.
LEMMA ChildrenTwo ==
  ASSUME NEW t1 \in Nat, NEW c1 \in Seq(Nat), Len(c1) < 128,
         NEW t2 \in Nat, NEW c2 \in Seq(Nat), Len(c2) < 128
  PROVE  DerChildren(TL(t1, c1) \o TL(t2, c2))
           = [ok |-> TRUE,
              els |-> <<Read(t1, c1, Len(c1) + 3), Read(t2, c2, Len(c1) + Len(c2) + 5)>>]
  <1> DEFINE a == TL(t1, c1)
             b == TL(t2, c2)
             g == a \o b
             e1 == Read(t1, c1, Len(c1) + 3)
             e2 == Read(t2, c2, Len(c1) + Len(c2) + 5)
  <1>1. a \in Seq(Nat) /\ Len(a) = 2 + Len(c1) /\ b \in Seq(Nat) /\ Len(b) = 2 + Len(c2)
    BY ShortElement
  <1>2. ReadElement(g, 1) = e1
    <2>1. g = << >> \o TL(t1, c1) \o b
      <3> HIDE DEF a, b
      <3>1. g = << >> \o a \o b
        BY <1>1
      <3> QED
        BY <3>1 DEF a
    <2>2. << >> \in Seq(Nat) /\ Len(<< >>) = 0
      OBVIOUS
    <2>0. b \in Seq(Nat)
      BY <1>1
    <2> HIDE DEF b, g
    <2>5. Stands(g, << >>, t1, c1, b)
      BY <2>0, <2>1, <2>2 DEF Stands
    <2>3. ReadElement(g, Len(<< >>) + 1) = Read(t1, c1, Len(<< >>) + Len(c1) + 3)
      BY <2>5, ShortReads
    <2>4. Len(<< >>) + 1 = 1 /\ Len(<< >>) + Len(c1) + 3 = Len(c1) + 3
      BY <2>2
    <2> QED
      BY <2>3, <2>4
  <1>3. ReadElement(g, Len(c1) + 3) = e2
    <2>1. g = a \o TL(t2, c2) \o << >>
      <3> HIDE DEF a, b
      <3>1. g = a \o b \o << >>
        BY <1>1
      <3> QED
        BY <3>1 DEF b
    <2>2. << >> \in Seq(Nat)
      OBVIOUS
    <2>0. a \in Seq(Nat)
      BY <1>1
    <2> HIDE DEF a, g
    <2>5. Stands(g, a, t2, c2, << >>)
      BY <2>0, <2>1, <2>2 DEF Stands
    <2>3. ReadElement(g, Len(a) + 1) = Read(t2, c2, Len(a) + Len(c2) + 3)
      BY <2>5, ShortReads
    <2>4. Len(a) + 1 = Len(c1) + 3 /\ Len(a) + Len(c2) + 3 = Len(c1) + Len(c2) + 5
      <3>1. Len(c1) \in Nat /\ Len(c2) \in Nat
        OBVIOUS
      <3> QED
        BY <1>1, <3>1
    <2> QED
      BY <2>3, <2>4
  <1>4. e1.ok /\ e1.next = Len(c1) + 3 /\ e2.ok /\ e2.next = Len(c1) + Len(c2) + 5
    BY DEF Read
  <1>5. g \in Seq(Nat) /\ Len(g) = Len(c1) + Len(c2) + 4 /\ Len(c1) \in Nat /\ Len(c2) \in Nat
    <2> HIDE DEF a, b
    <2> QED
      BY <1>1
  <1> HIDE DEF g, a, b, e1, e2
  <1>6. PICK E, f : /\ f \in [1..(Len(g) + 1) -> [ok : BOOLEAN, els : Seq(E)]]
                    /\ ReadsOn(f, g) /\ DerChildren(g) = f[1]
    BY <1>5, ChildrenUnfold
  <1>7. f[Len(c1) + Len(c2) + 5] = [ok |-> TRUE, els |-> << >>]
    <2>1. Len(c1) + Len(c2) + 5 = Len(g) + 1
      BY <1>5
    <2> QED
      BY <1>5, <1>6, <2>1, ReadsEnd
  <1>8. f[Len(c1) + 3] = [ok |-> f[Len(c1) + Len(c2) + 5].ok,
                          els |-> <<e2>> \o f[Len(c1) + Len(c2) + 5].els]
    <2> DEFINE k == Len(c1) + 3
    <2>1. k \in 1..Len(g)
      BY <1>5
    <2>3. ReadElement(g, k) = e2 /\ e2.ok
      BY <1>3, <1>4
    <2>4. g \in Seq(Nat) /\ ReadsOn(f, g)
      BY <1>5, <1>6
    <2> HIDE DEF k
    <2>2. f[k] = [ok |-> f[e2.next].ok, els |-> <<e2>> \o f[e2.next].els]
      <3>1. GoodAt(g, k, e2)
        BY <2>1, <2>3, <2>4 DEF GoodAt
      <3>2. Steps(f, k, e2)
        BY <2>4, <3>1, ReadsStep
      <3> QED
        BY <3>2, Zenon DEF Steps
    <2> QED
      BY <1>4, <2>2 DEF k
  <1>9. f[1] = [ok |-> f[Len(c1) + 3].ok, els |-> <<e1>> \o f[Len(c1) + 3].els]
    <2>1. 1 \in 1..Len(g)
      BY <1>5
    <2>2. f[1] = [ok |-> f[e1.next].ok, els |-> <<e1>> \o f[e1.next].els]
      <3>1. GoodAt(g, 1, e1)
        BY <1>2, <1>4, <1>5, <2>1 DEF GoodAt
      <3>2. Steps(f, 1, e1)
        BY <1>6, <3>1, ReadsStep
      <3> QED
        BY <3>2, Zenon DEF Steps
    <2> QED
      BY <1>4, <2>2
  <1>10. <<e2>> \o << >> = <<e2>>
    OBVIOUS
  <1>11. <<e1>> \o <<e2>> = <<e1, e2>>
    <2> DEFINE S == {e1, e2}
               p == <<e1>> \o <<e2>>
               q == <<e1, e2>>
    <2>1. p \in Seq(S) /\ Len(p) = 2 /\ p[1] = e1 /\ p[2] = e2
      OBVIOUS
    <2>2. q \in Seq(S) /\ Len(q) = 2 /\ q[1] = e1 /\ q[2] = e2
      OBVIOUS
    <2> HIDE DEF p, q, S
    <2>3. \A i \in 1..2 : p[i] = q[i]
      BY <2>1, <2>2
    <2>4. p = q
      BY <2>1, <2>2, <2>3, SeqEqual
    <2> QED
      BY <2>4 DEF p, q
  <1>12. f[Len(c1) + 3] = [ok |-> TRUE, els |-> <<e2>>]
    BY <1>7, <1>8, <1>10
  <1>13. DerChildren(g) = [ok |-> TRUE, els |-> <<e1, e2>>]
    <2>1. f[Len(c1) + 3].ok = TRUE /\ f[Len(c1) + 3].els = <<e2>>
      BY <1>12
    <2> QED
      BY <1>6, <1>9, <1>11, <2>1, Zenon
  <1> QED
    BY <1>13 DEF g, a, b, e1, e2

-----------------------------------------------------------------------------
(* The two forms of a signature.                                           *)

\* The tags are octets.
LEMMA TagsNat == SEQUENCE \in Nat /\ INTEGER \in Nat
  BY DEF SEQUENCE, INTEGER

\* An element at the front of a buffer is read back, whatever follows it.
LEMMA ElementReadsAlone ==
  ASSUME NEW tag \in Nat, NEW c \in Seq(Nat), NEW post \in Seq(Nat), Len(Bytes(Len(c))) <= 3
  PROVE  ReadElement(TL(tag, c) \o post, 1)
           = [ok |-> TRUE, tag |-> tag, content |-> c, next |-> Len(TL(tag, c)) + 1]
  <1> DEFINE t == TL(tag, c)
  <1>1. PICK l, k : LengthIs(Len(c), l, k)
    <2>1. Len(c) \in Nat
      OBVIOUS
    <2> QED
      BY <2>1, LengthOctets
  <1>2. t \in Seq(Nat)
    <2>1. Written(t, tag, l, k, c) /\ l \in Nat /\ k \in Seq(Nat)
      BY <1>1 DEF TL, LengthIs, Written
    <2>2. t = <<tag>> \o (<<l>> \o k) \o c
      BY <2>1 DEF Written
    <2> HIDE DEF t
    <2> QED
      BY <2>1, <2>2
  <1>3. << >> \in Seq(Nat) /\ Len(<< >>) = 0
    OBVIOUS
  <1>4. ReadElement(<< >> \o TL(tag, c) \o post, Len(<< >>) + 1)
          = [ok |-> TRUE, tag |-> tag, content |-> c, next |-> Len(<< >> \o TL(tag, c)) + 1]
    BY <1>3, ElementReads
  <1>5. Len(<< >>) + 1 = 1
    BY <1>3
  <1>6. << >> \o t = t
    <2> HIDE DEF t
    <2> QED
      BY <1>2
  <1> QED
    BY <1>4, <1>5, <1>6

\* An INTEGER of up to 60 octets is a short element.
LEMMA IntegerElement ==
  ASSUME NEW n \in Nat, Len(Bytes(n)) <= 60
  PROVE  /\ DerInt(n) \in Seq(Nat) /\ Len(DerInt(n)) < 128
         /\ TL(INTEGER, DerInt(n)) \in Seq(Nat) /\ Len(TL(INTEGER, DerInt(n))) <= 63
  <1>1. DerInt(n) \in Seq(Nat) /\ Len(DerInt(n)) <= Len(Bytes(n)) + 1
    BY DerIntReads
  <1>2. Bytes(n) \in Seq(Nat)
    BY BytesAre
  <1> DEFINE c == DerInt(n)
             b == Bytes(n)
  <1> HIDE DEF c, b
  <1>3. c \in Seq(Nat) /\ Len(c) \in Nat /\ Len(c) <= 61
    BY <1>1, <1>2 DEF c, b
  <1>4. TL(INTEGER, c) \in Seq(Nat) /\ Len(TL(INTEGER, c)) = 2 + Len(c)
    <2>1. Len(c) < 128
      BY <1>3
    <2> QED
      BY <1>3, <2>1, ShortElement, TagsNat
  <1>5. Len(c) < 128 /\ Len(TL(INTEGER, c)) <= 63
    BY <1>3, <1>4
  <1> QED
    BY <1>3, <1>4, <1>5 DEF c

\* A DER signature of two numbers becomes their octets, padded to each other.
LEMMA DerToRawReads ==
  ASSUME NEW r \in Nat, NEW s \in Nat, Len(Bytes(r)) <= 60, Len(Bytes(s)) <= 60
  PROVE  DerToRawECDSA(TL(SEQUENCE, TL(INTEGER, DerInt(r)) \o TL(INTEGER, DerInt(s))))
           = Join(Bytes(r), Bytes(s))
  <1> DEFINE a == TL(INTEGER, DerInt(r))
             b == TL(INTEGER, DerInt(s))
             in == a \o b
             sig == TL(SEQUENCE, in)
             top == Read(SEQUENCE, in, Len(in) + 3)
             ea == Read(INTEGER, DerInt(r), Len(DerInt(r)) + 3)
             eb == Read(INTEGER, DerInt(s), Len(DerInt(r)) + Len(DerInt(s)) + 5)
  <1>1. a \in Seq(Nat) /\ Len(a) <= 63 /\ b \in Seq(Nat) /\ Len(b) <= 63
    BY IntegerElement
  <1>2. in \in Seq(Nat) /\ Len(in) < 128
    <2> HIDE DEF a, b
    <2> QED
      BY <1>1
  <1>3. DerChildren(in) = [ok |-> TRUE, els |-> <<ea, eb>>]
    <2> DEFINE cr == DerInt(r)
               cs == DerInt(s)
    <2>1. cr \in Seq(Nat) /\ Len(cr) < 128 /\ cs \in Seq(Nat) /\ Len(cs) < 128
      BY IntegerElement
    <2> HIDE DEF cr, cs
    <2>2. DerChildren(TL(INTEGER, cr) \o TL(INTEGER, cs))
            = [ok |-> TRUE,
               els |-> <<Read(INTEGER, cr, Len(cr) + 3),
                         Read(INTEGER, cs, Len(cr) + Len(cs) + 5)>>]
      BY <2>1, TagsNat, ChildrenTwo, ZenonT(40)
    <2> QED
      BY <2>2 DEF cr, cs
  <1> HIDE DEF in
  <1>4. DerChildren(sig) = [ok |-> TRUE, els |-> <<top>>]
    BY <1>2, ChildrenOne, TagsNat
  <1>5. Len(sig) >= 2 /\ sig[1] = SEQUENCE
    <2>0. SEQUENCE \in Nat /\ in \in Seq(Nat) /\ Len(in) < 128
      BY <1>2, TagsNat
    <2>1. Len(sig) = 2 + Len(in) /\ sig[1] = SEQUENCE /\ Len(in) \in Nat
      <3>1. Len(TL(SEQUENCE, in)) = 2 + Len(in) /\ TL(SEQUENCE, in)[1] = SEQUENCE
        BY <2>0, ShortElement
      <3> QED
        BY <2>0, <3>1
    <2> HIDE DEF sig
    <2> QED
      BY <2>1
  <1>6. top.content = in /\ ea.tag = INTEGER /\ eb.tag = INTEGER
        /\ ea.content = DerInt(r) /\ eb.content = DerInt(s)
    BY DEF Read
  <1> HIDE DEF sig, top, ea, eb
  <1>7. DerToRawECDSA(sig) = FromSequence(sig, DerChildren(sig))
    BY <1>5, Zenon DEF DerToRawECDSA
  <1>8. FromSequence(sig, DerChildren(sig)) = RawOf(sig, DerChildren(in))
    <2>1. Len(<<top>>) = 1 /\ <<top>>[1] = top
      OBVIOUS
    <2>2. DerChildren(sig).ok /\ DerChildren(sig).els = <<top>>
      BY <1>4
    <2> QED
      BY <1>6, <2>1, <2>2 DEF FromSequence
  <1>9. RawOf(sig, DerChildren(in)) = Join(StripLeadZero(ea.content), StripLeadZero(eb.content))
    <2>1. Len(<<ea, eb>>) = 2 /\ <<ea, eb>>[1] = ea /\ <<ea, eb>>[2] = eb
      OBVIOUS
    <2>2. DerChildren(in).ok = TRUE /\ DerChildren(in).els = <<ea, eb>>
      BY <1>3
    <2> QED
      BY <1>6, <2>1, <2>2 DEF RawOf
  <1>10. StripLeadZero(DerInt(r)) = Bytes(r) /\ StripLeadZero(DerInt(s)) = Bytes(s)
    BY DerIntReads
  <1> QED
    BY <1>6, <1>7, <1>8, <1>9, <1>10 DEF sig, in

\* When one of two halves has n octets and the other no more, both get n.
LEMMA JoinFills ==
  ASSUME NEW r \in Seq(Nat), NEW s \in Seq(Nat), NEW n \in Nat, Len(r) <= n, Len(s) <= n,
         Len(r) = n \/ Len(s) = n
  PROVE  Join(r, s) = PadTo(r, n) \o PadTo(s, n)
  <1>1. (IF Len(r) > Len(s) THEN Len(r) ELSE Len(s)) = n
    OBVIOUS
  <1> QED
    BY <1>1, Zenon DEF Join

\* One octet stands for itself.
LEMMA NumberOfOne ==
  ASSUME NEW b \in Nat
  PROVE  Number(<<b>>) = b
  <1>1. PICK base \in Nat : base = 256
    OBVIOUS
  <1>2. \A x : Number(x) = Value(x, base)
    BY <1>1, Zenon DEF Number
  <1> DEFINE e == << >>
  <1>3. e \in Seq(Nat) /\ Len(e) = 0 /\ Append(e, b) = <<b>>
    OBVIOUS
  <1> HIDE DEF e
  <1>4. Value(e, base) = 0
    <2>1. PICK v \in [0..Len(e) -> Nat] : v[0] = 0 /\ Value(e, base) = v[Len(e)]
      BY <1>3, ValueLoop
    <2> QED
      BY <1>3, <2>1
  <1>5. Value(Append(e, b), base) = Value(e, base) * base + b
    BY <1>3, ValueOfAppend
  <1>6. 0 * base = 0
    OBVIOUS
  <1>7. Value(<<b>>, base) = b
    BY <1>3, <1>4, <1>5, <1>6
  <1> QED
    BY <1>2, <1>7, Zenon

\* An empty content has no children.
LEMMA NoChildren ==
  DerChildren(<< >>) = [ok |-> TRUE, els |-> << >>]
  <1> DEFINE g == << >>
  <1>1. g \in Seq(Nat) /\ Len(g) = 0
    OBVIOUS
  <1> HIDE DEF g
  <1>2. PICK E, f : /\ f \in [1..(Len(g) + 1) -> [ok : BOOLEAN, els : Seq(E)]]
                    /\ ReadsOn(f, g) /\ DerChildren(g) = f[1]
    BY <1>1, ChildrenUnfold
  <1>3. f[Len(g) + 1] = [ok |-> TRUE, els |-> << >>]
    BY <1>1, <1>2, ReadsEnd
  <1>4. Len(g) + 1 = 1
    BY <1>1
  <1> QED
    BY <1>2, <1>3, <1>4 DEF g

\* A content that reads as one element is that element to its end.
LEMMA OneChild ==
  ASSUME NEW g \in Seq(Nat), Len(g) >= 1, DerChildren(g).ok, Len(DerChildren(g).els) = 1
  PROVE  /\ ReadElement(g, 1).ok /\ ReadElement(g, 1).next = Len(g) + 1
         /\ DerChildren(g).els[1] = ReadElement(g, 1)
  <1> DEFINE D == DerChildren(g)
             N == Len(g)
             el(off) == ReadElement(g, off)
  <1>1. PICK E, f : /\ f \in [1..(N + 1) -> [ok : BOOLEAN, els : Seq(E)]]
                    /\ ReadsOn(f, g) /\ D = f[1]
    BY ChildrenUnfold
  <1>2. N \in Nat /\ N >= 1
    OBVIOUS
  <1>3. ASSUME NEW off \in 1..N
        PROVE  /\ ~el(off).ok => f[off] = [ok |-> FALSE, els |-> << >>]
               /\ el(off).ok =>
                    /\ f[off] = [ok |-> f[el(off).next].ok,
                                 els |-> <<el(off)>> \o f[el(off).next].els]
                    /\ el(off).next \in (off + 2)..(N + 1)
    <2>1. off \in 1..(Len(g) + 1) /\ ~(off > Len(g))
      BY <1>2
    <2>2. ~el(off).ok => f[off] = [ok |-> FALSE, els |-> << >>]
      BY <1>1, <2>1, Zenon DEF ReadsOn
    <2>3. el(off).ok => f[off] = [ok |-> f[el(off).next].ok,
                                  els |-> <<el(off)>> \o f[el(off).next].els]
      BY <1>1, <2>1, Zenon DEF ReadsOn
    <2>4. el(off).ok => el(off).next \in (off + 2)..(N + 1)
      BY ReadsForward
    <2> QED
      BY <2>2, <2>3, <2>4
  <1> DEFINE e == el(1)
             x == e.next
  <1> HIDE DEF el
  <1>4. 1 \in 1..N
    BY <1>2
  <1>5. /\ e.ok /\ x \in 3..(N + 1)
        /\ D.ok = f[x].ok /\ D.els = <<e>> \o f[x].els
    <2>1. e.ok
      <3> SUFFICES ASSUME ~e.ok PROVE FALSE
        OBVIOUS
      <3>1. f[1] = [ok |-> FALSE, els |-> << >>]
        BY <1>3, <1>4
      <3>2. D.ok = FALSE
        BY <1>1, <3>1
      <3> QED
        BY <3>2
    <2>2. /\ f[1] = [ok |-> f[x].ok, els |-> <<e>> \o f[x].els]
          /\ x \in (1 + 2)..(N + 1)
      BY <1>3, <1>4, <2>1
    <2>3. x \in 3..(N + 1)
      BY <2>2
    <2>4. f[1].ok = f[x].ok /\ f[1].els = <<e>> \o f[x].els
      BY <2>2, SMTT(40)
    <2> QED
      BY <1>1, <2>1, <2>3, <2>4
  <1> HIDE DEF D, N
  <1>6. f[x].ok /\ f[x].els \in Seq(E) /\ x \in 1..(N + 1)
    BY <1>1, <1>2, <1>5 DEF D
  <1> HIDE DEF e, x
  <1>7. Len(f[x].els) = 0 /\ D.els[1] = e
    <2> DEFINE rest == f[x].els
               S == E \cup {e}
    <2>1. rest \in Seq(S) /\ e \in S
      BY <1>6
    <2>2. D.els = <<e>> \o rest /\ Len(D.els) = 1
      BY <1>5 DEF D
    <2> HIDE DEF rest, S
    <2>3. Len(rest) = 0 /\ D.els[1] = e
      BY <2>1, <2>2
    <2> QED
      BY <2>3 DEF rest
  <1>8. x = N + 1
    <2> SUFFICES ASSUME x \in 1..N PROVE FALSE
      BY <1>2, <1>6
    <2> DEFINE d == el(x)
               y == d.next
    <2>0. /\ ~d.ok => f[x] = [ok |-> FALSE, els |-> << >>]
          /\ d.ok =>
               /\ f[x] = [ok |-> f[y].ok, els |-> <<d>> \o f[y].els]
               /\ y \in (x + 2)..(N + 1)
      BY <1>3
    <2> HIDE DEF d, y
    <2>1. d.ok
      <3> SUFFICES ASSUME ~d.ok PROVE FALSE
        OBVIOUS
      <3>1. f[x].ok = FALSE
        BY <2>0
      <3> QED
        BY <1>6, <3>1
    <2>2. f[x].els = <<d>> \o f[y].els /\ y \in (x + 2)..(N + 1)
      BY <2>0, <2>1, SMTT(40)
    <2>3. f[y].els \in Seq(E)
      BY <1>1, <1>2, <2>2, SMTT(40) DEF N
    <2> DEFINE rest == f[y].els
               S == E \cup {d}
    <2>4. rest \in Seq(S) /\ d \in S /\ f[x].els = <<d>> \o rest
      BY <2>2, <2>3
    <2> HIDE DEF rest, S
    <2>5. Len(f[x].els) = 1 + Len(rest) /\ Len(rest) \in Nat
      BY <2>4
    <2> QED
      BY <1>7, <2>5
  <1> QED
    BY <1>5, <1>7, <1>8 DEF D, N, e, x, el

\* What a good element was read from.
ReadVars(g, off, l, n, len, from) ==
  /\ l = g[off + 1] /\ n = (IF l >= 128 THEN l - 128 ELSE 0)
  /\ len = (IF l < 128 THEN l ELSE Number(SubSeq(g, off + 2, off + 1 + n)))
  /\ from = off + 2 + n

\* None of the reader's refusals applied, and it returned the part it measured.
ReadWell(g, off, l, n, len, from) ==
  /\ ~(l = 128) /\ ~(n > 4) /\ ~(from - 1 > Len(g)) /\ ~(from - 1 + len > Len(g))
  /\ ReadElement(g, off).content = SubSeq(g, from, from - 1 + len)
  /\ ReadElement(g, off).next = from + len

\* That is so when the element is good.
LEMMA GoodReads ==
  ASSUME NEW g, NEW off, NEW l, NEW n, NEW len, NEW from,
         ReadVars(g, off, l, n, len, from), ReadElement(g, off).ok
  PROVE  ReadWell(g, off, l, n, len, from)
  <1> DEFINE wrong == \/ l = 128 \/ n > 4 \/ from - 1 > Len(g)
                      \/ from - 1 + len > Len(g)
             e == ReadElement(g, off)
             good == [ok |-> TRUE, tag |-> g[off], content |-> SubSeq(g, from, from - 1 + len),
                      next |-> from + len]
  <1>1. e = (IF off + 1 > Len(g) THEN Failed ELSE IF wrong THEN Failed ELSE good)
    BY DEF ReadElement, ReadVars
  <1>2. ~Failed.ok
    BY DEF Failed
  <1>3. good.next = from + len /\ good.content = SubSeq(g, from, from - 1 + len)
    OBVIOUS
  <1>4. e.ok
    OBVIOUS
  <1> HIDE DEF good, wrong, e
  <1>5. ~wrong /\ e = good
    BY <1>1, <1>2, <1>4
  <1> QED
    BY <1>3, <1>5 DEF wrong, e, ReadWell

\* The parts of a signature of four octets and more that the reader looks at.
LEMMA FourOctets ==
  ASSUME NEW raw \in Seq(Nat), NEW n \in Nat, n >= 4, Len(raw) = n
  PROVE  /\ raw[1] \in Nat /\ raw[2] \in Nat /\ raw[3] \in Nat /\ raw[4] \in Nat
         /\ SubSeq(raw, 1, 2) = <<raw[1], raw[2]>>
         /\ SubSeq(raw, 1, 3) = <<raw[1], raw[2], raw[3]>>
         /\ SubSeq(raw, 3, 3) = <<raw[3]>> /\ SubSeq(raw, 3, 4) \in Seq(Nat)
         /\ SubSeq(raw, 5, 4) = << >>
  <1>1. /\ raw[1] \in Nat /\ raw[2] \in Nat /\ raw[3] \in Nat /\ raw[4] \in Nat
    OBVIOUS
  <1>2. SubSeq(raw, 3, 4) \in Seq(Nat)
    OBVIOUS
  <1>3. SubSeq(raw, 5, 4) = << >>
    BY SubSeqEmpty
  <1>4. SubSeq(raw, 1, 2) = <<raw[1], raw[2]>>
    <2> DEFINE p == SubSeq(raw, 1, 2)
               q == <<raw[1], raw[2]>>
    <2>1. p \in Seq(Nat) /\ Len(p) = 2 /\ p[1] = raw[1] /\ p[2] = raw[2]
      OBVIOUS
    <2>2. q \in Seq(Nat) /\ Len(q) = 2 /\ q[1] = raw[1] /\ q[2] = raw[2]
      BY <1>1
    <2> HIDE DEF p, q
    <2>3. \A i \in 1..2 : p[i] = q[i]
      BY <2>1, <2>2
    <2>4. p = q
      BY <2>1, <2>2, <2>3, SeqEqual
    <2> QED
      BY <2>4 DEF p, q
  <1>5. SubSeq(raw, 1, 3) = <<raw[1], raw[2], raw[3]>>
    <2> DEFINE p == SubSeq(raw, 1, 3)
               q == <<raw[1], raw[2], raw[3]>>
    <2>1. p \in Seq(Nat) /\ Len(p) = 3 /\ p[1] = raw[1] /\ p[2] = raw[2] /\ p[3] = raw[3]
      OBVIOUS
    <2>2. q \in Seq(Nat) /\ Len(q) = 3 /\ q[1] = raw[1] /\ q[2] = raw[2] /\ q[3] = raw[3]
      BY <1>1
    <2> HIDE DEF p, q
    <2>3. \A i \in 1..3 : p[i] = q[i]
      BY <2>1, <2>2
    <2>4. p = q
      BY <2>1, <2>2, <2>3, SeqEqual
    <2> QED
      BY <2>4 DEF p, q
  <1>6. SubSeq(raw, 3, 3) = <<raw[3]>>
    <2> DEFINE p == SubSeq(raw, 3, 3)
               q == <<raw[3]>>
    <2>1. p \in Seq(Nat) /\ Len(p) = 1 /\ p[1] = raw[3]
      OBVIOUS
    <2>2. q \in Seq(Nat) /\ Len(q) = 1 /\ q[1] = raw[3]
      BY <1>1
    <2> HIDE DEF p, q
    <2>3. \A i \in 1..1 : p[i] = q[i]
      BY <2>1, <2>2
    <2>4. p = q
      BY <2>1, <2>2, <2>3, SeqEqual
    <2> QED
      BY <2>4 DEF p, q
  <1> QED
    BY <1>1, <1>2, <1>3, <1>4, <1>5, <1>6

\* A raw signature that is not written as a SEQUENCE of its length is kept.
LEMMA RawStays ==
  ASSUME NEW raw \in Seq(Nat), Len(raw) = 4,
         SubSeq(raw, 1, 2) # <<SEQUENCE, 2>>, SubSeq(raw, 1, 3) # <<SEQUENCE, 129, 1>>
  PROVE  DerToRawECDSA(raw) = raw
  <1> DEFINE top == DerChildren(raw)
             e == ReadElement(raw, 1)
  <1>4. /\ raw[1] \in Nat /\ raw[2] \in Nat /\ raw[3] \in Nat
        /\ SubSeq(raw, 1, 2) = <<raw[1], raw[2]>>
        /\ SubSeq(raw, 1, 3) = <<raw[1], raw[2], raw[3]>>
        /\ SubSeq(raw, 3, 3) = <<raw[3]>> /\ SubSeq(raw, 3, 4) \in Seq(Nat)
        /\ SubSeq(raw, 5, 4) = << >>
    <2>1. 4 \in Nat /\ 4 >= 4
      OBVIOUS
    <2> QED
      BY <2>1, FourOctets
  <1>1. CASE ~(raw[1] = SEQUENCE)
    BY <1>1 DEF DerToRawECDSA
  <1>2. CASE ~(top.ok /\ Len(top.els) = 1)
    BY <1>2 DEF DerToRawECDSA, FromSequence
  <1>3. CASE raw[1] = SEQUENCE /\ top.ok /\ Len(top.els) = 1
    <2>1. e.ok /\ e.next = 5 /\ top.els[1] = e
      <3>1. Len(raw) >= 1 /\ Len(raw) + 1 = 5
        OBVIOUS
      <3>2. /\ ReadElement(raw, 1).ok /\ ReadElement(raw, 1).next = Len(raw) + 1
            /\ DerChildren(raw).els[1] = ReadElement(raw, 1)
        BY <1>3, <3>1, OneChild
      <3> QED
        BY <3>1, <3>2
    <2> DEFINE l == raw[1 + 1]
               n == IF l >= 128 THEN l - 128 ELSE 0
               len == IF l < 128 THEN l ELSE Number(SubSeq(raw, 1 + 2, 1 + 1 + n))
               from == 1 + 2 + n
    <2>2. /\ ~(l = 128) /\ ~(n > 4) /\ ~(from - 1 > Len(raw)) /\ ~(from - 1 + len > Len(raw))
          /\ e.content = SubSeq(raw, from, from - 1 + len) /\ e.next = from + len
      <3> HIDE DEF l, n, len, from
      <3>1. ReadElement(raw, 1).ok
        BY <2>1
      <3>2. l = raw[1 + 1] /\ n = (IF l >= 128 THEN l - 128 ELSE 0)
        BY Zenon DEF l, n
      <3>3. len = (IF l < 128 THEN l ELSE Number(SubSeq(raw, 1 + 2, 1 + 1 + n)))
            /\ from = 1 + 2 + n
        BY Zenon DEF len, from
      <3>4. ReadVars(raw, 1, l, n, len, from)
        BY <3>2, <3>3 DEF ReadVars
      <3>5. ReadWell(raw, 1, l, n, len, from)
        BY <3>1, <3>4, GoodReads
      <3> QED
        BY <3>5, Zenon DEF ReadWell
    <2> HIDE DEF e, top
    <2>3. l = raw[2] /\ l \in Nat /\ raw[3] \in Nat
      BY <1>4
    <2> HIDE DEF l
    <2>4. ~(l < 128)
      <3> SUFFICES ASSUME l < 128 PROVE FALSE
        OBVIOUS
      <3>1. n = 0 /\ len = l
        BY <2>3
      <3>2. l = 2
        BY <2>1, <2>2, <2>3, <3>1
      <3>3. SubSeq(raw, 1, 2) = <<raw[1], raw[2]>> /\ raw[1] = SEQUENCE /\ raw[2] = 2
        BY <1>3, <2>3, <3>2, <1>4
      <3> QED
        BY <3>3, Zenon
    <2>5. n \in {1, 2} /\ l = 128 + n
      BY <2>2, <2>3, <2>4
    <2>6. n # 1
      <3> SUFFICES ASSUME n = 1 PROVE FALSE
        OBVIOUS
      <3>1. SubSeq(raw, 1 + 2, 1 + 1 + n) = <<raw[3]>>
        <4>1. 1 + 2 = 3 /\ 1 + 1 + n = 3
          OBVIOUS
        <4> HIDE DEF n
        <4> QED
          BY <4>1, <1>4
      <3>2. len = raw[3]
        BY <2>3, <2>4, <3>1, NumberOfOne
      <3>3. raw[3] = 1 /\ raw[2] = 129
        <4> HIDE DEF len, n
        <4> QED
          BY <2>1, <2>2, <2>3, <2>5, <3>2
      <3> QED
        BY <1>3, <3>3, <1>4
    <2>7. n = 2
      BY <2>5, <2>6
    <2>8. e.content = << >>
      <3>1. from = 5 /\ 1 + 2 = 3 /\ 1 + 1 + n = 4
        BY <2>7
      <3>2. from + len = 5
        BY <2>1, <2>2
      <3>3. len \in Nat
        <4>1. SubSeq(raw, 3, 4) \in Seq(Nat)
          BY <1>4
        <4>2. Number(SubSeq(raw, 3, 4)) \in Nat
          BY <4>1, NumberIsNat
        <4> HIDE DEF n
        <4> QED
          BY <2>4, <3>1, <4>2
      <3> HIDE DEF len, from, n
      <3>4. from - 1 + len = 4
        BY <3>1, <3>2, <3>3
      <3> QED
        BY <2>2, <3>1, <3>4, <1>4
    <2>9. DerToRawECDSA(raw) = RawOf(raw, DerChildren(e.content))
      BY <1>3, <2>1 DEF DerToRawECDSA, FromSequence, top
    <2>10. DerChildren(e.content) = [ok |-> TRUE, els |-> << >>]
      BY <2>8, NoChildren
    <2>11. RawOf(raw, [ok |-> TRUE, els |-> << >>]) = raw
      <3>1. Len(<< >>) # 2
        OBVIOUS
      <3> QED
        BY <3>1 DEF RawOf
    <2> QED
      BY <2>9, <2>10, <2>11
  <1> QED
    BY <1>1, <1>2, <1>3

-----------------------------------------------------------------------------
(* Object identifiers.                                                     *)

\* Sequences are joined from the left.
LEMMA FlattenLoop ==
  ASSUME NEW A, NEW seqs \in Seq(Seq(A)), Len(seqs) >= 1
  PROVE  \E fl \in [1..Len(seqs) -> Seq(A)] :
           /\ fl[1] = seqs[1]
           /\ \A i \in 2..Len(seqs) : fl[i] = fl[i - 1] \o seqs[i]
           /\ FlattenSeq(seqs) = fl[Len(seqs)]
  <1> DEFINE N == Len(seqs)
             S == Seq(A)
             fl[i \in 1..Len(seqs)] == IF i = 1 THEN seqs[i] ELSE fl[i - 1] \o seqs[i]
             step == [i \in 2..N |-> [x \in S |-> x \o seqs[i]]]
  <1>1. N \in Nat /\ N >= 1 /\ \A i \in 1..N : seqs[i] \in S
    OBVIOUS
  <1>2. \A x, y \in S : x \o y \in S
    OBVIOUS
  <1>3. FlattenSeq(seqs) = fl[N]
    <2>1. Len(seqs) # 0
      OBVIOUS
    <2> QED
      BY <2>1 DEF FlattenSeq
  <1> HIDE DEF N, S
  <1>4. IsLoop(1, N, S, seqs[1], step)
    <2>1. 1 \in 1..N /\ 1 + 1 = 2
      BY <1>1
    <2>2. step \in [2..N -> [S -> S]]
      <3> SUFFICES ASSUME NEW i \in 2..N, NEW x \in S PROVE x \o seqs[i] \in S
        OBVIOUS
      <3>1. i \in 1..N
        BY <1>1
      <3> QED
        BY <1>1, <1>2, <3>1
    <2> HIDE DEF step
    <2> QED
      BY <1>1, <2>1, <2>2 DEF IsLoop
  <1>5. PICK f \in [1..N -> S] : Carries(f, 1, N, seqs[1], step)
    <2> HIDE DEF step
    <2> QED
      BY <1>4, LoopExists
  <1>6. \E g : g = [i \in 1..Len(seqs) |-> IF i = 1 THEN seqs[i] ELSE g[i - 1] \o seqs[i]]
    <2>1. ASSUME NEW i \in 1..N
          PROVE  f[i] = (IF i = 1 THEN seqs[i] ELSE f[i - 1] \o seqs[i])
      <3>1. f[i] = (IF i = 1 THEN seqs[1] ELSE step[i][f[i - 1]])
        BY <1>5 DEF Carries
      <3>2. i # 1 => i \in 2..N /\ i - 1 \in 1..N
        BY <1>1
      <3>3. i # 1 => step[i][f[i - 1]] = f[i - 1] \o seqs[i]
        BY <3>2
      <3> HIDE DEF step
      <3> QED
        BY <3>1, <3>3
    <2>2. f = [i \in 1..N |-> f[i]]
      OBVIOUS
    <2>3. f = [i \in 1..N |-> IF i = 1 THEN seqs[i] ELSE f[i - 1] \o seqs[i]]
      BY <2>1, <2>2, Zenon
    <2> QED
      BY <2>3 DEF N
  <1>7. fl = [i \in 1..Len(seqs) |-> IF i = 1 THEN seqs[i] ELSE fl[i - 1] \o seqs[i]]
    BY <1>6, Zenon DEF fl
  <1> HIDE DEF fl, step
  <1>8. fl = [i \in 1..N |-> fl[i]]
        /\ \A i \in 1..N : fl[i] = IF i = 1 THEN seqs[i] ELSE fl[i - 1] \o seqs[i]
    BY <1>7, Zenon DEF N
  <1>9. fl[1] = seqs[1] /\ \A i \in 2..N : fl[i] = fl[i - 1] \o seqs[i]
    <2>1. fl[1] = seqs[1]
      <3>1. 1 \in 1..N
        BY <1>1
      <3> QED
        BY <1>8, <3>1, Zenon
    <2>2. ASSUME NEW i \in 2..N PROVE fl[i] = fl[i - 1] \o seqs[i]
      <3>1. i \in 1..N /\ i # 1
        BY <1>1
      <3> QED
        BY <1>8, <3>1, Zenon
    <2> QED
      BY <2>1, <2>2
  <1> DEFINE U == {k \in Nat : k + 1 <= N => fl[k + 1] \in S}
  <1>10. 0 \in U
    BY <1>1, <1>9
  <1>11. ASSUME NEW k \in Nat, k \in U PROVE k + 1 \in U
    <2> SUFFICES ASSUME k + 2 <= N PROVE fl[k + 2] \in S
      BY <1>1
    <2>1. k + 2 \in 2..N /\ (k + 2) - 1 = k + 1 /\ k + 2 \in 1..N /\ fl[k + 1] \in S
      BY <1>1, <1>11
    <2>2. fl[k + 2] = fl[(k + 2) - 1] \o seqs[k + 2]
      BY <1>9, <2>1
    <2> QED
      BY <1>1, <1>2, <2>1, <2>2
  <1>12. ASSUME NEW i \in 1..N PROVE fl[i] \in S
    <2>1. i - 1 \in Nat /\ (i - 1) + 1 = i /\ i <= N
      BY <1>1
    <2>2. i - 1 \in U
      <3> HIDE DEF U
      <3> QED
        BY <1>10, <1>11, <2>1, Induction
    <2> QED
      BY <2>1, <2>2
  <1>13. fl \in [1..N -> S]
    BY <1>8, <1>12
  <1> QED
    BY <1>3, <1>9, <1>13 DEF N, S

\* The state of DecodeOid after an octet, and after the octets s.
Take(acc, b) ==
  IF b < 128 THEN [arcs |-> Append(acc.arcs, acc.val * 128 + (b % 128)), val |-> 0]
  ELSE [arcs |-> acc.arcs, val |-> acc.val * 128 + (b % 128)]

\* The table of these states over the octets s.
DecodesBy(read, s) ==
  /\ DOMAIN read = 1..Len(s) /\ read = [n \in 1..Len(s) |-> read[n]]
  /\ read[1] = [arcs |-> <<Head(s) \div 40, Head(s) % 40>>, val |-> 0]
  /\ \A n \in 2..Len(s) : read[n] = Take(read[n - 1], s[n])

\* After the octets s the state of DecodeOid is st.
Decoded(s, st) ==
  s \in Seq(Nat) /\ Len(s) >= 1 /\ \E read : DecodesBy(read, s) /\ read[Len(s)] = st

\* The first octet holds two arcs.
LEMMA DecodedFirst ==
  ASSUME NEW v \in Nat
  PROVE  Decoded(<<v>>, [arcs |-> <<v \div 40, v % 40>>, val |-> 0])
  <1> DEFINE s == <<v>>
             st == [arcs |-> <<v \div 40, v % 40>>, val |-> 0]
             read == [n \in 1..Len(s) |-> st]
  <1>1. s \in Seq(Nat) /\ Len(s) = 1 /\ Head(s) = v
    OBVIOUS
  <1> HIDE DEF s
  <1>2. st = [arcs |-> <<Head(s) \div 40, Head(s) % 40>>, val |-> 0]
    BY <1>1
  <1> HIDE DEF st
  <1>3. DecodesBy(read, s) /\ read[Len(s)] = st
    <2>1. 2..Len(s) = {} /\ 1 \in 1..Len(s)
      BY <1>1
    <2>2. read[1] = st /\ read[Len(s)] = st /\ DOMAIN read = 1..Len(s)
      BY <1>1, <2>1
    <2> QED
      BY <1>2, <2>1, <2>2 DEF DecodesBy
  <1>4. Decoded(s, st)
    BY <1>1, <1>3 DEF Decoded
  <1> QED
    BY <1>4 DEF s, st

\* One more octet is one more step.
LEMMA DecodedNext ==
  ASSUME NEW s, NEW st, Decoded(s, st), NEW b \in Nat
  PROVE  Decoded(Append(s, b), Take(st, b))
  <1> DEFINE N == Len(s)
             t == Append(s, b)
             nx == Take(st, b)
  <1>1. s \in Seq(Nat) /\ N \in Nat /\ N >= 1
    BY DEF Decoded
  <1>2. PICK read : DecodesBy(read, s) /\ read[N] = st
    BY DEF Decoded
  <1>3. /\ t \in Seq(Nat) /\ Len(t) = N + 1 /\ t[N + 1] = b /\ Head(t) = Head(s)
        /\ \A n \in 1..N : t[n] = s[n]
    BY <1>1
  <1> HIDE DEF N, t, nx
  <1> DEFINE more == [n \in 1..(N + 1) |-> IF n <= N THEN read[n] ELSE nx]
  <1>4. /\ read[1] = [arcs |-> <<Head(s) \div 40, Head(s) % 40>>, val |-> 0]
        /\ \A n \in 2..N : read[n] = Take(read[n - 1], s[n])
    BY <1>2 DEF DecodesBy, N
  <1>5. more[1] = read[1] /\ more[N] = st /\ more[N + 1] = nx
    BY <1>1, <1>2
  <1>6. ASSUME NEW n \in 2..(N + 1) PROVE more[n] = Take(more[n - 1], t[n])
    <2>1. CASE n = N + 1
      <3>1. n - 1 = N
        BY <1>1, <2>1
      <3> QED
        BY <1>3, <1>5, <2>1, <3>1 DEF nx
    <2>2. CASE n # N + 1
      <3>1. n \in 2..N /\ n \in 1..N /\ n - 1 \in 1..N
        BY <1>1, <2>2
      <3>2. more[n] = read[n] /\ more[n - 1] = read[n - 1]
        BY <1>1, <3>1
      <3> QED
        BY <1>3, <1>4, <3>1, <3>2
    <2> QED
      BY <2>1, <2>2
  <1>7. DOMAIN more = 1..(N + 1) /\ more = [n \in 1..(N + 1) |-> more[n]]
    OBVIOUS
  <1> HIDE DEF more
  <1>8. DecodesBy(more, t) /\ more[Len(t)] = nx
    BY <1>3, <1>4, <1>5, <1>6, <1>7 DEF DecodesBy
  <1>9. Len(t) >= 1
    BY <1>1, <1>3
  <1>10. Decoded(t, nx)
    BY <1>3, <1>8, <1>9 DEF Decoded
  <1> QED
    BY <1>10 DEF t, nx

\* DecodeOid returns the arcs of the last state.
LEMMA DecodedResult ==
  ASSUME NEW s, NEW st, Decoded(s, st)
  PROVE  DecodeOid(s) = st.arcs
  <1> DEFINE first == Head(s)
             read[n \in 1..Len(s)] ==
               IF n = 1 THEN [arcs |-> <<first \div 40, first % 40>>, val |-> 0]
               ELSE LET acc == read[n - 1]
                        v   == acc.val * 128 + (s[n] % 128)
                    IN  IF s[n] < 128
                        THEN [arcs |-> Append(acc.arcs, v), val |-> 0]
                        ELSE [arcs |-> acc.arcs, val |-> v]
             N == Len(s)
  <1>1. N \in Nat /\ N >= 1
    BY DEF Decoded
  <1>2. PICK g : DecodesBy(g, s) /\ g[N] = st
    BY DEF Decoded
  <1>3. DecodeOid(s) = read[N].arcs
    BY DEF DecodeOid
  <1> DEFINE begun == [arcs |-> <<first \div 40, first % 40>>, val |-> 0]
             body(h, n) ==
               IF n = 1 THEN begun
               ELSE LET acc == h[n - 1]
                        v   == acc.val * 128 + (s[n] % 128)
                    IN  IF s[n] < 128
                        THEN [arcs |-> Append(acc.arcs, v), val |-> 0]
                        ELSE [arcs |-> acc.arcs, val |-> v]
  <1>4. \A h, n : body(h, n) = IF n = 1 THEN begun ELSE Take(h[n - 1], s[n])
    BY Zenon DEF Take
  <1>5. \E h : h = [n \in 1..Len(s) |-> body(h, n)]
    <2> HIDE DEF body
    <2>1. ASSUME NEW n \in 1..N PROVE g[n] = body(g, n)
      <3>1. CASE n = 1
        BY <1>2, <1>4, <3>1 DEF DecodesBy
      <3>2. CASE n # 1
        <4>1. n \in 2..Len(s)
          BY <1>1, <3>2
        <4>2. g[n] = Take(g[n - 1], s[n])
          BY <1>2, <4>1 DEF DecodesBy
        <4> QED
          BY <1>4, <3>2, <4>2, Zenon
      <3> QED
        BY <3>1, <3>2
    <2>2. g = [n \in 1..N |-> g[n]]
      BY <1>2, Zenon DEF DecodesBy
    <2>3. g = [n \in 1..N |-> body(g, n)]
      BY <2>1, <2>2, Zenon
    <2> QED
      BY <2>3
  <1>6. read = [n \in 1..Len(s) |-> body(read, n)]
    BY <1>5, Zenon DEF read
  <1> HIDE DEF read, body
  <1>7. \A n \in 1..N : read[n] = IF n = 1 THEN begun ELSE Take(read[n - 1], s[n])
    <2>1. \A n \in 1..N : read[n] = body(read, n)
      BY <1>6, Zenon
    <2> QED
      BY <1>4, <2>1, Zenon
  <1>15. /\ g[1] = begun
         /\ \A n \in 2..N : g[n] = Take(g[n - 1], s[n])
    BY <1>2, Zenon DEF DecodesBy
  <1>8. ASSUME NEW n \in 1..N, n = 1 PROVE read[n] = g[n]
    BY <1>7, <1>8, <1>15, Zenon
  <1>9. ASSUME NEW n \in 1..N, n # 1, read[n - 1] = g[n - 1] PROVE read[n] = g[n]
    <2>1. n \in 2..N
      BY <1>1, <1>9
    <2> QED
      <3>1. read[n] = Take(read[n - 1], s[n])
        BY <1>7, <1>9, Zenon
      <3>2. g[n] = Take(g[n - 1], s[n])
        BY <1>15, <2>1, Zenon
      <3> QED
        BY <1>9, <3>1, <3>2, Zenon
  <1> HIDE DEF N, first
  <1> DEFINE U == {k \in Nat : k + 1 <= N => read[k + 1] = g[k + 1]}
  <1>10. 0 \in U
    BY <1>1, <1>8
  <1>11. ASSUME NEW k \in Nat, k \in U PROVE k + 1 \in U
    <2> SUFFICES ASSUME k + 2 <= N PROVE read[k + 2] = g[k + 2]
      BY <1>1
    <2>1. k + 2 \in 1..N /\ k + 2 # 1 /\ (k + 2) - 1 = k + 1 /\ read[k + 1] = g[k + 1]
      BY <1>1, <1>11
    <2> QED
      BY <1>9, <2>1
  <1>12. N - 1 \in Nat /\ (N - 1) + 1 = N
    BY <1>1
  <1>13. N - 1 \in U
    <2> HIDE DEF U
    <2> QED
      BY <1>10, <1>11, <1>12, Induction
  <1>14. read[N] = g[N]
    BY <1>12, <1>13
  <1> QED
    BY <1>2, <1>3, <1>14

\* Groups of seven bits.
LEMMA SeptetsAre ==
  ASSUME NEW n \in Nat
  PROVE  /\ Septets(n) \in Seq(Nat)
         /\ n < 128 => Septets(n) = <<n>>
         /\ n >= 128 => \E q \in 1..(n - 1), r \in Nat :
              /\ n = q * 128 + r /\ r < 128
              /\ Septets(n) = Append(Septets(q), r)
  <1>1. PICK base \in Nat : base = 128 /\ base >= 2
    OBVIOUS
  <1>2. \A m : Septets(m) = Digits(m, base)
    BY <1>1, Zenon DEF Septets
  <1>3. Digits(n, base) \in Seq(Nat) /\ (n < base => Digits(n, base) = <<n>>)
    BY <1>1, DigitsUnfold
  <1>4. n >= base => \E q \in 1..(n - 1), r \in Nat :
              /\ n = q * base + r /\ r < base
              /\ Digits(n, base) = Append(Digits(q, base), r)
    <2> SUFFICES ASSUME n >= base
                 PROVE  \E q \in 1..(n - 1), r \in Nat :
                          /\ n = q * base + r /\ r < base
                          /\ Digits(n, base) = Append(Digits(q, base), r)
      OBVIOUS
    <2>1. base >= 2
      BY <1>1
    <2>2. PICK q \in 1..(n - 1), r \in 0..(base - 1) :
           /\ n = q * base + r
           /\ Digits(n, base) = Append(Digits(q, base), r)
      BY <2>1, DigitsCut
    <2>3. r \in Nat /\ r < base
      OBVIOUS
    <2> QED
      BY <2>2, <2>3
  <1> QED
    BY <1>1, <1>2, <1>3, <1>4, Zenon

\* All octets of an arc but the last.
Continued(ds) == [k \in DOMAIN ds |-> 128 + ds[k]]

\* One more group, not the last.
LEMMA ContinuedAppend ==
  ASSUME NEW ds \in Seq(Nat), NEW r \in Nat
  PROVE  /\ Continued(ds) \in Seq(Nat)
         /\ Continued(Append(ds, r)) = Append(Continued(ds), 128 + r)
  <1> DEFINE c == Continued(ds)
             t == Append(ds, r)
             d == Continued(t)
             e == Append(c, 128 + r)
  <1>1. c \in Seq(Nat) /\ Len(c) = Len(ds) /\ \A k \in 1..Len(ds) : c[k] = 128 + ds[k]
    BY SMTT(40) DEF Continued
  <1>2. t \in Seq(Nat) /\ Len(t) = Len(ds) + 1 /\ t[Len(ds) + 1] = r
        /\ \A k \in 1..Len(ds) : t[k] = ds[k]
    OBVIOUS
  <1> HIDE DEF t
  <1>3. d \in Seq(Nat) /\ Len(d) = Len(ds) + 1 /\ \A k \in 1..Len(t) : d[k] = 128 + t[k]
    BY <1>2 DEF Continued
  <1> HIDE DEF c, d
  <1>4. /\ e \in Seq(Nat) /\ Len(e) = Len(ds) + 1 /\ e[Len(ds) + 1] = 128 + r
        /\ \A k \in 1..Len(ds) : e[k] = c[k]
    BY <1>1
  <1> HIDE DEF e
  <1>5. \A k \in 1..(Len(ds) + 1) : d[k] = e[k]
    <2> SUFFICES ASSUME NEW k \in 1..(Len(ds) + 1) PROVE d[k] = e[k]
      OBVIOUS
    <2>1. Len(ds) \in Nat
      OBVIOUS
    <2>2. CASE k = Len(ds) + 1
      BY <1>2, <1>3, <1>4, <2>1, <2>2
    <2>3. CASE k # Len(ds) + 1
      <3>1. k \in 1..Len(ds)
        BY <2>1, <2>3
      <3> QED
        BY <1>1, <1>2, <1>3, <1>4, <3>1
    <2> QED
      BY <2>2, <2>3
  <1>6. d = e
    BY <1>3, <1>4, <1>5, SeqEqual
  <1> QED
    BY <1>1, <1>6 DEF c, d, e, t

\* Concatenation and Append commute.
LEMMA AppendConcat ==
  ASSUME NEW S, NEW s \in Seq(S), NEW c \in Seq(S), NEW x \in S
  PROVE  s \o Append(c, x) = Append(s \o c, x)
  <1> DEFINE a == s \o Append(c, x)
             b == Append(s \o c, x)
  <1>1. a \in Seq(S) /\ Len(a) = Len(s) + Len(c) + 1
    OBVIOUS
  <1>2. b \in Seq(S) /\ Len(b) = Len(s) + Len(c) + 1
    OBVIOUS
  <1>3. \A i \in 1..(Len(s) + Len(c) + 1) : a[i] = b[i]
    OBVIOUS
  <1> HIDE DEF a, b
  <1>4. a = b
    BY <1>1, <1>2, <1>3, SeqEqual
  <1> QED
    BY <1>4 DEF a, b

\* The continued groups of q leave q to be carried on.
LEMMA DecodedContinued ==
  ASSUME NEW s, NEW A \in Seq(Nat), Decoded(s, [arcs |-> A, val |-> 0]), NEW q \in Nat
  PROVE  Decoded(s \o Continued(Septets(q)), [arcs |-> A, val |-> q])
  <1> DEFINE Right(m) == Decoded(s \o Continued(Septets(m)), [arcs |-> A, val |-> m])
             U == {k \in Nat : \A m \in 0..k : Right(m)}
  <1>0. s \in Seq(Nat)
    BY DEF Decoded
  <1>1. ASSUME NEW m \in Nat, m < 128 PROVE Right(m)
    <2> DEFINE e == << >>
    <2>1. Septets(m) = <<m>> /\ e \in Seq(Nat) /\ Append(e, m) = <<m>>
      BY <1>1, SeptetsAre
    <2>2. Continued(e) = e
      BY DEF Continued
    <2>3. s \o e = s
      BY <1>0
    <2> HIDE DEF e
    <2>4. Continued(Append(e, m)) = Append(e, 128 + m)
      BY <2>1, <2>2, ContinuedAppend, ZenonT(40)
    <2>5. s \o Append(e, 128 + m) = Append(s \o e, 128 + m)
      BY <1>0, <2>1, AppendConcat, SMTT(40)
    <2>6. s \o Continued(Septets(m)) = Append(s, 128 + m)
      BY <2>1, <2>3, <2>4, <2>5, Zenon
    <2>7. Take([arcs |-> A, val |-> 0], 128 + m) = [arcs |-> A, val |-> m]
      <3>1. ~(128 + m < 128) /\ 0 * 128 + ((128 + m) % 128) = m
        BY <1>1
      <3>2. [arcs |-> A, val |-> 0].arcs = A /\ [arcs |-> A, val |-> 0].val = 0
        OBVIOUS
      <3> QED
        BY <3>1, <3>2 DEF Take
    <2>8. Decoded(Append(s, 128 + m), Take([arcs |-> A, val |-> 0], 128 + m))
      BY DecodedNext
    <2> QED
      BY <2>6, <2>7, <2>8
  <1>2. ASSUME NEW m \in Nat, m >= 128, \A k \in 0..(m - 1) : Right(k) PROVE Right(m)
    <2>1. PICK h \in 1..(m - 1), r \in Nat :
              /\ m = h * 128 + r /\ r < 128
              /\ Septets(m) = Append(Septets(h), r)
      BY <1>2, SeptetsAre
    <2>2. Right(h)
      BY <1>2
    <2> DEFINE ds == Septets(h)
               c == Continued(ds)
    <2>3. ds \in Seq(Nat)
      BY SeptetsAre
    <2>4. Septets(m) = Append(ds, r) /\ Decoded(s \o c, [arcs |-> A, val |-> h])
      BY <2>1, <2>2
    <2> HIDE DEF ds
    <2>5. c \in Seq(Nat) /\ Continued(Append(ds, r)) = Append(c, 128 + r)
      BY <2>3, ContinuedAppend
    <2> HIDE DEF c
    <2>6. s \o Continued(Septets(m)) = Append(s \o c, 128 + r)
      <3>1. s \o Append(c, 128 + r) = Append(s \o c, 128 + r)
        <4>1. 128 + r \in Nat
          OBVIOUS
        <4> QED
          BY <1>0, <2>5, <4>1, AppendConcat, SMTT(40)
      <3> QED
        BY <2>4, <2>5, <3>1, Zenon
    <2>7. Take([arcs |-> A, val |-> h], 128 + r) = [arcs |-> A, val |-> m]
      <3>1. ~(128 + r < 128) /\ h * 128 + ((128 + r) % 128) = m
        <4>1. r \in Nat /\ r < 128 /\ m = h * 128 + r
          BY <2>1
        <4>2. ~(128 + r < 128) /\ (128 + r) % 128 = r
          BY <4>1
        <4> QED
          BY <4>1, <4>2
      <3>2. [arcs |-> A, val |-> h].arcs = A /\ [arcs |-> A, val |-> h].val = h
        OBVIOUS
      <3> QED
        BY <3>1, <3>2 DEF Take
    <2>8. Decoded(Append(s \o c, 128 + r), Take([arcs |-> A, val |-> h], 128 + r))
      <3>1. 128 + r \in Nat
        OBVIOUS
      <3> QED
        BY <2>4, <3>1, DecodedNext
    <2> QED
      BY <2>6, <2>7, <2>8
  <1> HIDE DEF Right
  <1>3. 0 \in U
    BY <1>1
  <1>4. ASSUME NEW k \in Nat, k \in U PROVE k + 1 \in U
    <2>1. Right(k + 1)
      <3>1. CASE k + 1 < 128
        BY <1>1, <3>1
      <3>2. CASE k + 1 >= 128
        BY <1>2, <1>4, <3>2
      <3> QED
        BY <3>1, <3>2
    <2> QED
      BY <1>4, <2>1
  <1>5. q \in U
    <2> HIDE DEF U
    <2> QED
      BY <1>3, <1>4, Induction
  <1> QED
    BY <1>5 DEF Right

\* An arc is its continued groups and the last one.
LEMMA ArcIs ==
  ASSUME NEW v \in Nat
  PROVE  /\ Arc(v) \in Seq(Nat)
         /\ v < 128 => Arc(v) = <<v>>
         /\ v >= 128 => \E q \in Nat, r \in Nat :
              /\ v = q * 128 + r /\ r < 128
              /\ Arc(v) = Append(Continued(Septets(q)), r)
  <1> DEFINE ds == Septets(v)
             a == [k \in DOMAIN ds |-> IF k < Len(ds) THEN 128 + ds[k] ELSE ds[k]]
  <1>1. ds \in Seq(Nat)
    BY SeptetsAre
  <1>2. Arc(v) = a
    BY DEF Arc
  <1>3. ASSUME v < 128 PROVE a = <<v>>
    <2> DEFINE o == <<v>>
    <2>1. ds = o
      BY <1>3, SeptetsAre
    <2>2. o \in Seq(Nat) /\ Len(o) = 1
      OBVIOUS
    <2> HIDE DEF ds, o
    <2>3. DOMAIN o = 1..1 /\ o = [k \in 1..1 |-> o[k]]
      BY <2>2
    <2>4. \A k \in 1..1 : a[k] = o[k]
      <3>1. \A k \in 1..1 : ~(k < Len(o))
        BY <2>2
      <3> QED
        BY <2>1, <2>3, <3>1
    <2>5. a = [k \in 1..1 |-> a[k]]
      BY <2>1, <2>3
    <2> HIDE DEF a
    <2>6. a = o
      BY <2>3, <2>4, <2>5
    <2> QED
      BY <2>6 DEF o
  <1>4. ASSUME v >= 128
        PROVE  \E q \in Nat, r \in Nat :
                 /\ v = q * 128 + r /\ r < 128
                 /\ a = Append(Continued(Septets(q)), r)
    <2>1. PICK q \in 1..(v - 1), r \in Nat :
              /\ v = q * 128 + r /\ r < 128
              /\ Septets(v) = Append(Septets(q), r)
      BY <1>4, SeptetsAre
    <2> DEFINE es == Septets(q)
               c == Continued(es)
               b == Append(c, r)
    <2>2. es \in Seq(Nat)
      BY SeptetsAre
    <2>3. ds = Append(es, r)
      BY <2>1
    <2> HIDE DEF ds, es
    <2>4. c \in Seq(Nat) /\ Len(c) = Len(es) /\ \A k \in 1..Len(es) : c[k] = 128 + es[k]
      BY <2>2, SMTT(40) DEF Continued
    <2> HIDE DEF c
    <2>5. /\ b \in Seq(Nat) /\ Len(b) = Len(es) + 1 /\ b[Len(es) + 1] = r
          /\ \A k \in 1..Len(es) : b[k] = c[k]
      BY <2>4
    <2>6. /\ Len(ds) = Len(es) + 1 /\ ds[Len(es) + 1] = r /\ DOMAIN ds = 1..(Len(es) + 1)
          /\ \A k \in 1..Len(es) : ds[k] = es[k]
      BY <2>2, <2>3
    <2>7. Len(es) \in Nat
      BY <2>2
    <2> HIDE DEF b
    <2>8. ASSUME NEW k \in 1..(Len(es) + 1) PROVE a[k] = b[k] /\ a[k] \in Nat
      <3>1. CASE k = Len(es) + 1
        <4>1. k \in DOMAIN ds /\ ~(k < Len(ds))
          BY <2>6, <2>7, <3>1
        <4> QED
          BY <2>5, <2>6, <3>1, <4>1
      <3>2. CASE k # Len(es) + 1
        <4>1. k \in DOMAIN ds /\ k < Len(ds) /\ k \in 1..Len(es)
          BY <2>6, <2>7, <3>2
        <4>2. a[k] = 128 + es[k] /\ es[k] \in Nat
          BY <2>2, <2>6, <4>1
        <4> QED
          BY <2>4, <2>5, <4>1, <4>2
      <3> QED
        BY <3>1, <3>2
    <2>9. a \in Seq(Nat) /\ Len(a) = Len(es) + 1
      <3>1. DOMAIN a = 1..(Len(es) + 1) /\ a = [k \in 1..(Len(es) + 1) |-> a[k]]
        BY <2>6
      <3> HIDE DEF a
      <3>2. a \in [1..(Len(es) + 1) -> Nat]
        BY <2>8, <3>1
      <3> QED
        BY <2>7, <3>2
    <2> HIDE DEF a
    <2>10. \A k \in 1..(Len(es) + 1) : a[k] = b[k]
      BY <2>8
    <2>11. a = b
      BY <2>5, <2>9, <2>10, SeqEqual
    <2>12. q \in Nat
      OBVIOUS
    <2> QED
      BY <2>1, <2>11, <2>12 DEF b, c, es
  <1>5. a \in Seq(Nat)
    <2>1. ASSUME NEW k \in 1..Len(ds) PROVE ds[k] \in Nat
      BY <1>1
    <2> HIDE DEF ds
    <2> QED
      BY <1>1, <2>1
  <1> HIDE DEF a
  <1> QED
    BY <1>2, <1>3, <1>4, <1>5

\* The octets of an arc append it to what has been read.
LEMMA DecodedArc ==
  ASSUME NEW s, NEW A \in Seq(Nat), Decoded(s, [arcs |-> A, val |-> 0]), NEW v \in Nat
  PROVE  Decoded(s \o Arc(v), [arcs |-> Append(A, v), val |-> 0])
  <1>0. s \in Seq(Nat)
    BY DEF Decoded
  <1>1. CASE v < 128
    <2>1. s \o Arc(v) = Append(s, v)
      <3>1. Arc(v) = <<v>>
        BY <1>1, ArcIs
      <3>2. s \o <<v>> = Append(s, v)
        BY <1>0
      <3> QED
        BY <3>1, <3>2
    <2>2. Take([arcs |-> A, val |-> 0], v) = [arcs |-> Append(A, v), val |-> 0]
      <3>1. v < 128 /\ 0 * 128 + (v % 128) = v
        BY <1>1
      <3>2. [arcs |-> A, val |-> 0].arcs = A /\ [arcs |-> A, val |-> 0].val = 0
        OBVIOUS
      <3> QED
        BY <3>1, <3>2 DEF Take
    <2>3. Decoded(Append(s, v), Take([arcs |-> A, val |-> 0], v))
      BY DecodedNext
    <2> QED
      BY <2>1, <2>2, <2>3
  <1>2. CASE v >= 128
    <2>1. PICK q \in Nat, r \in Nat :
              /\ v = q * 128 + r /\ r < 128
              /\ Arc(v) = Append(Continued(Septets(q)), r)
      BY <1>2, ArcIs
    <2> DEFINE c == Continued(Septets(q))
    <2>2. Decoded(s \o c, [arcs |-> A, val |-> q])
      BY DecodedContinued
    <2>3. c \in Seq(Nat)
      <3>1. Septets(q) \in Seq(Nat)
        BY SeptetsAre
      <3> QED
        BY <3>1, ContinuedAppend
    <2>4. Arc(v) = Append(c, r)
      BY <2>1
    <2> HIDE DEF c
    <2>5. s \o Arc(v) = Append(s \o c, r)
      BY <1>0, <2>3, <2>4, AppendConcat, SMTT(40)
    <2>6. Take([arcs |-> A, val |-> q], r) = [arcs |-> Append(A, v), val |-> 0]
      <3>1. r < 128 /\ q * 128 + (r % 128) = v
        <4>1. r % 128 = r
          BY <2>1
        <4> QED
          BY <2>1, <4>1
      <3>2. [arcs |-> A, val |-> q].arcs = A /\ [arcs |-> A, val |-> q].val = q
        OBVIOUS
      <3> QED
        BY <3>1, <3>2 DEF Take
    <2>7. Decoded(Append(s \o c, r), Take([arcs |-> A, val |-> q], r))
      BY <2>2, DecodedNext
    <2> QED
      BY <2>5, <2>6, <2>7
  <1> QED
    BY <1>1, <1>2

\* An object identifier is read back arc by arc.
LEMMA OidReadsBack ==
  ASSUME NEW oid \in Seq(Nat), Len(oid) >= 2, oid[2] < 40
  PROVE  DecodeOid(DerOid(oid)) = oid
  <1> DEFINE M == Len(oid) - 2
             first == oid[1] * 40 + oid[2]
             s == <<first>>
             seqs == [k \in 1..(Len(oid) - 2) |-> Arc(oid[k + 2])]
             begun == <<oid[1], oid[2]>>
  <1>1. M \in Nat /\ Len(oid) = M + 2 /\ \A j \in 1..(M + 2) : oid[j] \in Nat
    OBVIOUS
  <1>2. oid[1] \in Nat /\ oid[2] \in Nat
    <2>1. 1 \in 1..(M + 2) /\ 2 \in 1..(M + 2)
      BY <1>1
    <2> QED
      BY <1>1, <2>1
  <1>3. DerOid(oid) = s \o FlattenSeq(seqs)
    BY DEF DerOid
  <1>4. first \in Nat /\ first \div 40 = oid[1] /\ first % 40 = oid[2]
    <2> DEFINE a == oid[1]
               b == oid[2]
    <2>1. a \in Nat /\ b \in Nat /\ b < 40
      BY <1>2
    <2> HIDE DEF a, b
    <2>2. a * 40 + b \in Nat /\ (a * 40 + b) \div 40 = a /\ (a * 40 + b) % 40 = b
      BY <2>1
    <2> QED
      BY <2>2 DEF a, b
  <1> HIDE DEF M, first
  <1>5. Decoded(s, [arcs |-> begun, val |-> 0]) /\ s \in Seq(Nat)
    <2>1. Decoded(<<first>>, [arcs |-> <<first \div 40, first % 40>>, val |-> 0])
      BY <1>4, DecodedFirst
    <2>2. <<first \div 40, first % 40>> = begun
      BY <1>4
    <2>3. s \in Seq(Nat)
      BY <1>4
    <2> HIDE DEF begun
    <2> QED
      BY <2>1, <2>2, <2>3, Zenon
  <1>6. begun \in Seq(Nat) /\ Len(begun) = 2 /\ begun[1] = oid[1] /\ begun[2] = oid[2]
    BY <1>2
  <1> HIDE DEF s, begun
  <1>9. seqs \in Seq(Seq(Nat)) /\ Len(seqs) = M /\ \A k \in 1..M : seqs[k] = Arc(oid[k + 2])
    <2>1. ASSUME NEW k \in 1..M PROVE Arc(oid[k + 2]) \in Seq(Nat)
      <3>1. oid[k + 2] \in Nat
        BY <1>1
      <3> QED
        BY <3>1, ArcIs
    <2>2. Len(oid) - 2 = M
      BY <1>1
    <2> QED
      BY <1>1, <2>1, <2>2
  <1> HIDE DEF seqs
  <1>7. CASE M = 0
    <2>1. seqs = << >>
      BY <1>7, <1>9, EmptySeq
    <2>2. FlattenSeq(seqs) = << >>
      BY <2>1 DEF FlattenSeq
    <2>3. DerOid(oid) = s
      <3>1. s \o << >> = s
        BY <1>5
      <3> QED
        BY <1>3, <2>2, <3>1
    <2>4. [arcs |-> begun, val |-> 0].arcs = begun
      OBVIOUS
    <2>5. begun = oid
      <3>1. Len(oid) = 2 /\ \A j \in 1..2 : begun[j] = oid[j]
        BY <1>1, <1>6, <1>7
      <3> QED
        BY <1>6, <3>1, SeqEqual
    <2> QED
      BY <1>5, <2>3, <2>4, <2>5, DecodedResult
  <1>8. CASE M >= 1
    <2>1. seqs \in Seq(Seq(Nat)) /\ Len(seqs) = M /\ \A k \in 1..M : seqs[k] = Arc(oid[k + 2])
      BY <1>9
    <2>2. PICK fl \in [1..Len(seqs) -> Seq(Nat)] :
           /\ fl[1] = seqs[1]
           /\ \A i \in 2..Len(seqs) : fl[i] = fl[i - 1] \o seqs[i]
           /\ FlattenSeq(seqs) = fl[Len(seqs)]
      BY <1>8, <2>1, FlattenLoop
    <2> DEFINE Right(A, n) ==
                 /\ A \in Seq(Nat) /\ Len(A) = n + 2 /\ \A j \in 1..(n + 2) : A[j] = oid[j]
                 /\ Decoded(s \o fl[n], [arcs |-> A, val |-> 0])
               U == {k \in Nat : k + 1 <= M => \E A : Right(A, k + 1)}
    <2>3. ASSUME NEW A \in Seq(Nat), NEW n \in Nat, n < M, NEW d,
                 Len(A) = n + 2, \A j \in 1..(n + 2) : A[j] = oid[j],
                 Decoded(d, [arcs |-> A, val |-> 0]),
                 s \o fl[n + 1] = d \o seqs[n + 1]
          PROVE  \E B : Right(B, n + 1)
      <3> DEFINE v == oid[n + 3]
                 B == Append(A, v)
      <3>1. v \in Nat /\ seqs[n + 1] = Arc(v)
        <4>1. n + 3 \in 1..(M + 2) /\ n + 1 \in 1..M /\ (n + 1) + 2 = n + 3
          BY <1>1, <2>3
        <4>2. oid[n + 3] \in Nat
          BY <1>1, <4>1
        <4> QED
          BY <2>1, <4>1, <4>2
      <3>2. v = oid[n + 3]
        OBVIOUS
      <3> HIDE DEF v
      <3>3. Decoded(d \o Arc(v), [arcs |-> B, val |-> 0])
        BY <2>3, <3>1, DecodedArc
      <3>4. B \in Seq(Nat) /\ Len(B) = (n + 1) + 2 /\ \A j \in 1..((n + 1) + 2) : B[j] = oid[j]
        <4>1. B \in Seq(Nat) /\ Len(B) = n + 3 /\ B[n + 3] = v /\ \A j \in 1..(n + 2) : B[j] = A[j]
          <5>1. /\ B \in Seq(Nat) /\ Len(B) = Len(A) + 1 /\ B[Len(A) + 1] = v
                /\ \A j \in 1..Len(A) : B[j] = A[j]
            BY <3>1
          <5>2. Len(A) = n + 2 /\ Len(A) + 1 = n + 3
            BY <2>3
          <5> HIDE DEF B
          <5> QED
            BY <5>1, <5>2
        <4>2. (n + 1) + 2 = n + 3 /\ \A j \in 1..(n + 3) : j = n + 3 \/ j \in 1..(n + 2)
          OBVIOUS
        <4> HIDE DEF B
        <4>3. \A j \in 1..(n + 3) : B[j] = oid[j]
          BY <2>3, <3>2, <4>1, <4>2
        <4> QED
          BY <4>1, <4>2, <4>3, Zenon
      <3> HIDE DEF B
      <3>5. Decoded(s \o fl[n + 1], [arcs |-> B, val |-> 0])
        BY <2>3, <3>1, <3>3
      <3>6. Right(B, n + 1)
        BY <3>4, <3>5
      <3> QED
        BY <3>6
    <2>4. 0 \in U
      <3>1. 0 \in Nat /\ 0 < M /\ 0 + 1 = 1 /\ 0 + 2 = 2
        BY <1>1, <1>8
      <3>2. \A j \in 1..2 : begun[j] = oid[j]
        BY <1>6
      <3>3. s \o fl[1] = s \o seqs[1]
        BY <2>2
      <3> HIDE DEF Right
      <3>4. \E B : Right(B, 0 + 1)
        BY <1>5, <1>6, <2>3, <3>1, <3>2, <3>3
      <3> QED
        BY <3>4
    <2>5. ASSUME NEW k \in Nat, k \in U PROVE k + 1 \in U
      <3> HIDE DEF Right
      <3> SUFFICES ASSUME (k + 1) + 1 <= M PROVE \E B : Right(B, (k + 1) + 1)
        OBVIOUS
      <3>0. k + 1 <= M
        BY <1>1
      <3>1. PICK A : Right(A, k + 1)
        BY <2>5, <3>0
      <3> USE DEF Right
      <3> DEFINE n == k + 1
      <3>2. n \in Nat /\ n < M /\ n + 1 \in 2..M /\ n \in 1..M /\ (n + 1) - 1 = n
        BY <1>1
      <3> HIDE DEF n
      <3>3. fl[n + 1] = fl[n] \o seqs[n + 1]
        BY <2>1, <2>2, <3>2
      <3>4. fl[n] \in Seq(Nat) /\ seqs[n + 1] \in Seq(Nat)
        <4>1. n + 1 \in 1..M
          BY <3>2
        <4>2. fl[n] \in Seq(Nat)
          BY <2>1, <2>2, <3>2
        <4>3. seqs[n + 1] \in Seq(Nat)
          BY <2>1, <4>1
        <4> QED
          BY <4>2, <4>3
      <3>5. s \o fl[n + 1] = (s \o fl[n]) \o seqs[n + 1]
        <4> DEFINE x == fl[n]
                   y == seqs[n + 1]
        <4>1. s \in Seq(Nat) /\ x \in Seq(Nat) /\ y \in Seq(Nat)
          BY <1>5, <3>4
        <4> HIDE DEF x, y
        <4>2. (s \o x) \o y = s \o (x \o y)
          BY <4>1, ConcatNat, ZenonT(40)
        <4> QED
          BY <3>3, <4>2 DEF x, y
      <3>6. Right(A, n)
        BY <3>1 DEF n
      <3>7. \E B : Right(B, n + 1)
        BY <2>3, <3>2, <3>5, <3>6
      <3> QED
        BY <3>7 DEF n
    <2>6. M - 1 \in Nat /\ (M - 1) + 1 = M
      BY <1>1, <1>8
    <2>7. M - 1 \in U
      <3> HIDE DEF U
      <3> QED
        BY <2>4, <2>5, <2>6, Induction
    <2>8. PICK A : Right(A, M)
      <3> HIDE DEF Right
      <3> QED
        BY <2>6, <2>7
    <2>9. A = oid
      BY <1>1, <2>8, SeqEqual
    <2>10. DerOid(oid) = s \o fl[M]
      BY <1>3, <2>1, <2>2
    <2>11. DecodeOid(s \o fl[M]) = [arcs |-> A, val |-> 0].arcs
      BY <2>8, DecodedResult
    <2> QED
      BY <2>9, <2>10, <2>11
  <1> QED
    BY <1>1, <1>7, <1>8

=============================================================================

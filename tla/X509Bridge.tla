------------------------------- MODULE X509Bridge -------------------------------
(***************************************************************************)
(* The bridge from the X.509 carrier (ts/x509_bridge.ts): the AIC          *)
(* certificate extension is parsed, its delegation is verified over the    *)
(* reconstructed DelegationAuthTBS, and its fields become JWT claims.      *)
(*                                                                         *)
(* A DER element is a pair <<tag, value>>, the value of a constructed one  *)
(* the sequence of its elements (DerCodec has the octets).  A default is   *)
(* encoded by leaving the element out.  NoOid and NoParams stand for an    *)
(* absent hash algorithm and for absent or empty parameters, which are     *)
(* encoded alike; any other name of octets is of at least one.  The parser *)
(* is given what the encoder wrote: its errors for a missing required      *)
(* element do not occur.                                                   *)
(***************************************************************************)
EXTENDS Integers, SequencesExt

CONSTANTS
  NoOid, NoParams, Sha256, OidAIC,
  HashAlgs     \* the hash algorithms the claims have a name for

\* Object identifiers and octets are names.
X509Capability   == [scheme: STRING, id: STRING, params: STRING \cup {NoParams}]
X509PrincipalUid == [realm: STRING, id: STRING, keyHash: STRING,
                     hashAlgo: STRING \cup {NoOid}]
X509Authorization ==
  [code: STRING, desc: STRING, lifetime: Nat, ts: Nat, nonce: STRING,
   sigAlg: STRING \cup {NoOid}, sig: Seq(STRING)]
X509ExtField     == [id: STRING, critical: BOOLEAN, value: STRING]
X509AIC ==
  [version: Nat, agentId: STRING, uid: X509PrincipalUid,
   caps: Seq(X509Capability), mode: Nat, constraints: Seq(X509Capability),
   auth: X509Authorization, extensions: Seq(X509ExtField)]

Num(n)    == <<"int", n>>
Utf8(s)   == <<"utf8", s>>
Octet(b)  == <<"octet", b>>
Oid(o)    == <<"oid", o>>
Time(t)   == <<"time", t>>
Utc(t)    == <<"utc", t>>
BitStr(b) == <<"bits", b>>
Bool(b)   == <<"bool", b>>
Seqn(kids)   == <<"seq", kids>>
Ctx0(kid) == <<"ctx0", <<kid>>>>
Ctx1(kid) == <<"ctx1", <<kid>>>>
Ctx3(kid) == <<"ctx3", <<kid>>>>

Optional(present, el) == IF present THEN <<el>> ELSE <<>>
IsAt(f, i, tag)       == i \in DOMAIN f /\ f[i][1] = tag
ValueOr(f, i, tag, d) == IF IsAt(f, i, tag) THEN f[i][2] ELSE d

-----------------------------------------------------------------------------
(* Encoding.                                                               *)

EncodePrincipalUid(uid) ==
  Seqn(<<Utf8(uid.realm), Utf8(uid.id), Octet(uid.keyHash),
         Ctx0(Seqn(<<Oid(IF uid.hashAlgo = NoOid THEN Sha256
                         ELSE uid.hashAlgo)>>))>>)

EncodeCapability(c) ==
  Seqn(<<Utf8(c.scheme), Utf8(c.id)>> \o
       Optional(c.params # NoParams, Ctx0(Octet(c.params))))

EncodeCapabilities(caps) ==
  Seqn([n \in DOMAIN caps |-> EncodeCapability(caps[n])])

EncodeReason(auth) == Seqn(<<Utf8(auth.code), Utf8(auth.desc)>>)

\* Mutant: the constraints are not part of what is signed.
EncodeTBSUnconstrained(a) ==
  Seqn(Optional(a.version # 1, Num(a.version)) \o
       <<Utf8(a.agentId), EncodePrincipalUid(a.uid), EncodeReason(a.auth),
         EncodeCapabilities(a.caps)>> \o
       Optional(a.mode # 0, Num(a.mode)) \o
       Optional(a.auth.lifetime # 0, Num(a.auth.lifetime)) \o
       <<Time(a.auth.ts), Octet(a.auth.nonce)>>)

\* DelegationAuthTBS, what the principal signs.
EncodeTBS(a) ==
  Seqn(Optional(a.version # 1, Num(a.version)) \o
       <<Utf8(a.agentId), EncodePrincipalUid(a.uid), EncodeReason(a.auth),
         EncodeCapabilities(a.caps)>> \o
       Optional(a.mode # 0, Num(a.mode)) \o
       Optional(a.constraints # <<>>,
                Ctx0(EncodeCapabilities(a.constraints))) \o
       Optional(a.auth.lifetime # 0, Num(a.auth.lifetime)) \o
       <<Time(a.auth.ts), Octet(a.auth.nonce)>>)

EncodeAuthorization(auth) ==
  Seqn(<<EncodeReason(auth)>> \o
       Optional(auth.lifetime # 0, Num(auth.lifetime)) \o
       <<Time(auth.ts), Octet(auth.nonce)>> \o
       Optional(auth.sigAlg # NoOid, Seqn(<<Oid(auth.sigAlg)>>)) \o
       Optional(auth.sig # <<>>, Octet(auth.sig)))

EncodeExtension(e) ==
  Seqn(<<Oid(e.id)>> \o Optional(e.critical, Bool(TRUE)) \o <<Octet(e.value)>>)

EncodeAIC(a) ==
  Seqn(Optional(a.version # 1, Num(a.version)) \o
       <<Utf8(a.agentId), EncodePrincipalUid(a.uid),
         EncodeCapabilities(a.caps)>> \o
       Optional(a.mode # 0, Num(a.mode)) \o
       Optional(a.constraints # <<>>,
                Ctx0(EncodeCapabilities(a.constraints))) \o
       <<EncodeAuthorization(a.auth)>> \o
       Optional(a.extensions # <<>>,
                Ctx1(Seqn([n \in DOMAIN a.extensions |->
                             EncodeExtension(a.extensions[n])]))))

\* A certificate around the extension; its other fields are fixed, apart from
\* the key.
BuildAICCertificate(a, spki) ==
  LET ext == Seqn(<<Oid(OidAIC), Octet(EncodeAIC(a))>>)
      alg == Seqn(<<Oid("ecdsa-sha256")>>)
      tbs == Seqn(<<Ctx0(Num(2)), Num(1), alg, Seqn(<<>>),
                    Seqn(<<Utc("260101000000Z"), Utc("270101000000Z")>>),
                    Seqn(<<>>), Seqn(<<alg, BitStr(spki)>>),
                    Ctx3(Seqn(<<ext>>))>>)
  IN  Seqn(<<tbs, Seqn(<<alg, BitStr(<<0>>)>>)>>)

-----------------------------------------------------------------------------
(* Parsing.                                                                *)

ParsePrincipalUid(f) ==
  LET i == IF IsAt(f, 1, "int") THEN 2 ELSE 1
  IN  [realm |-> f[i][2], id |-> f[i + 1][2], keyHash |-> f[i + 2][2],
       hashAlgo |-> IF IsAt(f, i + 3, "ctx0") THEN f[i + 3][2][1][2][1][2]
                    ELSE NoOid]

ParseCapabilities(els) ==
  [n \in DOMAIN els |->
     LET f == els[n][2]
     IN  [scheme |-> f[1][2], id |-> f[2][2],
          params |-> IF IsAt(f, 3, "ctx0") THEN f[3][2][1][2] ELSE NoParams]]

ParseAuthorization(f) ==
  LET i == IF IsAt(f, 2, "int") THEN 3 ELSE 2
      j == IF IsAt(f, i + 2, "seq") THEN i + 3 ELSE i + 2
  IN  [code |-> f[1][2][1][2], desc |-> f[1][2][2][2],
       lifetime |-> ValueOr(f, 2, "int", 0),
       ts |-> f[i][2], nonce |-> f[i + 1][2],
       sigAlg |-> IF j = i + 3 THEN f[i + 2][2][1][2] ELSE NoOid,
       sig |-> IF j \in DOMAIN f THEN f[j][2] ELSE <<>>]

ParseExtension(f) ==
  [id |-> f[1][2], critical |-> \E n \in DOMAIN f : f[n] = Bool(TRUE),
   value |-> f[Len(f)][2]]

\* Mutant: the optional fields are taken by their place, not by their tag.
ParseAICByPlace(root) ==
  LET f  == root[2]
      i0 == IF IsAt(f, 1, "int") THEN 2 ELSE 1
      i1 == i0 + 3
      i2 == i1 + 1
      i3 == IF IsAt(f, i2, "ctx0") THEN i2 + 1 ELSE i2
  IN  [version |-> ValueOr(f, 1, "int", 1), agentId |-> f[i0][2],
       uid |-> ParsePrincipalUid(f[i0 + 1][2]),
       caps |-> ParseCapabilities(f[i0 + 2][2]),
       mode |-> ValueOr(f, i1, "int", 0),
       constraints |-> IF IsAt(f, i2, "ctx0")
                       THEN ParseCapabilities(f[i2][2][1][2]) ELSE <<>>,
       auth |-> IF IsAt(f, i3, "seq") THEN ParseAuthorization(f[i3][2])
                ELSE ParseAuthorization(f[i1][2]),
       extensions |-> <<>>]

\* An optional field is there when the next element has its tag.
ParseAIC(root) ==
  LET f  == root[2]
      i0 == IF IsAt(f, 1, "int") THEN 2 ELSE 1
      i1 == i0 + 3
      i2 == IF IsAt(f, i1, "int") THEN i1 + 1 ELSE i1
      i3 == IF IsAt(f, i2, "ctx0") THEN i2 + 1 ELSE i2
  IN  [version |-> ValueOr(f, 1, "int", 1), agentId |-> f[i0][2],
       uid |-> ParsePrincipalUid(f[i0 + 1][2]),
       caps |-> ParseCapabilities(f[i0 + 2][2]),
       mode |-> ValueOr(f, i1, "int", 0),
       constraints |-> IF IsAt(f, i2, "ctx0")
                       THEN ParseCapabilities(f[i2][2][1][2]) ELSE <<>>,
       auth |-> ParseAuthorization(f[i3][2]),
       extensions |->
         IF IsAt(f, i3 + 1, "ctx1")
         THEN LET els == f[i3 + 1][2][1][2]
              IN  [n \in DOMAIN els |-> ParseExtension(els[n][2])]
         ELSE <<>>]

\* findAIC: the value of the extension whose id is OidAIC, when there is one.
FindAIC(cert) ==
  LET tbs  == cert[2][1][2]
      exts == IF IsAt(tbs, Len(tbs), "ctx3") THEN tbs[Len(tbs)][2][1][2]
              ELSE <<>>
      hit  == {n \in DOMAIN exts : exts[n][2][1] = Oid(OidAIC)}
  IN  IF hit = {} THEN <<>>
      ELSE LET e == exts[CHOOSE n \in hit : \A m \in hit : m <= n][2]
           IN  <<ParseAIC(e[Len(e)][2])>>

-----------------------------------------------------------------------------
(* Claims.                                                                 *)

Principal(uid) ==
  [realm |-> uid.realm, id |-> uid.id, keyHash |-> uid.keyHash,
   hashAlg |-> IF uid.hashAlgo = NoOid THEN Sha256 ELSE uid.hashAlgo]

\* The extensions as an object: the last one of an id stays.
ExtensionClaims(exts) ==
  [id \in {exts[n].id : n \in DOMAIN exts} |->
     LET e == exts[CHOOSE n \in DOMAIN exts :
                     /\ exts[n].id = id
                     /\ \A m \in DOMAIN exts : exts[m].id = id => m <= n]
     IN  [critical |-> e.critical, der |-> e.value]]

\* The claims of the token and of the DA in it, or none when the hash algorithm
\* has no name.  now and lifetime override the signed values when set (0: not
\* set).
MapToClaims(a, opts) ==
  LET ts        == IF opts.now > 0 THEN opts.now ELSE a.auth.ts
      lifetime  == IF opts.lifetime > 0 THEN opts.lifetime
                   ELSE a.auth.lifetime
      mode      == IF a.mode = 1 THEN "representative" ELSE "authorized"
      owner     == <<a.uid.realm, a.uid.id>>
      principal == Principal(a.uid)
      da ==
        [ver |-> 2, iss |-> owner,
         sub |-> IF mode = "representative" THEN owner ELSE <<a.agentId>>,
         aud |-> opts.audience, agent |-> a.agentId, principal |-> principal,
         reason |-> <<a.auth.code, a.auth.desc>>, caps |-> a.caps,
         mode |-> mode, constraints |-> a.constraints, ts |-> ts, iat |-> ts,
         lifetime |-> lifetime, exp |-> ts + lifetime,
         jti |-> a.auth.nonce, nonce |-> a.auth.nonce]
      outer ==
        [iss |-> "", sub |-> a.agentId, aud |-> opts.audience, iat |-> ts,
         exp |-> ts + lifetime, jti |-> a.auth.nonce, jkt |-> "",
         aic |-> [ver |-> a.version, principal |-> principal, mode |-> mode,
                  caps |-> a.caps, constraints |-> a.constraints,
                  extensions |-> ExtensionClaims(a.extensions)]]
  IN  IF principal.hashAlg \in HashAlgs THEN <<[da |-> da, outer |-> outer]>>
      ELSE <<>>

\* The signature is the pair of the signer's key and what was signed.
Sign(a, key) == [a EXCEPT !.auth.sig = <<key, EncodeTBS(a)>>]

VerifyDelegation(a, key) == a.auth.sig = <<key, EncodeTBS(a)>>
=============================================================================

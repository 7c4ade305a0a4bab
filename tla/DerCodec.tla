-------------------------------- MODULE DerCodec --------------------------------
(***************************************************************************)
(* The octets of the DER codec (ts/asn1.ts, and the ECDSA signature forms  *)
(* of ts/x509_bridge.ts): lengths, integers and object identifiers.  An    *)
(* octet string is a sequence of numbers below 256.                        *)
(***************************************************************************)
EXTENDS Integers, SequencesExt

SEQUENCE == 48
INTEGER  == 2

\* The big-endian digits of n, at least one.
Digits(n, base) ==
  LET ds[m \in Nat] ==
        IF m < base THEN <<m>> ELSE Append(ds[m \div base], m % base)
  IN  ds[n]

Value(ds, base) ==
  LET v[n \in 0..Len(ds)] == IF n = 0 THEN 0 ELSE v[n - 1] * base + ds[n]
  IN  v[Len(ds)]

\* A number as octets and back, and a number in groups of seven bits.
Bytes(n)   == Digits(n, 256)
Number(bs) == Value(bs, 256)
Septets(n) == Digits(n, 128)

-----------------------------------------------------------------------------
(* Writing.                                                                *)

DerLen(n) ==
  IF n < 128 THEN <<n>>
  ELSE <<128 + Len(Bytes(n))>> \o Bytes(n)

TL(tag, content) == <<tag>> \o DerLen(Len(content)) \o content

\* Content octets of an INTEGER: positive, so a set top bit gets a zero before.
DerInt(n) ==
  IF Head(Bytes(n)) >= 128 THEN <<0>> \o Bytes(n) ELSE Bytes(n)

\* Mutant: an arc of zero is written as nothing.
ArcSkippingZero(v) ==
  IF v = 0 THEN <<>>
  ELSE LET ds == Septets(v)
       IN  [k \in DOMAIN ds |-> IF k < Len(ds) THEN 128 + ds[k] ELSE ds[k]]

\* Base 128; every octet but the last carries the continuation bit.
Arc(v) ==
  LET ds == Septets(v)
  IN  [k \in DOMAIN ds |-> IF k < Len(ds) THEN 128 + ds[k] ELSE ds[k]]

\* Content octets of an OBJECT IDENTIFIER; the first two arcs share one.
DerOid(oid) ==
  <<oid[1] * 40 + oid[2]>> \o
  FlattenSeq([k \in 1..(Len(oid) - 2) |-> Arc(oid[k + 2])])

-----------------------------------------------------------------------------
(* Reading.                                                                *)

Failed == [ok |-> FALSE, tag |-> 0, content |-> <<>>, next |-> 0]

\* The element at offset off (from 1) and the offset past it.  A length of up
\* to three octets stands for itself; four octets are read into a signed
\* 32-bit number and occur in no message of the sizes modelled here.  Octets
\* past the end read as zero, and what they are the length of overruns.
ReadElement(buf, off) ==
  IF off + 1 > Len(buf) THEN Failed
  ELSE LET l    == buf[off + 1]
           n    == IF l >= 128 THEN l - 128 ELSE 0
           len  == IF l < 128 THEN l
                   ELSE Number(SubSeq(buf, off + 2, off + 1 + n))
           from == off + 2 + n
       IN  IF \/ l = 128 \/ n > 4 \/ from - 1 > Len(buf)
              \/ from - 1 + len > Len(buf) THEN Failed
           ELSE [ok |-> TRUE, tag |-> buf[off],
                 content |-> SubSeq(buf, from, from - 1 + len),
                 next |-> from + len]

\* All elements of the content of a constructed element, or a failure.
DerChildren(content) ==
  LET from[off \in 1..(Len(content) + 1)] ==
        IF off > Len(content) THEN [ok |-> TRUE, els |-> <<>>]
        ELSE LET e == ReadElement(content, off)
             IN  IF ~e.ok THEN [ok |-> FALSE, els |-> <<>>]
                 ELSE LET rest == from[e.next]
                      IN  [ok |-> rest.ok, els |-> <<e>> \o rest.els]
  IN  from[1]

DerIntValue(content) == Number(content)

DecodeOid(content) ==
  LET first == Head(content)
      read[n \in 1..Len(content)] ==
        IF n = 1 THEN [arcs |-> <<first \div 40, first % 40>>, val |-> 0]
        ELSE LET acc == read[n - 1]
                 v   == acc.val * 128 + (content[n] % 128)
             IN  IF content[n] < 128
                 THEN [arcs |-> Append(acc.arcs, v), val |-> 0]
                 ELSE [arcs |-> acc.arcs, val |-> v]
  IN  read[Len(content)].arcs

-----------------------------------------------------------------------------
(* Signatures: r and s in an X.509 carrier, r||s for WebCrypto.            *)

StripLeadZero(b) ==
  LET lead == {i \in 0..(Len(b) - 1) : \A j \in 1..i : b[j] = 0}
  IN  SubSeq(b, 1 + (CHOOSE i \in lead : \A j \in lead : j <= i), Len(b))

PadTo(b, n) == [i \in 1..(n - Len(b)) |-> 0] \o b

\* Mutant: the two halves are joined without padding.
JoinUnpadded(r, s) == r \o s

\* Both halves get the length of the longer one, whatever the curve.
Join(r, s) ==
  LET n == IF Len(r) > Len(s) THEN Len(r) ELSE Len(s)
  IN  PadTo(r, n) \o PadTo(s, n)

\* No octets: derToRawECDSA has thrown.
Thrown == <<-1>>

\* ints: what the content of the SEQUENCE reads as; a failure is not caught.
RawOf(sig, ints) ==
  CASE ~ints.ok -> Thrown
    [] /\ ints.ok /\ Len(ints.els) = 2
       /\ ints.els[1].tag = INTEGER /\ ints.els[2].tag = INTEGER ->
         Join(StripLeadZero(ints.els[1].content),
              StripLeadZero(ints.els[2].content))
    [] OTHER -> sig

\* What does not read as one SEQUENCE is taken to be raw already.
FromSequence(sig, top) ==
  IF top.ok /\ Len(top.els) = 1 THEN RawOf(sig, DerChildren(top.els[1].content))
  ELSE sig

DerToRawECDSA(sig) ==
  IF Len(sig) >= 2 /\ sig[1] = SEQUENCE THEN FromSequence(sig, DerChildren(sig))
  ELSE sig
=============================================================================

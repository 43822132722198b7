------------------------------ MODULE X509Fields ------------------------------
(***************************************************************************)
(* The parts of a certificate that parsing puts in order (x509.py): its   *)
(* fields, times, the table of extensions, basic constraints and the       *)
(* parameters of RSASSA-PSS; and the match of a host name with the names   *)
(* in a certificate.  A DER node is a record of its tag and what the       *)
(* parser looks at; a failure is [raised |-> ...].                         *)
(***************************************************************************)
EXTENDS Octets, FiniteSets
LOCAL INSTANCE SequencesExt

SHA1 == 1
Raised(s) == [raised |-> s]
Failed(v) == "raised" \in DOMAIN v
Children(s) == ToSet(s)
ContextTag(number) == 160 + number      \* constructed

-----------------------------------------------------------------------------
(* Extensions: [oid, critical, value], where critical is "absent" or the      *)
(* content of a BOOLEAN, which only "FALSE" and "TRUE" have in DER.           *)

\* Mutant: an extension may come twice.
RepeatedOidNever(exts, i) == FALSE

RepeatedOid(exts, i) == \E j \in 1 .. i - 1 : exts[j].oid = exts[i].oid

\* _parse_extensions
ParseExtensions(exts) ==
  IF \E i \in 1 .. Len(exts) :
       RepeatedOid(exts, i) \/ exts[i].critical \notin {"absent", "FALSE", "TRUE"}
  THEN Raised("InvalidCertificate")
  ELSE [extensions |-> [i \in 1 .. Len(exts) |->
          [oid |-> exts[i].oid, critical |-> exts[i].critical = "TRUE", value |-> exts[i].value]]]

\* _parse_optional_tail: nodes of a tag and, for extensions, the lists of extensions in them.
ParseTail(tail) ==
  LET last(i) == IF i = 1 THEN 0 ELSE tail[i - 1].tag
      X == {i \in 1 .. Len(tail) : tail[i].tag = ContextTag(3)}
  IN  IF \E i \in 1 .. Len(tail) :
           \/ tail[i].tag \notin {129, 130, ContextTag(3)} \/ tail[i].tag <= last(i)
           \/ i \in X /\ Len(tail[i].children) # 1
      THEN Raised("InvalidCertificate")
      ELSE IF X = {} THEN [extensions |-> <<>>]
      ELSE ParseExtensions(tail[CHOOSE i \in X : TRUE].children[1])

\* What _parse_known_extensions keeps of an extension: the last one with the OID.
KnownExtension(exts, oid) ==
  LET X == {i \in 1 .. Len(exts) : exts[i].oid = oid}
  IN  IF X = {} THEN <<>> ELSE <<exts[CHOOSE i \in X : \A j \in X : j <= i].value>>

\* Certificate.extension: the first one.
Extension(exts, oid) ==
  LET X == {i \in 1 .. Len(exts) : exts[i].oid = oid}
  IN  IF X = {} THEN <<>> ELSE <<exts[CHOOSE i \in X : \A j \in X : i <= j].value>>

\* _parse_basic_constraints: nodes of a tag (1 a BOOLEAN, 2 an INTEGER) and a value.
ParseBasicConstraints(kids) ==
  LET at1 == Len(kids) > 0 /\ kids[1].tag = 1
      pos == IF at1 THEN 2 ELSE 1
      at2 == pos <= Len(kids) /\ kids[pos].tag = 2
  IN  IF Len(kids) > 2 \/ (at1 /\ kids[1].value \notin {0, 255}) THEN Raised("InvalidCertificate")
      ELSE IF at2 /\ kids[pos].value < 0 THEN Raised("InvalidSerialization")
      ELSE IF (IF at2 THEN pos + 1 ELSE pos) # Len(kids) + 1 THEN Raised("InvalidCertificate")
      ELSE [ca |-> at1 /\ kids[1].value = 255, pathLength |-> IF at2 THEN <<kids[pos].value>> ELSE <<>>]

\* _parse_key_usage: the numbers of the bits that are set, the first being the highest bit of
\* the first octet; each has a name.
ParseKeyUsage(unused, payload) ==
  {i \in 0 .. Len(payload) * OctetBits - unused - 1 :
     Bit(payload[i \div OctetBits + 1], OctetBits - 1 - (i % OctetBits)) = 1}

\* _parse_authority_key_id: <<>> stands for None.
ParseAuthorityKeyId(kids) ==
  LET ids == SelectSeq(kids, LAMBDA k : k.tag = 128)
  IN  IF ~(\A k \in Children(kids) : k.tag \in {128, 161, 130}) \/ Len(ids) > 1
      THEN Raised("InvalidCertificate")
      ELSE [keyId |-> IF ids = <<>> THEN <<>> ELSE <<ids[1].value>>]

\* _parse_pss_params: fields of a number and a value; those of 0 and 1 are hashes.
ParsePss(fields) ==
  LET value(number, default) ==
        IF \E i \in 1 .. Len(fields) : fields[i].number = number
        THEN (CHOOSE f \in Children(fields) : f.number = number).value ELSE default
  IN  IF \/ \E i \in 1 .. Len(fields) : fields[i].number \notin 0 .. 3
         \/ \E i, j \in 1 .. Len(fields) : i < j /\ fields[i].number = fields[j].number
         \/ value(3, 1) # 1 \/ value(1, SHA1) # value(0, SHA1)
      THEN Raised("InvalidCertificate")
      ELSE [hash |-> value(0, SHA1), salt |-> value(2, 20)]

-----------------------------------------------------------------------------
(* Times: the tag, a year of two digits or four, the other numbers, an offset *)
(* <<sign, hours, minutes>> or <<>> for Z.  The day of a moment counts from    *)
(* the first of the year 1, in UTC.                                           *)

Leap(year) == year % 4 = 0 /\ (year % 100 # 0 \/ year % 400 = 0)
DaysIn(year, month) ==
  IF month = 2 THEN IF Leap(year) THEN 29 ELSE 28 ELSE IF month \in {4, 6, 9, 11} THEN 30 ELSE 31
DaysBefore(year, month) ==
  LET y == year - 1
      m[k \in 0 .. 11] == IF k = 0 THEN 0 ELSE m[k - 1] + DaysIn(year, k)
  IN  365 * y + y \div 4 - y \div 100 + y \div 400 + m[month - 1]

DateTimeOk(year, t) ==
  /\ year >= 1 /\ t.month \in 1 .. 12 /\ t.day \in 1 .. DaysIn(year, t.month)
  /\ t.hour < 24 /\ t.minute < 60 /\ t.second < 60

YearOf(t) == IF t.tag = "UTCTime" THEN IF t.year < 50 THEN 2000 + t.year ELSE 1900 + t.year ELSE t.year

\* _parse_time; from_der makes InvalidCertificate of the OverflowError of a moment in UTC before
\* the year 1 or after the year 9999.
ParseTime(t) ==
  LET offset == IF t.offset = <<>> THEN 0 ELSE t.offset[1] * (60 * t.offset[2] + t.offset[3])
      minutes == 60 * t.hour + t.minute - offset
      day == DaysBefore(YearOf(t), t.month) + t.day - 1 + minutes \div 1440
  IN  IF \/ t.tag \notin {"UTCTime", "GeneralizedTime"}
         \/ t.offset # <<>> /\ t.offset[2] > 23
         \/ t.offset # <<>> /\ t.offset[3] > 59
         \/ ~DateTimeOk(YearOf(t), t)
         \/ day \notin 0 .. DaysBefore(10000, 1) - 1
      THEN Raised("InvalidCertificate") ELSE [day |-> day, minute |-> minutes % 1440, second |-> t.second]

-----------------------------------------------------------------------------
(* The certificate.  A node has the kind that its parser takes and a value;   *)
(* an algorithm is a record of its family and of its parameters, which are    *)
(* "absent", "NULL" or, well-formed for PSS, "sequence".  What is raised is   *)
(* an exception of the package, whichever.                                    *)

Kinds == <<"serial", "algorithm", "name", "validity", "name", "key">>

\* _parse_tbs
ParseTbs(kids) ==
  LET versioned == Len(kids) > 0 /\ kids[1].kind = "version"
      pos == IF versioned THEN 1 ELSE 0
  IN  IF \/ versioned /\ kids[1].value \notin 0 .. 2
         \/ Len(kids) < pos + 6
         \/ \E i \in 1 .. 6 : i <= Len(kids) - pos /\ kids[pos + i].kind # Kinds[i]
         \/ kids[pos + 1].value <= 0
         \/ Failed(ParseTail(SubSeq(kids, pos + 7, Len(kids))))
      THEN Raised("PureCryptError")
      ELSE [version |-> IF versioned THEN kids[1].value + 1 ELSE 1,
            algorithm |-> kids[pos + 2].value, issuer |-> kids[pos + 3].value,
            subject |-> kids[pos + 5].value]

\* _check_sig_params
SigParamsOk(a) ==
  /\ a.family = "rsa" => a.params \in {"absent", "NULL"}
  /\ a.family \in {"ecdsa", "ed25519"} => a.params = "absent"
  /\ a.family = "pss" => a.params # "absent"

\* _parse_certificate, of the algorithm outside and the children of tbsCertificate.
ParseCertificate(outer, kids) ==
  LET tbs == ParseTbs(kids)
  IN  IF Failed(tbs) THEN tbs
      ELSE IF \/ outer # tbs.algorithm \/ ~SigParamsOk(outer)
              \/ outer.family = "pss" /\ outer.params = "NULL"    \* _parse_pss_params
           THEN Raised("PureCryptError") ELSE tbs

-----------------------------------------------------------------------------
(* Host names: sequences of characters, of which "A" is an upper case "a".    *)

Lower(s) == [i \in 1 .. Len(s) |-> IF s[i] = "A" THEN "a" ELSE s[i]]

\* Mutant: a wildcard stands for labels.
LeftmostDotted(leftmost) == leftmost # <<>>

LeftmostOk(leftmost) == leftmost # <<>> /\ "." \notin ToSet(leftmost)

\* _dns_name_match
DnsNameMatch(pattern, hostname) ==
  LET p == Lower(pattern)
      h == Lower(hostname)
      left == Len(h) - Len(p) + 1
  IN  IF "*" \notin ToSet(p) THEN p = h
      ELSE /\ IsPrefix(<<"*", ".">>, p)
           /\ IsSuffix(Tail(p), h)
           /\ LeftmostOk(SubSeq(h, 1, left))

\* host.rstrip("."), and whether IDNA takes what is left: no label but all of it is empty.
RStrip(s) == LET E == {i \in 0 .. Len(s) : \A j \in i + 1 .. Len(s) : s[j] = "."}
             IN  SubSeq(s, 1, CHOOSE i \in E : \A j \in E : i <= j)
Encodes(s) == \A i \in 1 .. Len(s) : s[i] = "." => i > 1 /\ s[i - 1] # "."

\* verify_hostname: host is of kind "ip" or "dns", san is <<>> for None or <<names>>.
VerifyHostname(cert, host) ==
  LET names == IF cert.san = <<>> THEN {} ELSE cert.san[1]
      patterns == IF cert.san = <<>> THEN cert.cn ELSE {g.value : g \in {g \in names : g.kind = "dns"}}
      label == RStrip(host.value)
  IN  IF host.kind = "ip" THEN host \in names
      ELSE /\ Encodes(label) /\ label # <<>>
           /\ \E p \in patterns : DnsNameMatch(p, label)

-----------------------------------------------------------------------------

\* The labels of a name.
Labels(s) ==
  LET ends == SetToSortSeq({i \in 1 .. Len(s) : s[i] = "."} \cup {Len(s) + 1}, <)
  IN  [k \in 1 .. Len(ends) |->
         SubSeq(s, IF k = 1 THEN 1 ELSE ends[k - 1] + 1, ends[k] - 1)]

\* A name stands for a host if their labels are the same, but for the case and for a first
\* label that is a wildcard and stands for one label, whatever it is.
StandsFor(p, h) ==
  LET P == Labels(Lower(p))
      H == Labels(Lower(h))
  IN  /\ Len(P) = Len(H)
      /\ \A k \in 2 .. Len(P) : P[k] = H[k]
      /\ IF "*" \in ToSet(p) THEN P[1] = <<"*">> /\ Len(P) > 1 ELSE P[1] = H[1]

\* A certificate is for a host exactly if one of its names stands for it, label by label:
\* for a host with dots at the end, empty labels, wildcards in other places and
\* with names of a common name that a SAN hides (x509.py:1161-1203).
HostnameExact(cert, host) ==
  host.kind = "dns" =>
    LET named == IF cert.san = <<>> THEN cert.cn
                 ELSE {g.value : g \in {g \in cert.san[1] : g.kind = "dns"}}
        h == RStrip(host.value)
    IN  VerifyHostname(cert, host) <=>
          /\ \A k \in 1 .. Len(Labels(h)) : Labels(h)[k] # <<>>
          /\ \E p \in named : StandsFor(p, h)

\* Extensions mean the same to path validation, which takes the last one of an OID, as to
\* a caller, who gets the first (x509.py:456-457, 742-746, 947-966).
ExtensionsUnambiguous(tail) ==
  LET t == ParseTail(tail)
  IN  ~Failed(t) => \A i \in 1 .. Len(t.extensions) :
        KnownExtension(t.extensions, t.extensions[i].oid) = Extension(t.extensions, t.extensions[i].oid)

\* The optional fields are taken in their order, each at most once, and in no other.
TailExact(tail) ==
  LET tags == [i \in 1 .. Len(tail) |-> tail[i].tag]
      fits == \E S \in SUBSET {129, 130, 163} : tags = SetToSortSeq(S, <)
  IN  /\ ~fits => Failed(ParseTail(tail))
      /\ fits /\ 163 \notin ToSet(tags) => ParseTail(tail) = [extensions |-> <<>>]

\* A certificate is taken exactly if its fields are those of the standard in their order, with the
\* version and the three fields behind the key present or not, and if both places name one
\* algorithm with the parameters of its family; a name is not taken for the other
\* (x509.py:562-572, 818-825, 852-904).
CertificateExact(outer, kids) ==
  LET c == ParseCertificate(outer, kids)
      body == SelectSeq(kids, LAMBDA k : k.kind \notin {"version", "tail"})
      kinds == [i \in 1 .. Len(kids) |-> kids[i].kind]
      fits == /\ [i \in 1 .. Len(body) |-> body[i].kind] = Kinds
              /\ kinds \in {v \o Kinds \o t : v \in {<<>>, <<"version">>}, t \in {<<>>, <<"tail">>}}
              /\ kinds[1] = "version" => kids[1].value < 3
              /\ body[1].value > 0 /\ body[2].value = outer
              /\ outer.params \in (CASE outer.family = "rsa" -> {"absent", "NULL"}
                                     [] outer.family = "pss" -> {"sequence"}
                                     [] outer.family \in {"ecdsa", "ed25519"} -> {"absent"})
  IN  /\ fits <=> ~Failed(c)
      /\ fits => /\ c.version = (IF kinds[1] = "version" THEN kids[1].value + 1 ELSE 1)
                 /\ c.issuer = body[3].value /\ c.subject = body[5].value

\* A time of two digits of a year means the same as with the one year of 1950 to 2049 that ends
\* so, and it is refused if that is; the moment is later with the clock and earlier with the
\* offset, across the end of a day, a month and a year (x509.py:285-316).
TimeExact(t) ==
  LET m == ParseTime(t)
      full == [t EXCEPT !.tag = "GeneralizedTime",
                        !.year = CHOOSE y \in 1950 .. 2049 : y % 100 = t.year]
      next == [t EXCEPT !.tag = "GeneralizedTime",    \* the next day
                 !.year = IF t.month = 12 /\ t.day = 31 THEN YearOf(t) + 1 ELSE YearOf(t),
                 !.month = IF t.day < DaysIn(YearOf(t), t.month) THEN t.month ELSE (t.month % 12) + 1,
                 !.day = IF t.day < DaysIn(YearOf(t), t.month) THEN t.day + 1 ELSE 1]
      west == [t EXCEPT !.offset = <<-1, 23, 59>>]
      east == [next EXCEPT !.offset = <<1, 0, 1>>]    \* 24 hours of offset and a day more
  IN  /\ t.tag = "UTCTime" => m = ParseTime(full)
      /\ ~Failed(m) /\ ~Failed(ParseTime(next)) => ParseTime(next) = [m EXCEPT !.day = m.day + 1]
      /\ ~Failed(ParseTime(west)) /\ ~Failed(ParseTime(east)) => ParseTime(west) = ParseTime(east)

\* Basic constraints are taken exactly if they are a BOOLEAN, an INTEGER, both in this order
\* or nothing (x509.py:359-374).
ConstraintsExact(kids) ==
  Failed(ParseBasicConstraints(kids)) <=>
    \/ [i \in 1 .. Len(kids) |-> kids[i].tag] \notin {<<>>, <<1>>, <<2>>, <<1, 2>>}
    \/ \E k \in Children(kids) : k.value \notin (IF k.tag = 1 THEN {0, 255} ELSE Nat)

\* The usages of a key are numbered across the octets from the left, and bits that are not used
\* are no usages (x509.py:377-384).
UsagesExact(unused, payload) ==
  LET bits == Len(payload) * OctetBits
  IN  Os2ip(payload) % 2 ^ unused = 0 =>
        ParseKeyUsage(unused, payload) = {i \in 0 .. bits - 1 : Bit(Os2ip(payload), bits - 1 - i) = 1}

\* A key identifier is found wherever the other two fields stand, and it is the only one
\* (x509.py:435-444).
AuthorityUnambiguous(kids) ==
  LET a == ParseAuthorityKeyId(kids)
      places == {i \in 1 .. Len(kids) : kids[i].tag = 128}
  IN  /\ a = ParseAuthorityKeyId(Reverse(kids))
      /\ ~Failed(a) => Cardinality(places) = Len(a.keyId) /\ \A i \in places : <<kids[i].value>> = a.keyId

\* The parameters of PSS mean the same in any order of their fields, and an omitted hash is
\* SHA-1 for the message and for the mask alike (x509.py:528-559).
PssParametersAgree(fields) ==
  LET p == ParsePss(fields)
      hashes == {i \in 1 .. Len(fields) : fields[i].number \in {0, 1}}
  IN  /\ p = ParsePss(Reverse(fields))
      /\ ~Failed(p) => \/ hashes = {} /\ p.hash = SHA1
                       \/ Cardinality(hashes) = 1 /\ \A i \in hashes : fields[i].value = SHA1
                       \/ Cardinality(hashes) = 2 /\ \A i \in hashes : fields[i].value = p.hash
=============================================================================

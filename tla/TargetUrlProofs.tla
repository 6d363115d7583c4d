---------------------------- MODULE TargetUrlProofs ----------------------------
(***************************************************************************)
(* What TLAPS proves of module TargetUrl for any URLs, any bound on their  *)
(* length and any number of subscriptions.                                 *)
(***************************************************************************)
EXTENDS TargetUrl, LeastLemmas, TLAPS, FiniteSetTheorems

-----------------------------------------------------------------------------
(* The rules.                                                               *)

\* All that fromString asks, but for the length.
WellFormed(u) == /\ u.absolute /\ u.https /\ ~u.userinfo
                 /\ ~isPrivateOrReservedHost(u.host)

Verdict(rules) ==
  LET violated == {i \in DOMAIN rules : ~rules[i].holds}
  IN  IF violated = {} THEN "accepted" ELSE rules[Min(violated)].code

\* The verdict is that of a violated rule, if there is one.
LEMMA VerdictIsARule ==
  ASSUME NEW rules, DOMAIN rules \subseteq Nat
  PROVE  \/ Verdict(rules) = "accepted" /\ \A i \in DOMAIN rules : rules[i].holds
         \/ \E i \in DOMAIN rules : ~rules[i].holds /\ Verdict(rules) = rules[i].code
<1> DEFINE violated == {i \in DOMAIN rules : ~rules[i].holds}
<1>1. CASE violated = {}
  BY <1>1 DEF Verdict
<1>2. CASE violated # {}
  <2>1. Min(violated) \in violated
    BY <1>2, MinIsMember
  <2>2. Verdict(rules) = rules[Min(violated)].code
    BY <1>2 DEF Verdict
  <2>3. QED
    BY <2>1, <2>2
<1>3. QED
  BY <1>1, <1>2

\* The rule about hosts is violated where its code is the verdict.
LEMMA FromStringVerdict ==
  ASSUME NEW u
  PROVE  \/ fromString(u) = "accepted" /\ ShortEnough(u) /\ WellFormed(u)
         \/ fromString(u) = "URL_TOO_LONG" /\ ~ShortEnough(u)
         \/ /\ fromString(u) \notin {"accepted", "URL_TOO_LONG"} /\ ~WellFormed(u)
            /\ fromString(u) = "PRIVATE_HOST_NOT_ALLOWED" => isPrivateOrReservedHost(u.host)
<1> DEFINE rules == << [holds |-> ShortEnough(u), code |-> "URL_TOO_LONG"],
                       [holds |-> u.absolute, code |-> "INVALID_URL_FORMAT"],
                       [holds |-> u.https, code |-> "HTTPS_REQUIRED"],
                       [holds |-> ~u.userinfo, code |-> "CREDENTIALS_NOT_ALLOWED"],
                       [holds |-> ~isPrivateOrReservedHost(u.host),
                        code |-> "PRIVATE_HOST_NOT_ALLOWED"] >>
<1>1. fromString(u) = Verdict(rules)
  BY DEF fromString, Verdict
<1>2. DOMAIN rules = 1..5
  OBVIOUS
<1>3. /\ rules[1].holds = ShortEnough(u) /\ rules[1].code = "URL_TOO_LONG"
      /\ rules[2].holds = u.absolute /\ rules[2].code = "INVALID_URL_FORMAT"
      /\ rules[3].holds = u.https /\ rules[3].code = "HTTPS_REQUIRED"
      /\ rules[4].holds = ~u.userinfo /\ rules[4].code = "CREDENTIALS_NOT_ALLOWED"
      /\ rules[5].holds = ~isPrivateOrReservedHost(u.host)
      /\ rules[5].code = "PRIVATE_HOST_NOT_ALLOWED"
  OBVIOUS
<1> HIDE DEF rules
<1>4. CASE Verdict(rules) = "accepted" /\ \A i \in 1..5 : rules[i].holds
  <2>1. rules[1].holds /\ rules[2].holds /\ rules[3].holds /\ rules[4].holds /\ rules[5].holds
    BY <1>4
  <2>2. QED
    BY <1>1, <1>3, <1>4, <2>1, Zenon DEF WellFormed
<1>5. CASE \E i \in 1..5 : ~rules[i].holds /\ Verdict(rules) = rules[i].code
  <2>1. PICK i \in {1, 2, 3, 4, 5} : ~rules[i].holds /\ Verdict(rules) = rules[i].code
    BY <1>5
  <2>2. CASE i = 1
    BY <1>1, <1>3, <2>1, <2>2, Zenon
  <2>3. CASE i # 1
    <3>1. rules[i].code \notin {"accepted", "URL_TOO_LONG"}
      BY <1>3, <2>1, <2>3
    <3>2. ~WellFormed(u)
      BY <1>3, <2>1, <2>3, Zenon DEF WellFormed
    <3>3. CASE i = 5
      BY <1>1, <1>3, <2>1, <3>1, <3>2, <3>3, Zenon
    <3>4. CASE i # 5
      <4>1. rules[i].code # "PRIVATE_HOST_NOT_ALLOWED"
        BY <1>3, <2>1, <3>4
      <4>2. QED
        BY <1>1, <2>1, <3>1, <3>2, <4>1
    <3>5. QED
      BY <3>3, <3>4
  <2>4. QED
    BY <2>2, <2>3
<1>6. QED
  BY <1>2, <1>4, <1>5, VerdictIsARule

\* No rule answers that something went wrong.
LEMMA FromStringCodes ==
  ASSUME NEW u
  PROVE  fromString(u) # "INTERNAL_ERROR"
<1> DEFINE rules == << [holds |-> ShortEnough(u), code |-> "URL_TOO_LONG"],
                       [holds |-> u.absolute, code |-> "INVALID_URL_FORMAT"],
                       [holds |-> u.https, code |-> "HTTPS_REQUIRED"],
                       [holds |-> ~u.userinfo, code |-> "CREDENTIALS_NOT_ALLOWED"],
                       [holds |-> ~isPrivateOrReservedHost(u.host),
                        code |-> "PRIVATE_HOST_NOT_ALLOWED"] >>
<1>1. fromString(u) = Verdict(rules)
  BY DEF fromString, Verdict
<1>2. DOMAIN rules = 1..5 /\ \A i \in 1..5 : rules[i].code # "INTERNAL_ERROR"
  OBVIOUS
<1> HIDE DEF rules
<1>3. Verdict(rules) = "accepted" \/ \E i \in 1..5 : Verdict(rules) = rules[i].code
  BY <1>2, VerdictIsARule
<1>4. QED
  BY <1>1, <1>2, <1>3

-----------------------------------------------------------------------------
(* What is stored.                                                          *)

Acceptable == {u \in AnyUrl : u = Normalized(u) /\ WellFormed(u)}

\* Every stored URL is normalized, was well-formed when it came, and is stored once; the
\* last answer was right and showed no more than it may.
Invariant ==
  /\ targets \in [Ids -> Acceptable \cup {None}]
  /\ OneSpelling
  /\ ReadsBack
  /\ MaskShowsAPrefix
  /\ answer = "PRIVATE_HOST_NOT_ALLOWED" =>
       request.host \in AnyHost /\ isPrivateOrReservedHost(request.host)

LEMMA StoredFormIsNormal ==
  ASSUME NEW u \in AnyUrl, WellFormed(u)
  PROVE  StoredForm(u) \in Acceptable
<1> DEFINE v == StoredForm(u)
<1>1. v = [u EXCEPT !.spelling = "normal", !.length = u.normalLength]
  BY DEF StoredForm, Normalized
<1>2. /\ v.host = u.host /\ v.spelling = "normal"
      /\ v.length = u.normalLength /\ v.normalLength = u.normalLength
      /\ v.absolute = u.absolute /\ v.https = u.https /\ v.userinfo = u.userinfo
  BY <1>1 DEF AnyUrl
<1>3. v \in AnyUrl
  BY <1>1 DEF AnyUrl
<1>4. v = Normalized(v)
  BY <1>2, <1>3 DEF Normalized, AnyUrl
<1>5. WellFormed(v)
  BY <1>2, Zenon DEF WellFormed
<1>6. QED
  BY <1>3, <1>4, <1>5 DEF Acceptable

\* At most three characters of one label, and that of a name.
LEMMA MaskLemma ==
  ASSUME NEW host \in AnyHost
  PROVE  LET mask == maskHostname(host)
             visible == {i \in DOMAIN mask : mask[i] > 0} IN
         /\ Cardinality(visible) <= 1 /\ \A i \in visible : mask[i] <= 3
         /\ visible # {} => host.kind = "name"
<1> DEFINE mask == maskHostname(host)
           visible == {i \in DOMAIN mask : mask[i] > 0}
           n == Len(host.parts)
<1>1. CASE HasDomainLabel(host)
  <2>1. /\ host.kind = "name" /\ host.parts \in Seq(Nat) /\ n \in Nat
    <3>1. host # Localhost
      <4>1. Len(Localhost.parts) = 1
        BY DEF Localhost
      <4>2. ~HasDomainLabel(Localhost)
        BY <4>1 DEF HasDomainLabel
      <4>3. QED
        BY <1>1, <4>2, Zenon
    <3>2. host \in [kind: {"name"}, parts: Seq(Nat)]
      BY <1>1, <3>1 DEF AnyHost, HasDomainLabel
    <3>3. QED
      BY <3>2
  <2>2. mask = [i \in 1..n |-> IF i = n - 1 THEN maskDomainLabel(host.parts[i]) ELSE 0]
    BY <1>1 DEF maskHostname
  <2>3. \A i \in 1..n : host.parts[i] \in Nat
    BY <2>1
  <2>4. \A i \in 1..n : mask[i] <= 3 /\ (mask[i] > 0 => i = n - 1)
    BY <2>2, <2>3 DEF maskDomainLabel
  <2>5. visible = {} \/ visible = {n - 1}
    BY <2>2, <2>4
  <2>6. Cardinality(visible) <= 1
    <3>1. Cardinality({}) = 0 /\ Cardinality({n - 1}) = 1
      BY FS_EmptySet, FS_Singleton
    <3> HIDE DEF visible
    <3>2. Cardinality(visible) = 0 \/ Cardinality(visible) = 1
      BY <2>5, <3>1
    <3>3. QED
      BY <3>2
  <2>7. QED
    BY <2>1, <2>2, <2>4, <2>6
<1>2. CASE ~HasDomainLabel(host)
  <2>1. mask = <<0>>
    BY <1>2 DEF maskHostname
  <2>2. visible = {}
    BY <2>1
  <2>3. Cardinality(visible) <= 1
    BY <2>2, FS_EmptySet
  <2>4. QED
    BY <2>2, <2>3
<1>3. QED
  BY <1>1, <1>2

LEMMA Shows ==
  ASSUME NEW u \in AnyUrl, NEW code, Accept(u, code)
  PROVE  MaskShowsAPrefix'
<1>1. StoredForm(u).host = u.host
  BY DEF StoredForm, Normalized, AnyUrl
<1>2. u.host \in AnyHost /\ request' = u /\ shown' = maskHostname(u.host)
  BY <1>1 DEF Accept, maskTargetUrl, AnyUrl
<1>3. QED
  BY <1>2, MaskLemma DEF MaskShowsAPrefix

\* A refusal that a rule is the reason of.
LEMMA Refuses ==
  ASSUME Invariant, NEW u \in AnyUrl, Refuse(u, fromString(u)), fromString(u) # "accepted"
  PROVE  Invariant'
<1>1. /\ targets' = targets /\ request' = u /\ answer' = fromString(u) /\ shown' = None
  BY DEF Refuse
<1>2. u \in Stored => fromString(u) = "URL_TOO_LONG" /\ ~ShortEnough(u)
  BY FromStringVerdict DEF Invariant, Stored, Acceptable
<1>3. ReadsBack'
  BY <1>1, <1>2, LimitsAssumption DEF ReadsBack, Stored, ShortEnough, AnyUrl
<1>4. answer' = "PRIVATE_HOST_NOT_ALLOWED" =>
        request'.host \in AnyHost /\ isPrivateOrReservedHost(request'.host)
  BY <1>1, FromStringVerdict, Zenon DEF AnyUrl
<1>5. answer' # "INTERNAL_ERROR"
  BY <1>1, FromStringCodes
<1>6. OneSpelling'
  BY <1>1, <1>5 DEF OneSpelling, Invariant
<1>7. QED
  BY <1>1, <1>3, <1>4, <1>6 DEF Invariant, MaskShowsAPrefix

\* An answer to a request that was understood.
LEMMA Answers ==
  ASSUME Invariant, NEW u \in AnyUrl, WellFormed(u),
         NEW code \in {"created", "updated", "read", "DUPLICATE", "INTERNAL_ERROR"},
         Refuse(u, code) \/ Accept(u, code),
         targets' \in [Ids -> Acceptable \cup {None}], OneSpelling'
  PROVE  Invariant'
<1>1. answer' = code
  BY DEF Refuse, Accept
<1>2. ReadsBack'
  BY <1>1 DEF ReadsBack
<1>3. MaskShowsAPrefix'
  BY Shows DEF Refuse, MaskShowsAPrefix
<1>4. QED
  BY <1>1, <1>2, <1>3 DEF Invariant

\* The index keeps spellings apart, because what it compares is normalized.
LEMMA SavesOnce ==
  ASSUME Invariant, NEW id \in Ids, NEW u \in AnyUrl, WellFormed(u),
         NEW code \in {"created", "updated"}, Save(id, u, code),
         method' = "POST" => Holders(StoredForm(u)) \ {id} = {}
  PROVE  Invariant'
<1> DEFINE text == StoredForm(u)
<1>1. /\ text \in Acceptable /\ text = Normalized(text)
      /\ \A i \in Ids : targets[i] # None => targets[i] = Normalized(targets[i])
      /\ \A i, j \in Ids : targets[i] # None /\ targets[i] = targets[j] => i = j
  BY StoredFormIsNormal DEF Acceptable, Invariant, OneSpelling
<1>2. CASE Holders(text) \ {id} = {}
  <2>1. Accept(u, code) /\ targets' = [targets EXCEPT ![id] = text]
    BY <1>2 DEF Save
  <2>2. \A i \in Ids : targets'[i] = IF i = id THEN text ELSE targets[i]
    BY <2>1 DEF Invariant
  <2>3. targets' \in [Ids -> Acceptable \cup {None}]
    BY <1>1, <2>1 DEF Invariant
  <2>4. \A i \in Ids \ {id} : targets[i] # text
    BY <1>2 DEF Holders
  <2>5. answer' # "INTERNAL_ERROR"
    BY <2>1 DEF Accept
  <2> HIDE DEF text
  <2>6. OneSpelling'
    BY <1>1, <2>2, <2>4, <2>5 DEF OneSpelling
  <2>7. QED
    BY <2>1, <2>3, <2>6, Answers
<1>3. CASE Holders(text) \ {id} # {}
  <2>1. Refuse(u, "INTERNAL_ERROR") /\ method' # "POST"
    BY <1>3 DEF Save
  <2>2. targets' = targets
    BY <2>1 DEF Refuse
  <2>3. QED
    BY <2>1, <2>2, Answers DEF Invariant, OneSpelling
<1>4. QED
  BY <1>2, <1>3

LEMMA InvariantHolds == Spec => []Invariant
<1>1. Init => Invariant
  BY DEF Init, Invariant, OneSpelling, ReadsBack, Stored, MaskShowsAPrefix
<1>2. Invariant /\ [Next]_vars => Invariant'
  <2> SUFFICES ASSUME Invariant, [Next]_vars
               PROVE  Invariant'
    OBVIOUS
  <2>1. \A id \in Ids : targets[id] # None =>
          targets[id] \in AnyUrl /\ WellFormed(targets[id])
    BY DEF Invariant, Acceptable
  <2>2. \A u \in Submitted : u \in AnyUrl
    BY UrlsAssumption
  <2>3. ASSUME NEW id \in Ids, NEW u \in Submitted, Create(id, u)
        PROVE  Invariant'
    <3> DEFINE sought == SoughtForm(u)
    <3>1. CASE fromString(u) # "accepted" /\ Refuse(u, fromString(u))
      BY <2>2, <3>1, Refuses
    <3>2. CASE fromString(u) = "accepted" /\ Holders(sought) = {} /\ Save(id, u, "created")
      <4>1. WellFormed(u) /\ StoredForm(u) = sought
        BY <3>2, FromStringVerdict DEF StoredForm, SoughtForm
      <4>2. Holders(StoredForm(u)) \ {id} = {}
        BY <3>2, <4>1
      <4>3. QED
        BY <2>2, <3>2, <4>1, <4>2, SavesOnce
    <3>3. CASE fromString(u) = "accepted" /\ Holders(sought) # {}
      <4>1. PICK i \in Ids : targets[i] = sought
        BY <3>3 DEF Holders
      <4>2. WellFormed(u) /\ sought \in AnyUrl
        BY <2>2, <3>3, FromStringVerdict, StoredFormIsNormal
        DEF StoredForm, SoughtForm, Acceptable
      <4>3. CASE fromString(sought) = "accepted"
        <5>1. Refuse(u, "DUPLICATE") /\ targets' = targets /\ answer' = "DUPLICATE"
          BY <2>3, <3>3, <4>3 DEF Create, Refuse
        <5>2. QED
          BY <2>2, <4>2, <5>1, Answers DEF Invariant, OneSpelling
      <4>4. CASE fromString(sought) # "accepted"
        <5>1. Refuse(sought, fromString(sought))
          BY <2>3, <3>3, <4>4 DEF Create
        <5>2. QED
          BY <4>2, <4>4, <5>1, Refuses
      <4>5. QED
        BY <4>3, <4>4
    <3>4. QED
      BY <2>3, <3>1, <3>2, <3>3 DEF Create
  <2>4. ASSUME NEW id \in Ids, Read(id)
        PROVE  Invariant'
    <3>1. CASE Accept(targets[id], "read") /\ UNCHANGED targets
      <4>1. answer' = "read"
        BY <3>1 DEF Accept
      <4>2. QED
        BY <2>1, <2>4, <3>1, <4>1, Answers DEF Read, Invariant, OneSpelling
    <3>2. QED
      BY <2>1, <2>4, <3>1, Refuses DEF Read
  <2>5. ASSUME NEW id \in Ids, NEW u \in Submitted, Retarget(id, u)
        PROVE  Invariant'
    <3>1. CASE fromString(u) = "accepted" /\ Save(id, u, "updated")
      <4>1. WellFormed(u) /\ method' # "POST"
        BY <2>5, <3>1, FromStringVerdict DEF Retarget
      <4>2. QED
        BY <2>2, <3>1, <4>1, SavesOnce
    <3>2. QED
      BY <2>1, <2>2, <2>5, <3>1, Refuses DEF Retarget
  <2>6. CASE UNCHANGED vars
    BY <2>6 DEF vars, Invariant, OneSpelling, ReadsBack, Stored, MaskShowsAPrefix
  <2>7. QED
    BY <2>3, <2>4, <2>5, <2>6 DEF Next
<1>3. QED
  BY <1>1, <1>2, PTL DEF Spec

-----------------------------------------------------------------------------
(* The theorems.                                                            *)

(* One URL is one target in whatever spelling it comes, through POST and      *)
(* PATCH: the unique index sees to it since what it compares is normalized,   *)
(* and no POST runs into the index, since the duplicate check asks for the     *)
(* same text.                                                               *)
THEOREM OneTargetPerUrl == Spec => []OneSpelling
BY InvariantHolds, PTL DEF Invariant

(* A stored URL can be read back, unless normalization made it too long: that *)
(* is all that fromString refuses of its own results.                        *)
THEOREM StoredReadsBack == Spec => []ReadsBack
BY InvariantHolds, PTL DEF Invariant

(* A masked host shows at most three characters of one label of a name.      *)
THEOREM MaskHides == Spec => []MaskShowsAPrefix
BY InvariantHolds, PTL DEF Invariant

-----------------------------------------------------------------------------
(* The private ranges.                                                      *)

\* The tests on octets and the blocks of the first 16 bits are the same addresses.
LEMMA OctetsInBlocks ==
  ASSUME NEW a \in Octet, NEW b \in Octet, NEW o, o[1] = a, o[2] = b
  PROVE  isPrivateIPv4(o) <=> PrivateIPv4Block(a * 256 + b)
<1>1. PrivateIPv4Block(a * 256 + b) <=>
        \/ a * 256 + b \in 0..255
        \/ a * 256 + b \in (10 * 256)..(10 * 256 + 255)
        \/ a * 256 + b \in (127 * 256)..(127 * 256 + 255)
        \/ a * 256 + b = 169 * 256 + 254
        \/ a * 256 + b \in (172 * 256 + 16)..(172 * 256 + 31)
        \/ a * 256 + b = 192 * 256 + 168
  BY DEF PrivateIPv4Block, Blocks, Octet
<1>2. QED
  BY <1>1 DEF isPrivateIPv4, Octet

LEMMA OctetsOfGroup ==
  ASSUME NEW x \in Group
  PROVE  /\ x \div 256 \in Octet /\ x % 256 \in Octet
         /\ x = (x \div 256) * 256 + (x % 256)
         /\ x \div 512 = 126 => x \div 256 \in {252, 253}
<1>1. x \in Nat /\ x < 65536
  BY DEF Group
<1>2. /\ x \div 256 \in Nat /\ x \div 256 < 256
      /\ x % 256 \in Nat /\ x % 256 < 256
      /\ x = (x \div 256) * 256 + (x % 256)
      /\ x \div 512 = 126 => x \div 256 \in {252, 253}
  BY <1>1
<1>3. \A y \in Nat : y < 256 => y \in Octet
  BY DEF Octet
<1>4. QED
  BY <1>2, <1>3

LEMMA LinkLocalGroups ==
  ASSUME NEW x \in Group
  PROVE  x \div 64 = 1018 => x = 65152 \/ x \in 65153..65215
<1>1. x \in Nat /\ x = 64 * (x \div 64) + (x % 64) /\ x % 64 \in 0..63
  BY DEF Group
<1>2. QED
  BY <1>1

LEMMA MappedInBlocks ==
  ASSUME NEW g \in [1..8 -> Group]
  PROVE  isPrivateIPv4(Octets(g[7], g[8])) <=> PrivateIPv4Block(g[7])
<1> DEFINE a == g[7] \div 256
           b == g[7] % 256
<1>1. g[7] \in Group
  OBVIOUS
<1>2. a \in Octet /\ b \in Octet /\ g[7] = a * 256 + b
  BY <1>1, OctetsOfGroup
<1>3. Octets(g[7], g[8])[1] = a /\ Octets(g[7], g[8])[2] = b
  BY DEF Octets
<1> HIDE DEF a, b
<1>4. QED
  BY <1>2, <1>3, OctetsInBlocks

\* No host of a private range but a link-local one from fe81:: on gets past
\* isPrivateOrReservedHost, and of the addresses written as IPv4 or mapped to IPv6 it
\* refuses no other.
LEMMA HostsInRange ==
  ASSUME NEW host \in AnyHost
  PROVE  /\ InPrivateRange(host) /\ ~LetThrough(host) => isPrivateOrReservedHost(host)
         /\ isPrivateOrReservedHost(host) /\ (host.kind = "IPv4" \/ Mapped(host)) =>
              InPrivateRange(host)
<1> DEFINE g == host.parts
<1>1. CASE host = Localhost
  BY <1>1 DEF Localhost, Mapped, isPrivateOrReservedHost
<1>2. CASE host \in [kind: {"name"}, parts: Seq(Nat)]
  BY <1>2 DEF Localhost, Mapped, InPrivateRange
<1>3. CASE host \in [kind: {"IPv4"}, parts: [1..4 -> Octet]]
  <2>1. host.kind = "IPv4" /\ g[1] \in Octet /\ g[2] \in Octet
    BY <1>3
  <2>2. isPrivateIPv4(g) <=> PrivateIPv4Block(g[1] * 256 + g[2])
    BY <2>1, OctetsInBlocks
  <2>3. QED
    BY <2>1, <2>2 DEF isPrivateOrReservedHost, InPrivateRange, Mapped
<1>4. CASE host \in [kind: {"IPv6"}, parts: [1..8 -> Group]]
  <2>1. host.kind = "IPv6" /\ g \in [1..8 -> Group]
    BY <1>4
  <2>2. isPrivateIPv4(Octets(g[7], g[8])) <=> PrivateIPv4Block(g[7])
    BY <2>1, MappedInBlocks
  <2>3. isPrivateOrReservedHost(host) <=> isPrivateIPv6(g)
    BY <2>1 DEF isPrivateOrReservedHost
  <2>4. CASE Mapped(host)
    <3>1. g[1] = 0 /\ g[6] = 65535 /\ \A i \in 1..5 : g[i] = 0
      BY <2>4 DEF Mapped
    <3>2. isPrivateIPv6(g) <=> isPrivateIPv4(Octets(g[7], g[8]))
      <4>1. ~ \E digits \in {1, 16, 256} : g[1] \div digits \in {252, 253}
        BY <3>1
      <4>2. ~ \A i \in 1..7 : g[i] = 0 /\ g[8] \in {0, 1}
        BY <3>1
      <4>3. QED
        BY <3>1, <4>1, <4>2 DEF isPrivateIPv6
    <3>3. InPrivateRange(host) <=> PrivateIPv4Block(g[7])
      BY <2>1, <2>4 DEF InPrivateRange
    <3>4. QED
      BY <2>2, <2>3, <3>2, <3>3
  <2>5. CASE ~Mapped(host)
    <3>1. ASSUME InPrivateRange(host), ~LetThrough(host)
          PROVE  isPrivateIPv6(g)
      <4>1. \/ g[1] \div 512 = 126
            \/ g[1] \div 64 = 1018
            \/ g \in {<<0, 0, 0, 0, 0, 0, 0, last>> : last \in {0, 1}}
        BY <2>1, <2>5, <3>1 DEF InPrivateRange
      <4>2. CASE g[1] \div 512 = 126
        BY <2>1, <4>2, OctetsOfGroup DEF isPrivateIPv6
      <4>3. CASE g \in {<<0, 0, 0, 0, 0, 0, 0, last>> : last \in {0, 1}}
        BY <4>3 DEF isPrivateIPv6
      <4>4. CASE g[1] \div 64 = 1018
        <5>1. g[1] = 65152
          BY <2>1, <3>1, <4>4, LinkLocalGroups DEF LetThrough
        <5>2. QED
          BY <5>1 DEF isPrivateIPv6
      <4>5. QED
        BY <4>1, <4>2, <4>3, <4>4
    <3>2. QED
      BY <2>1, <2>3, <2>5, <3>1
  <2>6. QED
    BY <2>4, <2>5
<1>5. QED
  BY <1>1, <1>2, <1>3, <1>4 DEF AnyHost

(* For any addresses whatever, no stored URL has a host in a private range    *)
(* but a link-local one from fe81:: to febf::, and an IPv4 address refused as  *)
(* private is in one.                                                       *)
THEOREM NoPrivateTarget == Spec => []PrivateRanges
<1>1. Invariant => PrivateRanges
  <2>1. ASSUME Invariant, NEW v \in Stored
        PROVE  InPrivateRange(v.host) => LetThrough(v.host)
    <3>1. v.host \in AnyHost /\ ~isPrivateOrReservedHost(v.host)
      BY <2>1 DEF Invariant, Stored, Acceptable, AnyUrl, WellFormed
    <3>2. QED
      BY <3>1, HostsInRange
  <2>2. ASSUME Invariant, answer = "PRIVATE_HOST_NOT_ALLOWED",
               request.host.kind = "IPv4" \/ Mapped(request.host)
        PROVE  InPrivateRange(request.host)
    BY <2>2, HostsInRange, Zenon DEF Invariant
  <2>3. QED
    BY <2>1, <2>2 DEF PrivateRanges
<1>2. QED
  BY <1>1, InvariantHolds, PTL
=============================================================================

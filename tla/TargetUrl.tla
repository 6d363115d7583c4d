------------------------------- MODULE TargetUrl -------------------------------
(***************************************************************************)
(* The target URLs of one tenant: what TargetUrl.fromString accepts and    *)
(* stores, what it makes of the stored value on every later read, and what *)
(* the masking interceptor shows of it. A URL is what the WHATWG parser    *)
(* (external) finds in it; `spelling` tells apart texts that it normalizes *)
(* to one URL, and a stored URL has the spelling "normal". Requests come    *)
(* one after the other and the unique index is built: SubscriptionApi has   *)
(* them at once, and its build.                                            *)
(***************************************************************************)
EXTENDS Integers, Sequences, FiniteSets, FiniteSetsExt

CONSTANTS
  MaxLength, \* MAX_LENGTH
  Submitted, \* the URLs clients send
  Ids,       \* the subscriptions the tenant makes
  None

ASSUME LimitsAssumption == MaxLength \in Nat \ {0}

VARIABLES
  targets, \* the targetUrl of every subscription that is stored
  method,  \* of the last request
  request, \* the URL the last answer is about
  answer,  \* the last answer
  shown    \* the host as the last answer showed it

vars == <<targets, method, request, answer, shown>>

Init == /\ targets = [id \in Ids |-> None]
        /\ method = "none" /\ request = None /\ answer = "none" /\ shown = None

-----------------------------------------------------------------------------
(* Hosts: 8 groups of 16 bits, 4 octets, or labels, of which the length is  *)
(* all that matters here.                                                   *)

IPv6(groups) == [kind |-> "IPv6", parts |-> groups]
IPv4(octets) == [kind |-> "IPv4", parts |-> octets]
Name(lengths) == [kind |-> "name", parts |-> lengths]
Localhost == [kind |-> "localhost", parts |-> <<9>>]

Group == 0..65535
Octet == 0..255

AnyHost == [kind: {"IPv6"}, parts: [1..8 -> Group]]
           \cup [kind: {"IPv4"}, parts: [1..4 -> Octet]]
           \cup [kind: {"name"}, parts: Seq(Nat)] \cup {Localhost}

AnyUrl == [host: AnyHost, spelling: {"normal", "other"}, length: Nat, normalLength: Nat,
           absolute: BOOLEAN, https: BOOLEAN, userinfo: BOOLEAN]

ASSUME UrlsAssumption == Submitted \subseteq AnyUrl

\* Mutant: 172.31 is left out.
PrivateShortOfOne(o) ==
  \/ o[1] \in {0, 10, 127}
  \/ o[1] = 169 /\ o[2] = 254
  \/ o[1] = 172 /\ o[2] \in 16..30
  \/ o[1] = 192 /\ o[2] = 168

isPrivateIPv4(o) ==
  \/ o[1] \in {0, 10, 127}
  \/ o[1] = 169 /\ o[2] = 254
  \/ o[1] = 172 /\ o[2] \in 16..31
  \/ o[1] = 192 /\ o[2] = 168

\* Bits of two 16-bit groups, by shifts and masks.
Octets(hi, lo) == <<hi \div 256, hi % 256, lo \div 256, lo % 256>>

\* The tests on fe80, fc and fd are on the text of the first group, written without
\* leading zeros: fc also begins the groups 0x00fc and 0x0fc0.
isPrivateIPv6(g) ==
  \/ \A i \in 1..7 : g[i] = 0 /\ g[8] \in {0, 1}
  \/ g[1] = 65152
  \/ \E digits \in {1, 16, 256} : g[1] \div digits \in {252, 253}
  \/ /\ \A i \in 1..5 : g[i] = 0
     /\ g[6] = 65535
     /\ isPrivateIPv4(Octets(g[7], g[8]))

isPrivateOrReservedHost(host) ==
  CASE host.kind = "localhost" -> TRUE
    [] host.kind = "IPv6" -> isPrivateIPv6(host.parts)
    [] host.kind = "IPv4" -> isPrivateIPv4(host.parts)
    [] host.kind = "name" -> FALSE

-----------------------------------------------------------------------------
(* fromString.                                                              *)

\* What parsed.toString() gives: one text for every spelling of a URL, which may be
\* longer than the text that was sent.
Normalized(u) == [u EXCEPT !.spelling = "normal", !.length = u.normalLength]

\* Mutants: the bound itself is refused; the text is stored as it was sent; the
\* duplicate check asks for the text as it was sent.
ShorterThanMax(u) == u.length < MaxLength
StoredAsSent(u) == u
SoughtAsSent(u) == u

ShortEnough(u) == u.length <= MaxLength
StoredForm(u) == Normalized(u)
SoughtForm(u) == Normalized(u)

\* The rules in order: the first that is violated is the answer.
fromString(u) ==
  LET rules == << [holds |-> ShortEnough(u), code |-> "URL_TOO_LONG"],
                  [holds |-> u.absolute, code |-> "INVALID_URL_FORMAT"],
                  [holds |-> u.https, code |-> "HTTPS_REQUIRED"],
                  [holds |-> ~u.userinfo, code |-> "CREDENTIALS_NOT_ALLOWED"],
                  [holds |-> ~isPrivateOrReservedHost(u.host),
                   code |-> "PRIVATE_HOST_NOT_ALLOWED"] >>
      violated == {i \in DOMAIN rules : ~rules[i].holds}
  IN  IF violated = {} THEN "accepted" ELSE rules[Min(violated)].code

-----------------------------------------------------------------------------
(* Masking. A label becomes the number of its characters that stay visible; *)
(* the random number of asterisks after them says nothing and is left out.  *)

\* Mutant: an IPv4 address is masked like a name.
MaskedLikeAName(host) == Len(host.parts) > 1 /\ host.kind # "IPv6"
HasDomainLabel(host) == Len(host.parts) > 1 /\ host.kind \notin {"IPv4", "IPv6"}

maskDomainLabel(length) == IF length < 3 THEN length ELSE 3

maskHostname(host) ==
  LET n == Len(host.parts)
  IN  IF HasDomainLabel(host)
        THEN [i \in 1..n |-> IF i = n - 1 THEN maskDomainLabel(host.parts[i]) ELSE 0]
        ELSE <<0>>

\* Port, path, query and hash stay as they are and are left out.
maskTargetUrl(u) == maskHostname(u.host)

-----------------------------------------------------------------------------
(* Requests.                                                                *)

Refuse(u, code) == /\ request' = u /\ answer' = code /\ shown' = None
                   /\ UNCHANGED targets

Accept(u, code) == /\ request' = u /\ answer' = code /\ shown' = maskTargetUrl(StoredForm(u))

\* The subscriptions with this text: the query of the duplicate check, and what the
\* unique index compares.
Holders(text) == {id \in Ids : targets[id] = text}

Save(id, u, code) ==
  IF Holders(StoredForm(u)) \ {id} = {}
    THEN Accept(u, code) /\ targets' = [targets EXCEPT ![id] = StoredForm(u)]
    ELSE Refuse(u, "INTERNAL_ERROR")

\* POST /subscriptions: fromString, the duplicate check (which restores what it finds,
\* toAggregate), save, the masked answer.
Create(id, u) ==
  LET sought == SoughtForm(u)
      restored == fromString(sought)
  IN
  /\ targets[id] = None
  /\ method' = "POST"
  /\ \/ fromString(u) # "accepted" /\ Refuse(u, fromString(u))
     \/ fromString(u) = "accepted" /\ Holders(sought) = {} /\ Save(id, u, "created")
     \/ /\ fromString(u) = "accepted" /\ Holders(sought) # {}
        /\ IF restored = "accepted" THEN Refuse(u, "DUPLICATE") ELSE Refuse(sought, restored)

\* PATCH of the targetUrl: no duplicate check, but the unique index refuses the save.
Retarget(id, u) ==
  LET restored == fromString(targets[id]) IN
  /\ targets[id] # None
  /\ method' = "PATCH"
  /\ \/ restored # "accepted" /\ Refuse(targets[id], restored)
     \/ restored = "accepted" /\ fromString(u) # "accepted" /\ Refuse(u, fromString(u))
     \/ restored = "accepted" /\ fromString(u) = "accepted" /\ Save(id, u, "updated")

\* GET, and the find of PATCH and DELETE: toAggregate runs fromString on what is
\* stored.
Read(id) ==
  LET restored == fromString(targets[id]) IN
  /\ targets[id] # None
  /\ method' = "GET"
  /\ \/ restored = "accepted" /\ Accept(targets[id], "read") /\ UNCHANGED targets
     \/ restored # "accepted" /\ Refuse(targets[id], restored)

Next == \E id \in Ids : \/ Read(id)
                       \/ \E u \in Submitted : Create(id, u) \/ Retarget(id, u)

Spec == Init /\ [][Next]_vars

-----------------------------------------------------------------------------
(* Properties.                                                              *)

\* The ranges named in the comments of target-url.vo.ts, as ranges of the first 16
\* bits: 0/8, 10/8, 127/8, 169.254/16, 172.16/12 and 192.168/16.
Blocks == {0..255, (10 * 256)..(10 * 256 + 255), (127 * 256)..(127 * 256 + 255),
           {169 * 256 + 254}, (172 * 256 + 16)..(172 * 256 + 31), {192 * 256 + 168}}

PrivateIPv4Block(first16) == \E block \in Blocks : first16 \in block

Mapped(host) == /\ host.kind = "IPv6" /\ \A i \in 1..5 : host.parts[i] = 0
                /\ host.parts[6] = 65535

InPrivateRange(host) ==
  CASE host.kind = "IPv4" -> PrivateIPv4Block(host.parts[1] * 256 + host.parts[2])
    [] Mapped(host) -> PrivateIPv4Block(host.parts[7])
    [] host.kind = "IPv6" /\ ~Mapped(host) ->
         \/ host.parts[1] \div 512 = 126   \* fc00::/7
         \/ host.parts[1] \div 64 = 1018   \* fe80::/10, link-local
         \/ host.parts \in {<<0, 0, 0, 0, 0, 0, 0, last>> : last \in {0, 1}}
    [] OTHER -> host = Localhost

\* fe81:: to febf::, link-local addresses whose text does not begin with fe80.
LetThrough(host) == host.kind = "IPv6" /\ host.parts[1] \in 65153..65215

Stored == {targets[id] : id \in Ids} \ {None}

(* The private ranges: a stored URL has a host in one of them only as a        *)
(* link-local address from fe81:: on, which the test on the text `fe80:` misses *)
(* though the README's rule 5 forbids it. Any other address is kept out, in     *)
(* IPv4, mapped to IPv6 or in IPv6, and an IPv4 address, mapped or not, is       *)
(* refused only for being in a range (README "Target URL validation";          *)
(* isPrivateOrReservedHost).                                                 *)
PrivateRanges ==
  /\ \A v \in Stored : InPrivateRange(v.host) => LetThrough(v.host)
  /\ /\ answer = "PRIVATE_HOST_NOT_ALLOWED"
     /\ request.host.kind = "IPv4" \/ Mapped(request.host)
     => InPrivateRange(request.host)

(* What was accepted can be read back, as long as normalization did not make  *)
(* it longer than the bound, which is checked before it (fromString, run once *)
(* more by toAggregate): a refusal on a read is URL_TOO_LONG and nothing else.*)
ReadsBack ==
  request \in Stored =>
    \/ answer \in {"created", "updated", "read", "DUPLICATE", "INTERNAL_ERROR"}
    \/ answer = "URL_TOO_LONG" /\ request.length > MaxLength

(* Every spelling of a URL is one target: two subscriptions never have the    *)
(* same URL in different texts, and a POST of another spelling of a URL that  *)
(* is taken is never left to the unique index, whose refusal is an internal   *)
(* error (create-subscription use case, schema: both go by normalized texts).  *)
OneSpelling ==
  /\ \A i, j \in Ids :
       /\ targets[i] # None /\ targets[j] # None
       /\ Normalized(targets[i]) = Normalized(targets[j])
       => i = j
  /\ method = "POST" => answer # "INTERNAL_ERROR"

(* What an answer shows of a host is at most three characters of one label    *)
(* of a name and nothing of an address, whatever the stored URL (README,      *)
(* "TargetUrl masking note").                                                *)
MaskShowsAPrefix ==
  shown # None =>
    LET visible == {i \in DOMAIN shown : shown[i] > 0} IN
    /\ Cardinality(visible) <= 1 /\ \A i \in visible : shown[i] <= 3
    /\ visible # {} => request.host.kind = "name"

=============================================================================

------------------------------ MODULE MCTargetUrl ------------------------------
EXTENDS TargetUrl, TLC

CONSTANTS s1, s2

Url(host) ==
  [host |-> host, spelling |-> "normal", length |-> 1, normalLength |-> 1,
   absolute |-> TRUE, https |-> TRUE, userinfo |-> FALSE]

\* The first two octets of addresses on both sides of every bound.
V4Starts ==
  ({0, 1, 9, 10, 11, 126, 127, 128} \X {1}) \cup
  ({168, 170} \X {254}) \cup ({169} \X {253, 254, 255}) \cup
  ({171, 173} \X {16}) \cup ({172} \X {15, 16, 31, 32}) \cup
  ({191, 193} \X {168}) \cup ({192} \X {167, 168, 169})

V4Hosts == {<<o[1], o[2], 1, 254>> : o \in V4Starts}

FirstGroups == {1, 252, 253, 4032, 64511, 64512, 65023, 65024, 65151, 65152, 65153, 65215, 65216}

Hosts ==
  {IPv4(o) : o \in V4Hosts} \cup
  {IPv6(<<0, 0, 0, 0, 0, 65535, o[1] * 256 + o[2], 510>>) :
     o \in {h \in V4Hosts : h[1] \in {0, 126, 127, 172}}} \cup
  {IPv6(<<g, 0, 0, 0, 0, 0, 0, 1>>) : g \in FirstGroups} \cup
  {IPv6(<<0, 0, 0, 0, 0, 0, 0, last>>) : last \in 0..2} \cup
  {Localhost, Name(<<7>>), Name(<<2, 3>>), Name(<<3, 7, 3>>), Name(<<7, 3, 0>>)}

\* Every host once, and every way a URL to one host can be spelled or refused.
Urls ==
  LET plain == Url(Name(<<3, 7, 3>>)) IN
  {Url(host) : host \in Hosts} \cup
  [host: {plain.host}, spelling: {"normal"}, length: {MaxLength}, normalLength: {MaxLength},
   absolute: {TRUE}, https: {TRUE}, userinfo: {FALSE}] \cup
  [host: {plain.host}, spelling: {"other"}, length: {1, MaxLength - 1, MaxLength, MaxLength + 1},
   normalLength: {1, MaxLength, MaxLength + 1},
   absolute: {TRUE}, https: {TRUE}, userinfo: {FALSE}] \cup
  [host: {plain.host, Localhost}, spelling: {"other"}, length: {1}, normalLength: {1},
   absolute: BOOLEAN, https: BOOLEAN, userinfo: BOOLEAN]

IdsAlike == Permutations(Ids)
=============================================================================

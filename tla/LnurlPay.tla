------------------------------ MODULE LnurlPay ------------------------------
(***************************************************************************)
(* Asking a claimant's LNURL server for an invoice                         *)
(* (src/lightning/lnurl-pay.ts), the address check before each request and *)
(* the limits on what is read of each answer (src/lightning/ssrf.ts).      *)
(*                                                                         *)
(* An address is the tuple of its leading numbers: two octets of an IPv4   *)
(* address, which decide all ranges there are, or the eight groups of an   *)
(* IPv6 address.  Servers and name servers are external: they answer       *)
(* anything, and names may lead elsewhere from one look to the next.       *)
(*                                                                         *)
(* LightningProofs extends this module together with NwcClient, so what    *)
(* every module has (Init, Next, ...) has the name of this one in front.   *)
(***************************************************************************)
EXTENDS Integers, Sequences

CONSTANTS
  Address,    \* addresses a host may have
  Answers,    \* sets of addresses a name server may answer with
  Amount,     \* what is asked for
  Offers,     \* amounts an invoice or a limit of a server may name
  Cap,        \* the most that is read of an answer, by how it is read
  Chunk,      \* sizes of the pieces an answer arrives in
  NoAmount    \* no number: an amountless invoice, a limit left out

ASSUME AddressAssumption ==
  /\ Address \subseteq Seq(Nat) /\ \A a \in Address : Len(a) \in {2, 8}
  /\ Answers \subseteq SUBSET Address
ASSUME AmountAssumption ==
  Amount \in Nat /\ Offers \subseteq Nat \cup {NoAmount} /\ NoAmount \notin Nat
ASSUME CapAssumption ==
  Cap \in [{"json", "text"} -> Nat \ {0}] /\ Chunk \subseteq Nat \ {0}

VARIABLES
  stage,     \* "start", "check", "fetch", "body", "parse", "invoice", "failed"
  hop,       \* 1 for the payRequest, 2 for its callback
  url,       \* the scheme, and whether the host is an address itself
  checked,   \* the addresses the check has seen
  peer,      \* the address the request went to, an empty tuple before
  mode,      \* how the answer is read
  read,      \* how much of it is kept
  open,      \* whether its stream is open
  limits,    \* minSendable and maxSendable
  invoice    \* the amount of the invoice

request == <<url, checked, peer>>
answer == <<mode, read, open>>
lnurlVars == <<stage, hop, request, answer, limits, invoice>>

Url == [scheme: {"https", "http", "other", "invalid"}, literal: BOOLEAN]

LnurlTypeOK ==
  /\ stage \in {"start", "check", "fetch", "body", "parse", "invoice", "failed"}
  /\ hop \in {1, 2}
  /\ url \in Url
  /\ checked \in Answers \cup {{a} : a \in Address} \cup {{}}
  /\ peer \in Address \cup {<<>>}
  /\ mode \in {"json", "text"}
  /\ read \in Nat
  /\ open \in BOOLEAN
  /\ limits \in (Offers \cup {NoAmount}) \X (Offers \cup {NoAmount})
  /\ invoice \in Offers \cup {NoAmount}

LnurlInit ==
  /\ stage = "start" /\ hop = 1
  /\ url = [scheme |-> "invalid", literal |-> FALSE]
  /\ checked = {} /\ peer = <<>>
  /\ mode = "json" /\ read = 0 /\ open = FALSE
  /\ limits = <<NoAmount, NoAmount>>
  /\ invoice = NoAmount

-----------------------------------------------------------------------------
(* isBlockedAddress. *)

\* Variant: the private range 172.16.0.0/12 is one octet short.
BlockedIPv4Short(a, b) ==
  \/ a \in {0, 10, 127} \/ a >= 224
  \/ <<a, b>> \in {<<169, 254>>, <<192, 168>>}
  \/ a = 172 /\ b \in 16 .. 30
  \/ a = 100 /\ b \in 64 .. 127

IsBlockedIPv4(a, b) ==
  \/ a \in {0, 10, 127} \/ a >= 224
  \/ <<a, b>> \in {<<169, 254>>, <<192, 168>>}
  \/ a = 172 /\ b \in 16 .. 31
  \/ a = 100 /\ b \in 64 .. 127

Zero(h, from, to) == \A i \in from .. to : h[i] = 0

\* Where the IPv4 address in an IPv6 address starts, 0 for none: mapped,
\* translated, compatible, NAT64, 6to4.
Embedded(h) ==
  CASE Zero(h, 1, 5) /\ h[6] = 65535 -> 7
    [] Zero(h, 1, 4) /\ h[5] = 65535 /\ h[6] = 0 -> 7
    [] Zero(h, 1, 6) -> 7
    [] h[1] = 100 /\ h[2] = 65435 /\ Zero(h, 3, 6) -> 7
    [] h[1] = 8194 -> 2
    [] OTHER -> 0

IsBlockedIPv6(h) ==
  \/ Zero(h, 1, 8)
  \/ Zero(h, 1, 7) /\ h[8] = 1
  \/ IF Embedded(h) # 0
       THEN IsBlockedIPv4(h[Embedded(h)] \div 256, h[Embedded(h)] % 256)
       ELSE \/ h[1] = 100 /\ h[2] = 65435 /\ h[3] = 1
            \/ h[1] \div 512 = 126       \* (h & fe00) = fc00
            \/ h[1] \div 64 = 1018       \* (h & ffc0) = fe80
            \/ h[1] \div 64 = 1019       \* (h & ffc0) = fec0
            \/ h[1] \div 256 = 255       \* (h & ff00) = ff00

IsBlockedAddress(a) == IF Len(a) = 2 THEN IsBlockedIPv4(a[1], a[2]) ELSE IsBlockedIPv6(a)

-----------------------------------------------------------------------------
(* One request: getJson. *)

Fail ==
  /\ stage' = "failed"
  /\ open' = FALSE

\* resolveLnurlEndpoint: an address of the form name@domain is https; a URL and
\* the text of an lnurl1... may be of any scheme; or the input is neither.
Start(u) ==
  /\ stage = "start"
  /\ url' = u
  /\ stage' = "check"
  /\ UNCHANGED <<hop, checked, peer, answer, limits, invoice>>

AllPublic(addresses) ==
  addresses # {} /\ \A a \in addresses : ~IsBlockedAddress(a)

\* assertPublicHttpUrl
Check(addresses) ==
  /\ stage = "check"
  /\ url.literal => \E a \in Address : addresses = {a}
  /\ IF url.scheme = "https" /\ AllPublic(addresses)
       THEN checked' = addresses /\ stage' = "fetch" /\ UNCHANGED open
       ELSE Fail /\ UNCHANGED checked
  /\ UNCHANGED <<hop, url, peer, mode, read, limits, invoice>>

\* fetch looks the name up again.  The answer has a body, or none to be read.
\* A status that is not 2xx, a redirect among them, makes it an error message.
Respond(a, how, body) ==
  /\ stage = "fetch"
  /\ url.literal => a \in checked
  /\ peer' = a
  /\ mode' = how /\ read' = 0 /\ open' = body
  /\ stage' = IF body THEN "body" ELSE "failed"
  /\ UNCHANGED <<hop, url, checked, limits, invoice>>

\* No connection, or LNURL_HTTP_TIMEOUT_MS are over, before or within the answer.
NoResponse ==
  /\ stage \in {"fetch", "body"}
  /\ Fail
  /\ UNCHANGED <<hop, request, mode, read, limits, invoice>>

\* Variant: an answer that is too long is abandoned, not closed.
ChunkAbandons(n) ==
  /\ stage = "body"
  /\ CASE mode = "json" /\ read + n > Cap.json -> stage' = "failed" /\ UNCHANGED <<open, read>>
       [] mode = "text" /\ n >= Cap.text - read ->
            stage' = "failed" /\ read' = Cap.text /\ UNCHANGED open
       [] OTHER -> read' = read + n /\ UNCHANGED <<stage, open>>
  /\ UNCHANGED <<hop, request, mode, limits, invoice>>

\* Variant: what is left of the cap is counted the wrong way round.
ChunkMiscounted(n) ==
  /\ stage = "body"
  /\ CASE mode = "json" /\ read + n > Cap.json -> Fail /\ UNCHANGED read
       [] mode = "text" /\ n >= Cap.text - read -> Fail /\ read' = Cap.text - n
       [] OTHER -> read' = read + n /\ UNCHANGED <<stage, open>>
  /\ UNCHANGED <<hop, request, mode, limits, invoice>>

\* readJsonCapped gives up on an answer that is too long; readTextCapped cuts
\* it, also when it ends exactly there.  Both let go of the stream.
ReadChunk(n) ==
  /\ stage = "body"
  /\ CASE mode = "json" /\ read + n > Cap.json -> Fail /\ UNCHANGED read
       [] mode = "text" /\ n >= Cap.text - read -> Fail /\ read' = Cap.text
       [] OTHER -> read' = read + n /\ UNCHANGED <<stage, open>>
  /\ UNCHANGED <<hop, request, mode, limits, invoice>>

\* The error message is complete, or the answer is, and may be JSON.
EndOfBody ==
  /\ stage = "body"
  /\ open' = FALSE
  /\ stage' \in IF mode = "text" THEN {"failed"} ELSE {"failed", "parse"}
  /\ UNCHANGED <<hop, request, mode, read, limits, invoice>>

-----------------------------------------------------------------------------
(* The two documents. *)

InRange(min, max) == NoAmount \notin {min, max} /\ min <= Amount /\ Amount <= max

\* An error, another document, or limits without the amount; or the callback
\* is asked, at whatever URL it has.
PayRequest(min, max, callback) ==
  /\ stage = "parse" /\ hop = 1
  /\ limits' = <<min, max>>
  /\ \/ Fail /\ UNCHANGED <<hop, url>>
     \/ /\ InRange(min, max)
        /\ stage' = "check" /\ hop' = 2 /\ url' = callback
        /\ UNCHANGED open
  /\ checked' = {} /\ peer' = <<>> /\ read' = 0
  /\ UNCHANGED <<mode, invoice>>

Invoice(amount) ==
  /\ stage = "parse" /\ hop = 2
  /\ IF amount = Amount
       THEN stage' = "invoice" /\ invoice' = amount /\ UNCHANGED open
       ELSE Fail /\ UNCHANGED invoice
  /\ UNCHANGED <<hop, request, mode, read, limits>>

\* An error, no invoice, or one that cannot be decoded.
NoInvoice ==
  /\ stage = "parse" /\ hop = 2
  /\ Fail
  /\ UNCHANGED <<hop, request, mode, read, limits, invoice>>

LnurlNext ==
  \/ \E u \in Url : Start(u)
  \/ \E addresses \in Answers \cup {{a} : a \in Address} \cup {{}} : Check(addresses)
  \/ \E a \in Address, how \in {"json", "text"}, body \in BOOLEAN : Respond(a, how, body)
  \/ \E n \in Chunk : ReadChunk(n)
  \/ \E min, max \in Offers, callback \in Url : PayRequest(min, max, callback)
  \/ \E amount \in Offers : Invoice(amount)
  \/ NoResponse \/ EndOfBody \/ NoInvoice

LnurlSpec == LnurlInit /\ [][LnurlNext]_lnurlVars

-----------------------------------------------------------------------------
(* Properties. *)

\* The ranges that are not public, as the comments of ssrf.ts name them: their
\* first address and the length of the prefix.
Ranges4 == {<<<<0, 0>>, 8>>, <<<<10, 0>>, 8>>, <<<<127, 0>>, 8>>, <<<<169, 254>>, 16>>,
            <<<<172, 16>>, 12>>, <<<<192, 168>>, 16>>, <<<<100, 64>>, 10>>,
            <<<<224, 0>>, 4>>, <<<<240, 0>>, 4>>}
Ranges6 == {<<<<0, 0, 0, 0, 0, 0, 0, 0>>, 128>>, <<<<0, 0, 0, 0, 0, 0, 0, 1>>, 128>>,
            <<<<100, 65435, 1, 0, 0, 0, 0, 0>>, 48>>, <<<<64512, 0, 0, 0, 0, 0, 0, 0>>, 7>>,
            <<<<65152, 0, 0, 0, 0, 0, 0, 0>>, 10>>, <<<<65216, 0, 0, 0, 0, 0, 0, 0>>, 10>>,
            <<<<65280, 0, 0, 0, 0, 0, 0, 0>>, 8>>}

\* Those that carry an IPv4 address behind their prefix.
Carriers == {<<<<0, 0, 0, 0, 0, 65535, 0, 0>>, 96>>, <<<<0, 0, 0, 0, 65535, 0, 0, 0>>, 96>>,
             <<<<0, 0, 0, 0, 0, 0, 0, 0>>, 96>>, <<<<100, 65435, 0, 0, 0, 0, 0, 0>>, 96>>,
             <<<<8194, 0, 0, 0, 0, 0, 0, 0>>, 16>>}

\* What a number of `width` bits is divided by to leave its first `bits` bits.
Shift(bits, width) ==
  IF bits >= width THEN 1 ELSE IF bits <= 0 THEN 2 ^ width ELSE 2 ^ (width - bits)

\* Numbers of `width` bits agree with those of the range in its prefix.
InPrefix(a, range, width) ==
  \A i \in 1 .. Len(a) :
    LET shift == Shift(range[2] - width * (i - 1), width)
    IN  a[i] \div shift = range[1][i] \div shift

NonPublic4(a) == \E r \in Ranges4 : InPrefix(a, r, 8)
NonPublic(a) ==
  IF Len(a) = 2 THEN NonPublic4(a)
  ELSE \/ \E r \in Ranges6 : InPrefix(a, r, 16)
       \/ \E r \in Carriers : /\ InPrefix(a, r, 16)
                              /\ LET at == r[2] \div 16 + 1
                                 IN  NonPublic4(<<a[at] \div 256, a[at] % 256>>)

\* No request goes to an address that is not public (ssrf.ts 33-39), whichever
\* of the two URLs it is for and wherever an answer points - except when a name
\* leads there that led elsewhere a moment before (14-19).
NonPublicOnlyIfMoved ==
  peer # <<>> /\ NonPublic(peer) => peer \notin checked

\* However long an answer is and however it is cut into pieces, no more than
\* the cap is kept (ssrf.ts 183-192, 218-232), and a request that is over has
\* left no stream behind (207-209).
AnswersAreBounded ==
  /\ read <= Cap[mode]
  /\ open => stage = "body"
=============================================================================

------------------------------ MODULE HttpProbe ------------------------------
(***************************************************************************)
(* perform_http_probe (app/net.py) and the bridge that runs it: one GET    *)
(* with redirects followed by hand.  Each hop is validated, its host       *)
(* resolved and the request sent to the address that was validated, not to *)
(* the name.  Every await may be ended by the timeout of the operation, by *)
(* the deadline of the whole probe, or never by the other side.            *)
(*                                                                         *)
(* A name lookup runs in a thread of the event loop's executor.  The       *)
(* deadline ends the coroutine that awaits it but not the thread, and      *)
(* asyncio.run joins the executor's threads before it returns (for 300     *)
(* seconds at most: longer than a probe task may take).                    *)
(*                                                                         *)
(* The clock counts seconds since the task started.  The model knows of an *)
(* address the network it is in, of a URL what the validation reads.       *)
(***************************************************************************)
EXTENDS Integers

CONSTANTS
  NULL,
  Names,           \* host names
  LoopbackNames,   \* those refused without a lookup: localhost
  Unsplittable,    \* a Location that urljoin or urlsplit raise ValueError for
  Relative,        \* a Location relative to the current URL
  StartUrls,       \* url of the monitors, with their keep-alive path
  Locations,       \* Location headers
  LookupAnswers,   \* sets of addresses getaddrinfo may return
  Codes,           \* status codes
  ChunkSizes,
  max_redirects, max_response_bytes, total_timeout,
  OperationTimeout,     \* the shortest timeout of each HTTP operation
  SoftLimit             \* celery_soft_time_limit

Address == [net : {"global", "loopback", "reserved"}, nat64 : BOOLEAN]

Url == [scheme : {"http", "https", "other"}, host : Address \cup Names \cup {NULL},
        user : BOOLEAN, port_ok : BOOLEAN,
        sendable : BOOLEAN]   \* only characters httpx puts into a request

Awaits == {"connect", "exchange", "body"}   \* the HTTP operations

\* app/tasks.py: the details a probe task retries on; and all there are.
TRANSIENT_ERRORS == {"connect_timeout", "read_timeout", "write_timeout", "pool_timeout",
                     "total_timeout", "connect_error"}
ErrorDetail == TRANSIENT_ERRORS \cup
  {"redirect_error", "request_error", "tls_error", "ssrf_blocked", "dns_error"}

ProbeResult ==
  [outcome : {"up", "degraded", "down", "unreachable", NULL},
   status_code : Codes \cup {NULL}, error_detail : ErrorDetail \cup {NULL}]

\* HttpUrl and validate_url_scheme_and_safety let only such URLs into a row;
\* validate_relative_path lets any character into the path of a keep-alive.
ASSUME UrlAssumption ==
  /\ StartUrls \subseteq
       {u \in Url : u.scheme # "other" /\ u.host # NULL /\ ~u.user /\ u.port_ok}
  /\ Locations \subseteq Url \cup {NULL, Unsplittable, Relative}
  /\ LookupAnswers \subseteq SUBSET Address
  /\ LoopbackNames \subseteq Names
  /\ {NULL, Unsplittable, Relative} \cap Url = {}
  /\ NULL \notin Address \cup Names \cup Int /\ Address \cap Names = {}
  /\ NULL \notin {"up", "degraded", "down", "unreachable"} \cup ErrorDetail \cup ProbeResult

ASSUME SettingsAssumption ==
  /\ Codes \subseteq Nat /\ ChunkSizes \subseteq Nat \ {0}
  /\ max_redirects \in Nat /\ max_response_bytes \in Nat \ {0}
  /\ total_timeout \in Nat \ {0}
  /\ OperationTimeout \in [Awaits -> Nat \ {0}]
  /\ SoftLimit \in Nat /\ SoftLimit >= total_timeout + 2   \* validate_timeout_budget

VARIABLES
  clock,
  pc,              \* where the coroutine waits, and what follows its end
  allow_loopback,  \* the argument; no step changes it
  current_url, redirect_count,
  resolved,        \* the addresses the lookup of this hop returned
  pinned,          \* the address the request of this hop is sent to
  since,           \* when the awaited operation began
  status_code, bytes_read,
  thread,          \* a lookup thread is running
  result,          \* what the coroutine returned
  cause            \* history: what ended the coroutine

vars == <<clock, pc, allow_loopback, current_url, redirect_count, resolved, pinned,
          since, status_code, bytes_read, thread, result, cause>>
hop == <<allow_loopback, current_url, redirect_count, resolved, pinned>>
response == <<status_code, bytes_read>>

-----------------------------------------------------------------------------
(* Addresses *)

BLOCKED_NETWORKS == {"loopback", "reserved"}

\* A NAT64 address is judged by the IPv4 address it embeds, which is its net.
is_ip_blocked(ip) == ip.net \in BLOCKED_NETWORKS

is_loopback(ip) == ip.net = "loopback" /\ ~ip.nat64

\* Mutant: what the caller allows the first hop it allows them all.
AllowedOnEveryHop == allow_loopback

hop_allow_loopback == allow_loopback /\ redirect_count = 0

Permitted(ip) == ~is_ip_blocked(ip) \/ (hop_allow_loopback /\ is_loopback(ip))

-----------------------------------------------------------------------------
(* Results *)

Result(outcome, code, detail) ==
  [outcome |-> outcome, status_code |-> code, error_detail |-> detail]

_build_probe_error_result(detail) == Result("unreachable", NULL, detail)

\* The function raised; no result at all.
Raised == Result(NULL, NULL, NULL)

classify_status_code(code) ==
  CASE code \in 100 .. 399 -> "up"
    [] code \in 400 .. 499 -> "degraded"
    [] OTHER               -> "down"     \* 5xx, and ValueError's handler

\* tls: is_tls_exception finds TLS in the exception or its causes.
HttpxException ==
  [type : {"ConnectTimeout", "ReadTimeout", "WriteTimeout", "TooManyRedirects",
           "ConnectError", "RequestError"}, tls : BOOLEAN]

\* Everything that may end the coroutine.
Cause == HttpxException \cup
  [type : {"SSRFBlockedError", "DNSResolutionError", "ValueError", "InvalidURL", "TimeoutError",
           "response"},
   tls : {FALSE}]

ASSUME NullAssumption == NULL \notin Cause

\* isinstance: every httpx exception listed is a RequestError.
IsInstance(exc, type) == type \in {exc.type, "RequestError"}

\* Mutant: the base class first.
TableBaseFirst ==
  << <<"RequestError", "request_error">>, <<"ConnectTimeout", "connect_timeout">>,
     <<"ReadTimeout", "read_timeout">>, <<"WriteTimeout", "write_timeout">>,
     <<"PoolTimeout", "pool_timeout">>, <<"TooManyRedirects", "redirect_error">>,
     <<"ConnectError", "connect_error">> >>

HTTPX_EXCEPTION_TABLE ==
  << <<"ConnectTimeout", "connect_timeout">>, <<"ReadTimeout", "read_timeout">>,
     <<"WriteTimeout", "write_timeout">>, <<"PoolTimeout", "pool_timeout">>,
     <<"TooManyRedirects", "redirect_error">>, <<"ConnectError", "connect_error">>,
     <<"RequestError", "request_error">> >>

\* The first entry the exception is an instance of.
Entry(exc) ==
  CHOOSE i \in 1 .. 7 :
    /\ IsInstance(exc, HTTPX_EXCEPTION_TABLE[i][1])
    /\ \A j \in 1 .. (i - 1) : ~IsInstance(exc, HTTPX_EXCEPTION_TABLE[j][1])

\* Mutant: the name of the exception is stored.
DetailIsTheType(exc) == exc.type

error_detail(exc) ==
  IF HTTPX_EXCEPTION_TABLE[Entry(exc)][1] = "ConnectError" /\ exc.tls
  THEN "tls_error" ELSE HTTPX_EXCEPTION_TABLE[Entry(exc)][2]

-----------------------------------------------------------------------------
(* The coroutine.  A step runs from one await to the next, or to the end. *)

Await(op) == pc' = op /\ since' = clock /\ UNCHANGED <<result, cause>>

\* The coroutine ends; why is recorded for the properties.
End(why, res) == pc' = "ended" /\ since' = clock /\ cause' = why /\ result' = res

\* An httpx exception reaches the handler around the loop.
Throw(exc) == End(exc, _build_probe_error_result(error_detail(exc)))

Why(type) == [type |-> type, tls |-> FALSE]

\* Mutant: only the validation's own handler turns a refusal into a result.
BlockUncaught == End(Why("SSRFBlockedError"), Raised)

\* SSRFBlockedError, from the validation or for a redirect's scheme.
Block == End(Why("SSRFBlockedError"), _build_probe_error_result("ssrf_blocked"))

\* What nothing in the function catches.
Raise(type) == End(Why(type), Raised)

Respond(code) == End(Why("response"), Result(classify_status_code(code), code, NULL))

Init ==
  /\ clock = 0 /\ pc = "validate" /\ since = 0
  /\ allow_loopback \in BOOLEAN
  /\ current_url \in StartUrls /\ redirect_count = 0
  /\ resolved = {} /\ pinned = NULL
  /\ status_code = NULL /\ bytes_read = 0 /\ thread = FALSE
  /\ result = NULL /\ cause = NULL

\* What the validation refuses without asking the resolver.
Refused(url) ==
  \/ url.scheme = "other" \/ url.host = NULL \/ url.user
  \/ url.host \in Address /\ ~Permitted(url.host)
  \/ url.host \in LoopbackNames /\ ~hop_allow_loopback

Refuse ==
  /\ pc = "validate" /\ Refused(current_url)
  /\ Block
  /\ UNCHANGED <<clock, hop, response, thread>>

\* A port that is no number: reading parsed.port raises ValueError.
BadPort ==
  /\ pc = "validate" /\ ~Refused(current_url) /\ ~current_url.port_ok
  /\ Raise("ValueError")
  /\ UNCHANGED <<clock, hop, response, thread>>

\* The request to pinned is sent, unless httpx refuses to build it.
Send ==
  \/ current_url.sendable /\ Await("connect")
  \/ ~current_url.sendable /\ Raise("InvalidURL")

\* A literal address is its own answer.
Literal ==
  /\ pc = "validate" /\ ~Refused(current_url) /\ current_url.port_ok
  /\ current_url.host \in Address
  /\ resolved' = {current_url.host} /\ pinned' = current_url.host
  /\ Send
  /\ UNCHANGED <<clock, allow_loopback, current_url, redirect_count, response, thread>>

Lookup ==
  /\ pc = "validate" /\ ~Refused(current_url) /\ current_url.port_ok
  /\ current_url.host \in Names
  /\ thread' = TRUE
  /\ Await("lookup")
  /\ UNCHANGED <<clock, hop, response>>

AllPermitted(answer) == \A ip \in answer : Permitted(ip)

\* The request will go to the address listed first, which may be any.
LookupPermits ==
  /\ pc = "lookup"
  /\ \E answer \in LookupAnswers \ {{}} :
       AllPermitted(answer) /\ resolved' = answer /\ pinned' \in answer
  /\ thread' = FALSE
  /\ Send
  /\ UNCHANGED <<clock, allow_loopback, current_url, redirect_count, response>>

LookupRefused ==
  /\ pc = "lookup"
  /\ \E answer \in LookupAnswers : ~AllPermitted(answer)
  /\ thread' = FALSE
  /\ Block
  /\ UNCHANGED <<clock, hop, response>>

\* The lookup raises, or returns no address.
LookupFails ==
  /\ pc = "lookup"
  /\ thread' = FALSE
  /\ End(Why("DNSResolutionError"), _build_probe_error_result("dns_error"))
  /\ UNCHANGED <<clock, hop, response>>

\* The connection to pinned is open, TLS included.
Connected ==
  /\ pc = "connect"
  /\ Await("exchange")
  /\ UNCHANGED <<clock, hop, response, thread>>

ConnectFails ==
  /\ pc = "connect"
  /\ \E tls \in BOOLEAN : Throw([type |-> "ConnectError", tls |-> tls])
  /\ UNCHANGED <<clock, hop, response, thread>>

\* The request or the response breaks off: no ConnectError, whatever the reason.
ExchangeFails ==
  /\ pc \in {"exchange", "body"}
  /\ \E tls \in BOOLEAN : Throw([type |-> "RequestError", tls |-> tls])
  /\ UNCHANGED <<clock, hop, response, thread>>

\* One of the operation's timeouts.  It may have several, one after the other.
TimesOut ==
  /\ pc \in Awaits
  /\ clock >= since + OperationTimeout[pc]
  /\ \E type \in CASE pc = "connect"  -> {"ConnectTimeout"}
                   [] pc = "exchange" -> {"WriteTimeout", "ReadTimeout"}
                   [] pc = "body"     -> {"ReadTimeout"} : Throw(Why(type))
  /\ UNCHANGED <<clock, hop, response, thread>>

is_redirect(code) == code \in 300 .. 399

\* The headers of a final response; its body is read next.
Answer ==
  /\ pc = "exchange"
  /\ \E code \in Codes : ~is_redirect(code) /\ status_code' = code
  /\ Await("body")
  /\ UNCHANGED <<clock, hop, bytes_read, thread>>

\* Any 3xx counts, with a Location or without.
TooManyRedirects ==
  /\ pc = "exchange" /\ redirect_count >= max_redirects
  /\ \E code \in Codes : is_redirect(code)
  /\ Throw(Why("TooManyRedirects"))
  /\ UNCHANGED <<clock, hop, response, thread>>

\* A redirect this hop may still follow, to location.
MayFollow(location) ==
  /\ pc = "exchange" /\ redirect_count < max_redirects
  /\ location \in Locations
  /\ \E code \in Codes : is_redirect(code)

NoLocation ==
  /\ MayFollow(NULL)
  /\ \E code \in Codes : is_redirect(code) /\ status_code' = code /\ Respond(code)
  /\ UNCHANGED <<clock, hop, bytes_read, thread>>

BadLocation ==
  /\ MayFollow(Unsplittable)
  /\ Raise("ValueError")
  /\ UNCHANGED <<clock, hop, response, thread>>

urljoin(location) == IF location = Relative THEN current_url ELSE location

BadScheme ==
  /\ \E location \in Locations \ {NULL, Unsplittable} :
       MayFollow(location) /\ urljoin(location).scheme = "other"
  /\ Block
  /\ UNCHANGED <<clock, hop, response, thread>>

Follow ==
  /\ \E location \in Locations \ {NULL, Unsplittable} :
       /\ MayFollow(location) /\ urljoin(location).scheme # "other"
       /\ current_url' = urljoin(location)
  /\ redirect_count' = redirect_count + 1
  /\ Await("validate")
  /\ UNCHANGED <<clock, allow_loopback, resolved, pinned, response, thread>>

\* Mutant: the size is compared before the chunk is counted.
TooLargeBefore(n) == bytes_read > max_response_bytes

TooLarge(n) == bytes_read + n > max_response_bytes

Chunk ==
  /\ pc = "body"
  /\ \E n \in ChunkSizes : ~TooLarge(n) /\ bytes_read' = bytes_read + n
  /\ Await("body")
  /\ UNCHANGED <<clock, hop, status_code, thread>>

\* The last chunk, or one that exceeds the bound: no more is read.
LastChunk ==
  /\ pc = "body"
  /\ \/ \E n \in ChunkSizes : TooLarge(n) /\ bytes_read' = bytes_read + n
     \/ UNCHANGED bytes_read
  /\ Respond(status_code)
  /\ UNCHANGED <<clock, hop, status_code, thread>>

\* Mutant: the deadline is set once the first name has been looked up.
UnderDeadlineOnceResolved == pc \in Awaits \/ (pc = "lookup" /\ redirect_count > 0)

\* asyncio.timeout(effective_total_timeout) is around every await.
UnderDeadline == pc \in {"lookup"} \cup Awaits

\* It cancels whatever is awaited, even if the answer has arrived; a lookup
\* goes on in its thread.
Deadline ==
  /\ UnderDeadline /\ clock >= total_timeout
  /\ End(Why("TimeoutError"), _build_probe_error_result("total_timeout"))
  /\ UNCHANGED <<clock, hop, response, thread>>

-----------------------------------------------------------------------------
(* The bridge, robust_ping or robust_keep_alive. *)

\* A lookup that nobody waits for any more comes back.
ThreadEnds ==
  /\ pc = "ended" /\ thread
  /\ thread' = FALSE
  /\ UNCHANGED <<clock, pc, hop, since, response, result, cause>>

Return ==
  /\ pc = "ended" /\ ~thread
  /\ pc' = "returned"
  /\ UNCHANGED <<clock, hop, since, response, thread, result, cause>>

\* SoftTimeLimitExceeded reaches the worker's main thread in asyncio.run: the
\* task never sees the result.
SoftTimeLimit ==
  /\ pc \notin {"returned", "interrupted"} /\ clock >= SoftLimit
  /\ pc' = "interrupted"
  /\ UNCHANGED <<clock, hop, since, response, thread, result, cause>>

\* A timer that has gone off, or code that waits for nothing, comes first.
Prompt ==
  \/ pc \in {"validate", "returned", "interrupted"}
  \/ pc = "ended" /\ ~thread
  \/ UnderDeadline /\ clock >= total_timeout
  \/ clock >= SoftLimit

Tick ==
  /\ ~Prompt
  /\ clock' = clock + 1
  /\ UNCHANGED <<pc, hop, since, response, thread, result, cause>>

Validate == Refuse \/ BadPort \/ Literal \/ Lookup

\* What the target and the resolver decide.
Environment ==
  \/ LookupPermits \/ LookupRefused \/ LookupFails \/ ThreadEnds
  \/ Connected \/ ConnectFails \/ ExchangeFails \/ Answer \/ TooManyRedirects
  \/ NoLocation \/ BadLocation \/ BadScheme \/ Follow \/ Chunk \/ LastChunk

Step == Validate \/ TimesOut \/ Deadline \/ Return \/ SoftTimeLimit

Next == Tick \/ Step \/ Environment

Spec == Init /\ [][Next]_vars

\* Time passes and the worker runs.  The target may never answer, the lookup
\* never end.
FairSpec == Spec /\ WF_vars(Tick) /\ WF_vars(Step)

-----------------------------------------------------------------------------
(* Properties *)

TypeOK ==
  /\ clock \in Nat /\ since \in Nat
  /\ pc \in {"validate", "lookup", "ended", "returned", "interrupted"} \cup Awaits
  /\ allow_loopback \in BOOLEAN /\ thread \in BOOLEAN
  /\ current_url \in Url /\ redirect_count \in Nat
  /\ resolved \subseteq Address /\ pinned \in Address \cup {NULL}
  /\ status_code \in Codes \cup {NULL} /\ bytes_read \in Nat
  /\ result \in ProbeResult \cup {NULL}
  /\ cause \in Cause \cup {NULL}

\* A request goes to an address the lookup of its own hop returned, or the
\* literal its URL names, and every address of that lookup is global; loopback
\* only where the caller allows it, and never behind a redirect.
RequestsGoWhereValidated ==
  pc \in Awaits =>
    /\ pinned \in resolved
    /\ current_url.host \in Address => pinned = current_url.host
    /\ \A ip \in resolved :
         ip.net = "global" \/ (ip = [net |-> "loopback", nat64 |-> FALSE]
                               /\ allow_loopback /\ redirect_count = 0)

\* However the target redirects and streams: no more requests than redirects
\* allowed and one, and at most one chunk past the bound on the body.
WorkIsBounded ==
  /\ redirect_count <= max_redirects
  /\ pc = "body" => bytes_read <= max_response_bytes
  /\ \E n \in ChunkSizes \cup {0} : bytes_read <= max_response_bytes + n

\* Past its deadline a probe has its result, and what keeps its worker waiting,
\* until the soft limit at worst, is a name lookup.
OnlyLookupsRunLate ==
  [][clock' > clock /\ clock' > total_timeout =>
       thread /\ result # NULL /\ cause.type = "TimeoutError"]_vars

\* The details execute_ping retries on stand for timeouts and for connections
\* that failed for no reason of TLS: the exception table, the deadline and
\* TRANSIENT_ERRORS agree.  A retried answer is never a target that was up.
Transient(why) ==
  \/ why.type \in {"ConnectTimeout", "ReadTimeout", "WriteTimeout", "TimeoutError"}
  \/ why.type = "ConnectError" /\ ~why.tls
RetriedIffTransient ==
  result # NULL =>
    /\ result.error_detail \in TRANSIENT_ERRORS <=> Transient(cause)
    /\ Transient(cause) => result.outcome = "unreachable"

\* An exception leaves the probe, and the task without a result, only for a
\* URL a redirect leads to or one httpx cannot send: never for a refused target
\* or a failure of the network.
RaisesOnlyForUrls ==
  result = Raised =>
    \/ cause.type = "ValueError" /\ max_redirects > 0 /\ pinned # NULL
    \/ cause.type = "InvalidURL" /\ ~current_url.sendable

\* The coroutine ends by itself, whether or not target and resolver ever answer.
ProbeAnswers == <>(result # NULL)
=============================================================================

-------------------------- MODULE HttpProbeProofs --------------------------
(***************************************************************************)
(* Proofs about HttpProbe: for any set of targets, redirects, resolver     *)
(* answers, limits and timeouts.                                           *)
(***************************************************************************)
EXTENDS HttpProbe, TLAPS

Running == {"validate", "lookup"} \cup Awaits

\* While the coroutine runs there is no result and the deadline is not past.
\* A lookup thread belongs to the lookup awaited, or to one that was cut off.
Phases ==
  /\ pc \in Running => result = NULL /\ clock <= total_timeout
  /\ pc \in Running \ {"body"} => bytes_read = 0
  /\ pc = "body" => status_code \in Codes
  /\ pc \notin Running => result # NULL /\ cause # NULL
  /\ thread /\ pc # "lookup" => pc \notin Running /\ cause.type = "TimeoutError"

\* The URL of the first hop is the monitor's; a later one follows a request.
Origin ==
  /\ redirect_count = 0 => current_url.port_ok
  /\ redirect_count > 0 => pinned # NULL
  /\ pc \in Awaits => pinned # NULL
  /\ pc = "lookup" => current_url.host \notin Address

IInv == TypeOK /\ Phases /\ Origin /\ RequestsGoWhereValidated /\ WorkIsBounded
        /\ RetriedIffTransient /\ RaisesOnlyForUrls

LEMMA FirstEntry ==
  ASSUME NEW exc \in HttpxException, NEW k \in 1 .. 7,
         IsInstance(exc, HTTPX_EXCEPTION_TABLE[k][1]),
         \A j \in 1 .. (k - 1) : ~IsInstance(exc, HTTPX_EXCEPTION_TABLE[j][1])
  PROVE  Entry(exc) = k
<1> DEFINE First(i) == /\ IsInstance(exc, HTTPX_EXCEPTION_TABLE[i][1])
                       /\ \A j \in 1 .. (i - 1) : ~IsInstance(exc, HTTPX_EXCEPTION_TABLE[j][1])
<1>1. First(k)
  OBVIOUS
<1>2. ASSUME NEW i \in 1 .. 7, First(i) PROVE i = k
  <2>1. ~(i < k) /\ ~(k < i)
    <3> HIDE DEF HTTPX_EXCEPTION_TABLE
    <3>1. i < k => i \in 1 .. (k - 1)
      OBVIOUS
    <3>2. k < i => k \in 1 .. (i - 1)
      OBVIOUS
    <3> QED BY <1>2, <3>1, <3>2
  <2> QED BY <2>1
<1>3. Entry(exc) = CHOOSE i \in 1 .. 7 : First(i)
  BY DEF Entry
<1> HIDE DEF First
<1> QED BY <1>1, <1>2, <1>3

LEMMA TableRows ==
  /\ HTTPX_EXCEPTION_TABLE[1] = <<"ConnectTimeout", "connect_timeout">>
  /\ HTTPX_EXCEPTION_TABLE[2] = <<"ReadTimeout", "read_timeout">>
  /\ HTTPX_EXCEPTION_TABLE[3] = <<"WriteTimeout", "write_timeout">>
  /\ HTTPX_EXCEPTION_TABLE[4] = <<"PoolTimeout", "pool_timeout">>
  /\ HTTPX_EXCEPTION_TABLE[5] = <<"TooManyRedirects", "redirect_error">>
  /\ HTTPX_EXCEPTION_TABLE[6] = <<"ConnectError", "connect_error">>
  /\ HTTPX_EXCEPTION_TABLE[7] = <<"RequestError", "request_error">>
BY DEF HTTPX_EXCEPTION_TABLE

\* What the table makes of each exception.
LEMMA DetailOf ==
  ASSUME NEW exc \in HttpxException
  PROVE  /\ error_detail(exc) \in ErrorDetail
         /\ error_detail(exc) \in TRANSIENT_ERRORS <=> Transient(exc)
<1>1. CASE exc.type = "ConnectTimeout"
  <2>1. Entry(exc) = 1
    BY <1>1, FirstEntry, TableRows DEF IsInstance
  <2>2. error_detail(exc) = "connect_timeout"
    BY <1>1, <2>1, TableRows DEF error_detail
  <2> QED BY <1>1, <2>2 DEF ErrorDetail, TRANSIENT_ERRORS, Transient, HttpxException
<1>2. CASE exc.type = "ReadTimeout"
  <2>1. Entry(exc) = 2
    BY <1>2, FirstEntry, TableRows DEF IsInstance
  <2>2. error_detail(exc) = "read_timeout"
    BY <1>2, <2>1, TableRows DEF error_detail
  <2> QED BY <1>2, <2>2 DEF ErrorDetail, TRANSIENT_ERRORS, Transient, HttpxException
<1>3. CASE exc.type = "WriteTimeout"
  <2>1. Entry(exc) = 3
    BY <1>3, FirstEntry, TableRows DEF IsInstance
  <2>2. error_detail(exc) = "write_timeout"
    BY <1>3, <2>1, TableRows DEF error_detail
  <2> QED BY <1>3, <2>2 DEF ErrorDetail, TRANSIENT_ERRORS, Transient, HttpxException
<1>4. CASE exc.type = "TooManyRedirects"
  <2>1. Entry(exc) = 5
    BY <1>4, FirstEntry, TableRows DEF IsInstance
  <2>2. error_detail(exc) = "redirect_error"
    BY <1>4, <2>1, TableRows DEF error_detail
  <2> QED BY <1>4, <2>2 DEF ErrorDetail, TRANSIENT_ERRORS, Transient, HttpxException
<1>5. CASE exc.type = "ConnectError"
  <2>1. Entry(exc) = 6
    BY <1>5, FirstEntry, TableRows DEF IsInstance
  <2>2. error_detail(exc) = IF exc.tls THEN "tls_error" ELSE "connect_error"
    BY <1>5, <2>1, TableRows DEF error_detail
  <2> QED BY <1>5, <2>2 DEF ErrorDetail, TRANSIENT_ERRORS, Transient, HttpxException
<1>6. CASE exc.type = "RequestError"
  <2>1. Entry(exc) = 7
    BY <1>6, FirstEntry, TableRows DEF IsInstance
  <2>2. error_detail(exc) = "request_error"
    BY <1>6, <2>1, TableRows DEF error_detail
  <2> QED BY <1>6, <2>2 DEF ErrorDetail, TRANSIENT_ERRORS, Transient, HttpxException
<1> QED BY <1>1, <1>2, <1>3, <1>4, <1>5, <1>6 DEF HttpxException

-----------------------------------------------------------------------------
(* A step that ends the coroutine. *)

LEMMA HopStays ==
  ASSUME IInv, UNCHANGED hop
  PROVE  /\ UNCHANGED <<allow_loopback, current_url, redirect_count>>
         /\ resolved' \in SUBSET Address /\ pinned' \in Address \cup {NULL}
         /\ pinned' = pinned
BY DEF IInv, TypeOK, hop

LEMMA EndKeepsInvariant ==
  ASSUME IInv, pc \in Running,
         NEW why \in Cause, NEW res \in ProbeResult, End(why, res),
         UNCHANGED <<clock, allow_loopback, current_url, redirect_count>>,
         resolved' \in SUBSET Address, pinned' \in Address \cup {NULL},
         pinned # NULL => pinned' # NULL, thread' \in BOOLEAN,
         status_code' \in Codes \cup {NULL}, bytes_read' \in Nat,
         \E n \in ChunkSizes \cup {0} : bytes_read' <= max_response_bytes + n,
         thread' => why.type = "TimeoutError",
         res.error_detail \in TRANSIENT_ERRORS <=> Transient(why),
         Transient(why) => res.outcome = "unreachable",
         res = Raised =>
           \/ why.type = "ValueError" /\ max_redirects > 0 /\ pinned' # NULL
           \/ why.type = "InvalidURL" /\ ~current_url.sendable
  PROVE  IInv'
<1> USE DEF End
<1>1. TypeOK'
  BY DEF IInv, TypeOK
<1>2. Phases'
  <2>1. res # NULL /\ why # NULL
    BY UrlAssumption, NullAssumption
  <2> QED BY <2>1 DEF Phases, Running, Awaits
<1>3. Origin' /\ RequestsGoWhereValidated'
  BY DEF IInv, Origin, RequestsGoWhereValidated, Awaits
<1>4. WorkIsBounded'
  BY DEF IInv, WorkIsBounded
<1>5. RetriedIffTransient' /\ RaisesOnlyForUrls'
  BY DEF RetriedIffTransient, RaisesOnlyForUrls, Transient
<1> QED BY <1>1, <1>2, <1>3, <1>4, <1>5 DEF IInv

\* The same for an exception of httpx, and for the other ways to end.
LEMMA ThrowKeepsInvariant ==
  ASSUME IInv, pc \in Running \ {"lookup"}, NEW exc \in HttpxException, Throw(exc),
         UNCHANGED <<clock, hop, response, thread>>
  PROVE  IInv'
<1>1. _build_probe_error_result(error_detail(exc)) \in ProbeResult
  BY DetailOf DEF _build_probe_error_result, Result, ProbeResult
<1>2. _build_probe_error_result(error_detail(exc)) # Raised
  BY UrlAssumption DEF _build_probe_error_result, Result, Raised
<1>3. exc \in Cause
  BY DEF Cause
<1>4. ~thread
  BY DEF IInv, Phases
<1>5. _build_probe_error_result(error_detail(exc)).error_detail = error_detail(exc)
      /\ _build_probe_error_result(error_detail(exc)).outcome = "unreachable"
  BY DEF _build_probe_error_result, Result
<1>6. bytes_read \in Nat /\ \E n \in ChunkSizes \cup {0} : bytes_read <= max_response_bytes + n
  BY DEF IInv, TypeOK, WorkIsBounded
<1> DEFINE res == _build_probe_error_result(error_detail(exc))
<1>7. End(exc, res)
  BY DEF Throw
<1>8. pc \in Running /\ UNCHANGED <<clock, hop>> /\ ~thread' /\ thread' \in BOOLEAN
      /\ bytes_read' = bytes_read /\ status_code' \in Codes \cup {NULL}
  BY <1>4 DEF response, IInv, TypeOK
<1>9. /\ res.error_detail \in TRANSIENT_ERRORS <=> Transient(exc)
      /\ Transient(exc) => res.outcome = "unreachable"
  BY <1>5, DetailOf
<1> HIDE DEF res
<1> QED
  BY <1>1, <1>2, <1>3, <1>6, <1>7, <1>8, <1>9, HopStays, EndKeepsInvariant DEF res

LEMMA OtherCauses ==
  ASSUME NEW type \in {"SSRFBlockedError", "DNSResolutionError", "ValueError", "InvalidURL",
                       "response", "TimeoutError"}
  PROVE  /\ Why(type) \in Cause /\ Why(type).type = type
         /\ Transient(Why(type)) <=> type = "TimeoutError"
<1>1. Why(type) = [type |-> type, tls |-> FALSE]
  BY DEF Why
<1> QED BY <1>1 DEF Cause, Transient

LEMMA ErrorResults ==
  ASSUME NEW detail \in ErrorDetail
  PROVE  /\ _build_probe_error_result(detail) \in ProbeResult
         /\ _build_probe_error_result(detail) # Raised
         /\ _build_probe_error_result(detail).error_detail = detail
         /\ _build_probe_error_result(detail).outcome = "unreachable"
BY UrlAssumption DEF _build_probe_error_result, Result, ProbeResult, Raised

LEMMA RaisedResult ==
  Raised \in ProbeResult /\ Raised.error_detail \notin TRANSIENT_ERRORS
BY UrlAssumption DEF Raised, Result, ProbeResult, ErrorDetail

LEMMA Responses ==
  ASSUME NEW code \in Codes
  PROVE  LET res == Result(classify_status_code(code), code, NULL) IN
         /\ res \in ProbeResult /\ res # Raised
         /\ res.error_detail \notin TRANSIENT_ERRORS
<1>1. classify_status_code(code) \in {"up", "degraded", "down"}
  BY DEF classify_status_code
<1> HIDE DEF classify_status_code
<1> QED BY <1>1, UrlAssumption DEF Result, Raised, ProbeResult, ErrorDetail

\* The steps that end the coroutine without an exception of httpx.
LEMMA BlockKeepsInvariant ==
  ASSUME IInv, pc \in Running, Block, UNCHANGED <<clock, hop, response>>,
         thread' = FALSE
  PROVE  IInv'
<1> DEFINE why == Why("SSRFBlockedError")
           res == _build_probe_error_result("ssrf_blocked")
<1>1. why \in Cause /\ ~Transient(why) /\ res \in ProbeResult /\ res # Raised
      /\ res.error_detail \notin TRANSIENT_ERRORS
  BY OtherCauses, ErrorResults DEF ErrorDetail, TRANSIENT_ERRORS
<1>2. End(why, res)
  BY DEF Block
<1> HIDE DEF why, res
<1>3. /\ bytes_read \in Nat /\ UNCHANGED bytes_read /\ status_code' \in Codes \cup {NULL}
      /\ \E n \in ChunkSizes \cup {0} : bytes_read <= max_response_bytes + n
  BY DEF IInv, TypeOK, WorkIsBounded, response
<1> QED BY <1>1, <1>2, <1>3, HopStays, EndKeepsInvariant

LEMMA RaiseKeepsInvariant ==
  ASSUME IInv, pc \in Running, Raise("ValueError"), UNCHANGED <<clock, hop, response>>,
         thread' = FALSE, max_redirects > 0, pinned # NULL
  PROVE  IInv'
<1> DEFINE why == Why("ValueError")
           res == Raised
<1>1. why \in Cause /\ ~Transient(why) /\ why.type = "ValueError" /\ res \in ProbeResult
      /\ res.error_detail \notin TRANSIENT_ERRORS
  BY OtherCauses, RaisedResult
<1>2. End(why, res)
  BY DEF Raise
<1> HIDE DEF why, res
<1>3. /\ bytes_read \in Nat /\ UNCHANGED bytes_read /\ status_code' \in Codes \cup {NULL}
      /\ \E n \in ChunkSizes \cup {0} : bytes_read <= max_response_bytes + n
  BY DEF IInv, TypeOK, WorkIsBounded, response
<1> QED BY <1>1, <1>2, <1>3, HopStays, EndKeepsInvariant

\* A request that httpx refuses to build.
LEMMA UnsendableKeepsInvariant ==
  ASSUME IInv, pc \in Running, Raise("InvalidURL"), ~current_url.sendable,
         UNCHANGED <<clock, allow_loopback, current_url, redirect_count, response>>,
         thread' = FALSE, resolved' \in SUBSET Address, pinned' \in Address
  PROVE  IInv'
<1> DEFINE why == Why("InvalidURL")
           res == Raised
<1>1. why \in Cause /\ ~Transient(why) /\ why.type = "InvalidURL" /\ res \in ProbeResult
      /\ res.error_detail \notin TRANSIENT_ERRORS
  BY OtherCauses, RaisedResult
<1>2. End(why, res)
  BY DEF Raise
<1>3. pinned' # NULL
  BY UrlAssumption
<1> HIDE DEF why, res
<1>4. /\ bytes_read \in Nat /\ UNCHANGED bytes_read /\ status_code' \in Codes \cup {NULL}
      /\ \E n \in ChunkSizes \cup {0} : bytes_read <= max_response_bytes + n
  BY DEF IInv, TypeOK, WorkIsBounded, response
<1> QED BY <1>1, <1>2, <1>3, <1>4, EndKeepsInvariant

LEMMA RespondKeepsInvariant ==
  ASSUME IInv, pc \in Awaits, NEW code \in Codes, Respond(code),
         UNCHANGED <<clock, hop, thread>>, status_code' \in Codes, bytes_read' \in Nat,
         \E n \in ChunkSizes \cup {0} : bytes_read' <= max_response_bytes + n
  PROVE  IInv'
<1> DEFINE why == Why("response")
           res == Result(classify_status_code(code), code, NULL)
<1>1. why \in Cause /\ ~Transient(why) /\ res \in ProbeResult /\ res # Raised
      /\ res.error_detail \notin TRANSIENT_ERRORS
  BY OtherCauses, Responses
<1>2. End(why, res)
  BY DEF Respond
<1>3. ~thread' /\ thread' \in BOOLEAN /\ pc \in Running
  BY DEF IInv, TypeOK, Phases, Running, Awaits
<1> HIDE DEF why, res
<1> QED BY <1>1, <1>2, <1>3, HopStays, EndKeepsInvariant

-----------------------------------------------------------------------------
(* A step to the next await. *)

LEMMA AwaitKeepsInvariant ==
  ASSUME IInv, pc \in Running, NEW op \in Running, Await(op), clock' = clock,
         thread' \in BOOLEAN, thread' => op = "lookup",
         allow_loopback' = allow_loopback, current_url' \in Url,
         redirect_count' \in 0 .. max_redirects, resolved' \in SUBSET Address,
         pinned' \in Address \cup {NULL}, status_code' \in Codes \cup {NULL},
         bytes_read' \in 0 .. max_response_bytes, op # "body" => bytes_read' = 0,
         op = "body" => status_code' \in Codes,
         redirect_count' = 0 => current_url'.port_ok,
         redirect_count' > 0 => pinned' # NULL,
         op = "lookup" => current_url'.host \notin Address,
         op \in Awaits => pinned' # NULL /\ RequestsGoWhereValidated'
  PROVE  IInv'
<1> USE DEF Await
<1>1. TypeOK'
  BY DEF IInv, TypeOK, Running, Awaits
<1>2. Phases'
  BY DEF IInv, Phases, Running, Awaits
<1>3. Origin'
  BY DEF Origin
<1>4. RequestsGoWhereValidated'
  BY DEF RequestsGoWhereValidated
<1>5. WorkIsBounded'
  <2>1. redirect_count' <= max_redirects /\ bytes_read' <= max_response_bytes + 0
    BY SettingsAssumption
  <2> QED BY <2>1 DEF WorkIsBounded
<1>6. RetriedIffTransient' /\ RaisesOnlyForUrls'
  <2>1. result' = NULL
    BY DEF IInv, Phases
  <2>2. Raised # NULL
    BY RaisedResult, UrlAssumption
  <2> QED BY <2>1, <2>2 DEF RetriedIffTransient, RaisesOnlyForUrls
<1> QED BY <1>1, <1>2, <1>3, <1>4, <1>5, <1>6 DEF IInv

-----------------------------------------------------------------------------
(* Every step. *)

LEMMA ValidateKeepsInvariant ==
  ASSUME IInv, Validate
  PROVE  IInv'
<1>0. /\ pc \in Running /\ thread = FALSE /\ bytes_read = 0
      /\ redirect_count \in 0 .. max_redirects
      /\ TypeOK /\ Origin /\ pc = "validate"
  BY SettingsAssumption DEF Validate, Refuse, BadPort, Literal, Lookup, IInv, Phases, Running,
     TypeOK, WorkIsBounded
<1>1. CASE Refuse
  BY <1>0, <1>1, BlockKeepsInvariant DEF Refuse
<1>2. CASE BadPort
  <2>1. redirect_count > 0 /\ max_redirects > 0 /\ pinned # NULL
    BY <1>0, <1>2, SettingsAssumption DEF BadPort, Origin
  <2> QED BY <1>0, <1>2, <2>1, RaiseKeepsInvariant DEF BadPort
<1>3. CASE Literal
  <2>1. /\ Send /\ clock' = clock /\ thread' = FALSE /\ allow_loopback' = allow_loopback
        /\ UNCHANGED <<current_url, redirect_count, status_code, bytes_read>>
        /\ resolved' = {current_url.host} /\ pinned' = current_url.host
        /\ current_url.host \in Address /\ Permitted(current_url.host)
    BY <1>0, <1>3 DEF Literal, response, Refused
  <2>3. pinned' # NULL /\ 0 <= max_response_bytes
    BY <2>1, UrlAssumption, SettingsAssumption
  <2>4. /\ current_url' \in Url /\ redirect_count' \in 0 .. max_redirects
        /\ resolved' \in SUBSET Address /\ pinned' \in Address \cup {NULL}
        /\ status_code' \in Codes \cup {NULL} /\ bytes_read' \in 0 .. max_response_bytes
        /\ redirect_count' = 0 => current_url'.port_ok
    BY <1>0, <2>1, <2>3, SettingsAssumption DEF TypeOK, Origin
  <2>5. CASE Await("connect")
    <3>1. RequestsGoWhereValidated'
      BY <1>0, <2>1, <2>5 DEF RequestsGoWhereValidated, Permitted, is_ip_blocked,
         BLOCKED_NETWORKS, hop_allow_loopback, is_loopback, Address, Await
    <3> QED BY <1>0, <2>1, <2>3, <2>4, <2>5, <3>1, AwaitKeepsInvariant DEF Running, Awaits
  <2>6. CASE ~current_url.sendable /\ Raise("InvalidURL")
    BY <1>0, <2>1, <2>6, UnsendableKeepsInvariant DEF response
  <2> QED BY <2>1, <2>5, <2>6 DEF Send
<1>4. CASE Lookup
  <2>0. current_url.host \notin Address
    BY <1>4, UrlAssumption DEF Lookup
  <2>1. /\ Await("lookup") /\ clock' = clock /\ thread' = TRUE
        /\ UNCHANGED <<allow_loopback, current_url, redirect_count, resolved, pinned,
                       status_code, bytes_read>>
    BY <1>4 DEF Lookup, response, hop
  <2>2. /\ current_url' \in Url /\ redirect_count' \in 0 .. max_redirects
        /\ resolved' \in SUBSET Address /\ pinned' \in Address \cup {NULL}
        /\ status_code' \in Codes \cup {NULL} /\ bytes_read' \in 0 .. max_response_bytes
        /\ redirect_count' = 0 => current_url'.port_ok
        /\ redirect_count' > 0 => pinned' # NULL
        /\ current_url'.host \notin Address
    BY <1>0, <2>1, <2>0, SettingsAssumption DEF TypeOK, Origin
  <2> QED BY <1>0, <2>1, <2>2, AwaitKeepsInvariant DEF Running, Awaits
<1> QED BY <1>1, <1>2, <1>3, <1>4 DEF Validate

LEMMA LookupEndsKeepsInvariant ==
  ASSUME IInv, LookupPermits \/ LookupRefused \/ LookupFails
  PROVE  IInv'
<1>0. /\ pc \in Running /\ bytes_read = 0 /\ redirect_count \in 0 .. max_redirects
      /\ TypeOK /\ Origin /\ pc = "lookup" /\ thread' = FALSE
  BY SettingsAssumption DEF LookupPermits, LookupRefused, LookupFails, IInv, Phases, Running,
     TypeOK, WorkIsBounded
<1>1. CASE LookupPermits
  <2>1. PICK answer \in LookupAnswers \ {{}} :
          AllPermitted(answer) /\ resolved' = answer /\ pinned' \in answer
    BY <1>1 DEF LookupPermits
  <2>2. /\ Send /\ clock' = clock /\ allow_loopback' = allow_loopback
        /\ UNCHANGED <<current_url, redirect_count, status_code, bytes_read>>
    BY <1>1 DEF LookupPermits, response
  <2>3. answer \subseteq Address
    BY UrlAssumption
  <2>4. current_url.host \notin Address
    BY <1>0 DEF Origin
  <2>6. pinned' # NULL /\ 0 <= max_response_bytes
    BY <2>1, <2>3, UrlAssumption, SettingsAssumption
  <2>7. /\ current_url' \in Url /\ redirect_count' \in 0 .. max_redirects
        /\ resolved' \in SUBSET Address /\ pinned' \in Address \cup {NULL}
        /\ status_code' \in Codes \cup {NULL} /\ bytes_read' \in 0 .. max_response_bytes
        /\ redirect_count' = 0 => current_url'.port_ok
    BY <1>0, <2>1, <2>2, <2>3, <2>6, SettingsAssumption DEF TypeOK, Origin
  <2>8. CASE Await("connect")
    <3>1. RequestsGoWhereValidated'
      BY <1>0, <2>1, <2>2, <2>3, <2>4, <2>8 DEF RequestsGoWhereValidated, AllPermitted,
         Permitted, is_ip_blocked, BLOCKED_NETWORKS, hop_allow_loopback, is_loopback, Address,
         Await
    <3> QED BY <1>0, <2>2, <2>6, <2>7, <2>8, <3>1, AwaitKeepsInvariant DEF Running, Awaits
  <2>9. CASE ~current_url.sendable /\ Raise("InvalidURL")
    BY <1>0, <2>1, <2>2, <2>3, <2>9, UnsendableKeepsInvariant DEF response
  <2> QED BY <2>2, <2>8, <2>9 DEF Send
<1>2. CASE LookupRefused
  BY <1>0, <1>2, BlockKeepsInvariant DEF LookupRefused
<1>3. CASE LookupFails
  <2> DEFINE why == Why("DNSResolutionError")
             res == _build_probe_error_result("dns_error")
  <2>1. why \in Cause /\ ~Transient(why) /\ res \in ProbeResult /\ res # Raised
        /\ res.error_detail \notin TRANSIENT_ERRORS
    BY OtherCauses, ErrorResults DEF ErrorDetail, TRANSIENT_ERRORS
  <2>2. End(why, res)
    BY <1>3 DEF LookupFails
  <2> HIDE DEF why, res
  <2>3. /\ bytes_read' \in Nat /\ status_code' \in Codes \cup {NULL} /\ UNCHANGED <<clock, hop>>
        /\ \E n \in ChunkSizes \cup {0} : bytes_read' <= max_response_bytes + n
    BY <1>3 DEF LookupFails, IInv, TypeOK, WorkIsBounded, response
  <2> QED BY <1>0, <2>1, <2>2, <2>3, HopStays, EndKeepsInvariant
<1> QED BY <1>1, <1>2, <1>3

LEMMA FailuresKeepInvariant ==
  ASSUME IInv, ConnectFails \/ ExchangeFails \/ TimesOut \/ TooManyRedirects
  PROVE  IInv'
<1>1. PICK exc \in HttpxException : Throw(exc)
  <2>1. CASE ConnectFails
    BY <2>1 DEF ConnectFails, HttpxException
  <2>2. CASE ExchangeFails
    BY <2>2 DEF ExchangeFails, HttpxException
  <2>3. CASE TimesOut
    <3>1. PICK type \in {"ConnectTimeout", "WriteTimeout", "ReadTimeout"} : Throw(Why(type))
      BY <2>3 DEF TimesOut, Awaits
    <3> QED BY <3>1 DEF Why, HttpxException
  <2>4. CASE TooManyRedirects
    BY <2>4 DEF TooManyRedirects, Why, HttpxException
  <2> QED BY <2>1, <2>2, <2>3, <2>4
<1>2. pc \in Running \ {"lookup"} /\ UNCHANGED <<clock, hop, response, thread>>
  BY DEF ConnectFails, ExchangeFails, TimesOut, TooManyRedirects, Running, Awaits
<1> QED BY <1>1, <1>2, ThrowKeepsInvariant

LEMMA ConnectedKeepsInvariant ==
  ASSUME IInv, Connected
  PROVE  IInv'
<1>1. /\ Await("exchange") /\ clock' = clock /\ thread' = FALSE /\ pc \in Running
      /\ UNCHANGED <<allow_loopback, current_url, redirect_count, resolved, pinned,
                     status_code, bytes_read>>
      /\ pinned # NULL /\ bytes_read = 0
  BY DEF Connected, hop, response, IInv, Phases, Origin, Running, Awaits, TypeOK
<1>2. RequestsGoWhereValidated'
  BY <1>1 DEF IInv, RequestsGoWhereValidated, Connected, Awaits
<1>3. /\ current_url' \in Url /\ redirect_count' \in 0 .. max_redirects
      /\ resolved' \in SUBSET Address /\ pinned' \in Address \cup {NULL}
      /\ status_code' \in Codes \cup {NULL} /\ bytes_read' \in 0 .. max_response_bytes
      /\ redirect_count' = 0 => current_url'.port_ok
  BY <1>1, SettingsAssumption DEF IInv, TypeOK, Origin, WorkIsBounded
<1> QED BY <1>1, <1>2, <1>3, AwaitKeepsInvariant DEF Running, Awaits

\* Headers and body of a final response.
LEMMA ResponseKeepsInvariant ==
  ASSUME IInv, Answer \/ Chunk \/ LastChunk
  PROVE  IInv'
<1>0. /\ pc \in Awaits /\ pc \in Running /\ pinned # NULL /\ thread = FALSE /\ TypeOK
      /\ thread' = FALSE
      /\ UNCHANGED <<clock, allow_loopback, current_url, redirect_count, resolved, pinned>>
  BY DEF Answer, Chunk, LastChunk, hop, IInv, Phases, Origin, Running, Awaits, TypeOK
<1>1. ASSUME Await("body"), status_code' \in Codes,
             bytes_read' \in 0 .. max_response_bytes
      PROVE  IInv'
  <2>1. RequestsGoWhereValidated'
    BY <1>0 DEF IInv, RequestsGoWhereValidated
  <2>2. /\ current_url' \in Url /\ redirect_count' \in 0 .. max_redirects
        /\ resolved' \in SUBSET Address /\ pinned' \in Address \cup {NULL}
        /\ redirect_count' = 0 => current_url'.port_ok
    BY <1>0, SettingsAssumption DEF IInv, TypeOK, Origin, WorkIsBounded
  <2> QED BY <1>0, <1>1, <2>1, <2>2, AwaitKeepsInvariant DEF Running, Awaits
<1>2. CASE Answer
  <2>1. bytes_read = 0 /\ bytes_read' = bytes_read
    BY <1>2 DEF Answer, IInv, Phases, Running, Awaits
  <2>2. bytes_read' \in 0 .. max_response_bytes
    BY <2>1, SettingsAssumption
  <2> QED BY <1>1, <1>2, <2>2 DEF Answer
<1>3. CASE Chunk
  <2>1. PICK n \in ChunkSizes : ~TooLarge(n) /\ bytes_read' = bytes_read + n
    BY <1>3 DEF Chunk
  <2>2. bytes_read' \in 0 .. max_response_bytes
    BY <1>0, <2>1, SettingsAssumption DEF TooLarge, TypeOK
  <2>3. Await("body") /\ status_code' \in Codes
    BY <1>3 DEF Chunk, IInv, Phases
  <2> QED BY <1>1, <2>2, <2>3
<1>4. CASE LastChunk
  <2>1. status_code \in Codes
    BY <1>4 DEF LastChunk, IInv, Phases
  <2>2. bytes_read' \in Nat
        /\ \E n \in ChunkSizes \cup {0} : bytes_read' <= max_response_bytes + n
    <3>1. bytes_read \in Nat /\ bytes_read <= max_response_bytes
      BY <1>4 DEF LastChunk, IInv, TypeOK, WorkIsBounded
    <3>2. CASE UNCHANGED bytes_read
      BY <3>1, <3>2, SettingsAssumption
    <3>3. CASE \E n \in ChunkSizes : bytes_read' = bytes_read + n
      <4>1. PICK n \in ChunkSizes : bytes_read' = bytes_read + n
        BY <3>3
      <4> QED BY <3>1, <4>1, SettingsAssumption
    <3> QED BY <1>4, <3>2, <3>3 DEF LastChunk
  <2> QED BY <1>0, <1>4, <2>1, <2>2, RespondKeepsInvariant DEF LastChunk, hop
<1> QED BY <1>2, <1>3, <1>4

LEMMA RedirectKeepsInvariant ==
  ASSUME IInv, NoLocation \/ BadLocation \/ BadScheme \/ Follow
  PROVE  IInv'
<1>0. /\ pc = "exchange" /\ pc \in Running /\ pc \in Awaits
      /\ pinned # NULL /\ bytes_read = 0 /\ thread = FALSE /\ TypeOK
      /\ redirect_count \in Nat /\ redirect_count < max_redirects
  BY DEF NoLocation, BadLocation, BadScheme, Follow, MayFollow, IInv, Phases, Origin,
     Running, Awaits, TypeOK
<1>1. CASE NoLocation
  <2>1. PICK code \in Codes : status_code' = code /\ Respond(code)
    BY <1>1 DEF NoLocation
  <2>2. bytes_read' = 0 /\ max_response_bytes \in Nat /\ UNCHANGED <<clock, hop, thread>>
    BY <1>0, <1>1, SettingsAssumption DEF NoLocation
  <2>3. \E n \in ChunkSizes \cup {0} : bytes_read' <= max_response_bytes + n
    BY <2>2
  <2> QED BY <1>0, <2>1, <2>2, <2>3, RespondKeepsInvariant
<1>2. CASE BadLocation
  <2>1. max_redirects > 0
    BY <1>0, SettingsAssumption
  <2> QED BY <1>0, <1>2, <2>1, RaiseKeepsInvariant DEF BadLocation
<1>3. CASE BadScheme
  BY <1>0, <1>3, BlockKeepsInvariant DEF BadScheme
<1>4. CASE Follow
  <2>1. PICK location \in Locations \ {NULL, Unsplittable} : current_url' = urljoin(location)
    BY <1>4 DEF Follow
  <2>2. current_url' \in Url
    BY <1>0, <2>1, UrlAssumption DEF urljoin, TypeOK
  <2>3. /\ Await("validate") /\ clock' = clock /\ thread' = FALSE
        /\ redirect_count' = redirect_count + 1
        /\ UNCHANGED <<allow_loopback, resolved, pinned, status_code, bytes_read>>
    BY <1>0, <1>4 DEF Follow, response
  <2>4. /\ redirect_count' \in 0 .. max_redirects /\ redirect_count' # 0
        /\ resolved' \in SUBSET Address /\ pinned' \in Address \cup {NULL}
        /\ status_code' \in Codes \cup {NULL} /\ bytes_read' \in 0 .. max_response_bytes
    BY <1>0, <2>3, SettingsAssumption DEF TypeOK
  <2> QED BY <1>0, <2>2, <2>3, <2>4, AwaitKeepsInvariant DEF Running, Awaits
<1> QED BY <1>1, <1>2, <1>3, <1>4

LEMMA DeadlineKeepsInvariant ==
  ASSUME IInv, Deadline
  PROVE  IInv'
<1> DEFINE why == Why("TimeoutError")
           res == _build_probe_error_result("total_timeout")
<1>1. /\ why \in Cause /\ Transient(why) /\ why.type = "TimeoutError" /\ res \in ProbeResult
      /\ res # Raised /\ res.error_detail \in TRANSIENT_ERRORS /\ res.outcome = "unreachable"
  BY OtherCauses, ErrorResults DEF ErrorDetail, TRANSIENT_ERRORS
<1>2. End(why, res) /\ pc \in Running
  BY DEF Deadline, UnderDeadline, Running
<1> HIDE DEF why, res
<1>3. /\ bytes_read' \in Nat /\ status_code' \in Codes \cup {NULL} /\ UNCHANGED <<clock, hop>>
      /\ thread' \in BOOLEAN
      /\ \E n \in ChunkSizes \cup {0} : bytes_read' <= max_response_bytes + n
  BY DEF Deadline, IInv, TypeOK, WorkIsBounded, response
<1> QED BY <1>1, <1>2, <1>3, HopStays, EndKeepsInvariant

\* The clock and the bridge leave what the coroutine did alone.
LEMMA BridgeKeepsInvariant ==
  ASSUME IInv, ThreadEnds \/ Return \/ SoftTimeLimit \/ Tick \/ UNCHANGED vars
  PROVE  IInv'
<1>0. UNCHANGED <<allow_loopback, current_url, redirect_count, resolved, pinned, since,
                  status_code, bytes_read, result, cause>>
  BY DEF ThreadEnds, Return, SoftTimeLimit, Tick, vars, hop, response
<1>1. pc \in Running => clock < SoftLimit
  BY SettingsAssumption DEF IInv, Phases, TypeOK
<1>2. Tick /\ pc \in Running => clock + 1 <= total_timeout
  BY SettingsAssumption DEF Tick, Prompt, UnderDeadline, Running, IInv, TypeOK
<1>3. TypeOK'
  <2>1. clock' \in Nat /\ pc' \in {"returned", "interrupted", pc}
    BY DEF ThreadEnds, Return, SoftTimeLimit, Tick, vars, IInv, TypeOK
  <2>2. thread' \in {thread, FALSE}
    BY DEF ThreadEnds, Return, SoftTimeLimit, Tick, vars
  <2> QED BY <1>0, <2>1, <2>2 DEF IInv, TypeOK
<1>4. pc' = pc \/ (pc \notin Running /\ pc' \notin Running)
  BY <1>1, SettingsAssumption DEF ThreadEnds, Return, SoftTimeLimit, Tick, vars, Running, Awaits,
     IInv, TypeOK
<1>5. thread' => thread
  BY DEF ThreadEnds, Return, SoftTimeLimit, Tick, vars
<1>6. pc \in Running => clock' <= total_timeout
  BY <1>2 DEF ThreadEnds, Return, SoftTimeLimit, Tick, vars, IInv, Phases
<1>7. Phases'
  <2>1. /\ pc' \in Running => result' = NULL /\ clock' <= total_timeout
        /\ pc' \in Running \ {"body"} => bytes_read' = 0
        /\ pc' = "body" => status_code' \in Codes
        /\ pc' \notin Running => result' # NULL /\ cause' # NULL
    BY <1>0, <1>4, <1>6 DEF IInv, Phases, Running, Awaits
  <2>2. ASSUME thread', pc' # "lookup" PROVE pc' \notin Running /\ cause'.type = "TimeoutError"
    <3>1. CASE pc' = pc
      BY <1>0, <1>5, <2>2, <3>1 DEF IInv, Phases
    <3>2. CASE pc \notin Running /\ pc' \notin Running
      BY <1>0, <1>5, <2>2, <3>2 DEF IInv, Phases, Running
    <3> QED BY <1>4, <3>1, <3>2
  <2> QED BY <2>1, <2>2 DEF Phases
<1>8. Origin' /\ RequestsGoWhereValidated' /\ WorkIsBounded'
  BY <1>0, <1>4 DEF IInv, Origin, RequestsGoWhereValidated, WorkIsBounded, Running, Awaits
<1>9. RetriedIffTransient' /\ RaisesOnlyForUrls'
  BY <1>0 DEF IInv, RetriedIffTransient, RaisesOnlyForUrls
<1> QED BY <1>3, <1>7, <1>8, <1>9 DEF IInv

LEMMA InitInvariant == Init => IInv
<1> SUFFICES ASSUME Init PROVE IInv
  OBVIOUS
<1>1. current_url \in Url /\ current_url.port_ok
  BY UrlAssumption DEF Init
<1>2. TypeOK
  BY <1>1 DEF Init, TypeOK, Awaits
<1>3. Phases /\ Origin /\ RequestsGoWhereValidated
  BY <1>1, SettingsAssumption DEF Init, Phases, Origin, RequestsGoWhereValidated, Running, Awaits
<1>4. WorkIsBounded
  <2>1. 0 <= max_redirects /\ 0 <= max_response_bytes + 0
    BY SettingsAssumption
  <2> QED BY <2>1 DEF Init, WorkIsBounded
<1>5. RetriedIffTransient /\ RaisesOnlyForUrls
  <2>1. Raised # NULL
    BY RaisedResult, UrlAssumption
  <2> QED BY <2>1 DEF Init, RetriedIffTransient, RaisesOnlyForUrls
<1> QED BY <1>2, <1>3, <1>4, <1>5 DEF IInv

LEMMA Invariance == Spec => []IInv
<1>1. ASSUME IInv, [Next]_vars PROVE IInv'
  BY <1>1, ValidateKeepsInvariant, LookupEndsKeepsInvariant, FailuresKeepInvariant,
     ConnectedKeepsInvariant, ResponseKeepsInvariant, RedirectKeepsInvariant,
     DeadlineKeepsInvariant, BridgeKeepsInvariant DEF Next, Step, Environment
<1> QED BY <1>1, InitInvariant, PTL DEF Spec

-----------------------------------------------------------------------------
(* The theorems. *)

\* Types (TypeOK).
THEOREM TypeCorrect == Spec => []TypeOK
BY Invariance, PTL DEF IInv

\* No request leaves for an address its own hop did not validate
\* (async_resolve_and_validate_target and the pinned URL).
THEOREM RequestsAreValidated == Spec => []RequestsGoWhereValidated
BY Invariance, PTL DEF IInv

\* The redirect loop and the body stay within their bounds.
THEOREM ProbeIsBounded == Spec => []WorkIsBounded
BY Invariance, PTL DEF IInv

\* What a probe task retries is what may pass (TRANSIENT_ERRORS and the table).
THEOREM RetriesAreTransient == Spec => []RetriedIffTransient
BY Invariance, PTL DEF IInv

\* Only what httpx cannot send and where a redirect leads make the probe raise.
THEOREM ExceptionsComeFromUrls == Spec => []RaisesOnlyForUrls
BY Invariance, PTL DEF IInv

\* Past the deadline only a lookup thread keeps the worker.
THEOREM LateOnlyForLookups == Spec => OnlyLookupsRunLate
<1> DEFINE Late == clock' > clock /\ clock' > total_timeout =>
                     thread /\ result # NULL /\ cause.type = "TimeoutError"
<1>1. ASSUME IInv, [Next]_vars PROVE [Late]_vars
  <2> SUFFICES ASSUME clock' > clock, clock' > total_timeout
               PROVE  thread /\ result # NULL /\ cause.type = "TimeoutError"
    OBVIOUS
  <2>1. clock \in Nat /\ clock' # clock
    BY <1>1 DEF IInv, TypeOK
  <2>2. Tick
    BY <1>1, <2>1 DEF Next, Step, Environment, Validate, Refuse, BadPort, Literal, Lookup,
       LookupPermits, LookupRefused, LookupFails, ThreadEnds, Connected, ConnectFails,
       ExchangeFails, TimesOut, Answer, TooManyRedirects, NoLocation, BadLocation, BadScheme,
       Follow, Chunk, LastChunk, Deadline, Return, SoftTimeLimit, vars
  <2>3. clock >= total_timeout
    BY <2>1, <2>2, SettingsAssumption DEF Tick
  <2>4. pc \notin Running /\ thread
    BY <1>1, <2>2, <2>3 DEF Tick, Prompt, UnderDeadline, Running, Awaits, IInv, TypeOK
  <2> QED BY <1>1, <2>4 DEF IInv, Phases, Running
<1> QED BY <1>1, Invariance, PTL DEF Spec, OnlyLookupsRunLate
=============================================================================

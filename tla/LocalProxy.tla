----------------------------- MODULE LocalProxy -----------------------------
(***************************************************************************)
(* handleRequest of src/localProxy for the head of a message: where a      *)
(* request is sent and which headers cross the proxy.  Handlers reach      *)
(* their proxy through the global theLocalProxy and read it again for      *)
(* every field, while NewLocalProxy may replace it; the reads that only    *)
(* decide about a line of the log are left out.  The body is that of       *)
(* BodyMeasurement.tla, here one step.  fiber and fasthttp are external:   *)
(* both are told to leave header names as they are spelled, so Peek finds  *)
(* the first header of a spelling and Del deletes all of it.               *)
(* A path is the sequence of what follows each of its slashes: "/a/" is    *)
(* <<"a", "">> and "" is <<>>.  A header is its name as spelled and, for a *)
(* Connection header, the set of header names that its value lists.        *)
(***************************************************************************)
EXTENDS Integers, Sequences, SequencesExt

CONSTANTS
  Proxies,       \* the proxies a process creates
  NoProxy,       \* nil
  ProviderPath,  \* the path of the provider URL of each proxy
  Requests,      \* the requests that clients send
  Messages,      \* what a client may send: headers, path, with a body or not
  Answers,       \* the headers a provider may answer with
  CanonicalName, \* of each spelling of a header name
  EndToEndNames, \* the headers that are not about one connection
  Overlapping    \* whether a proxy may be created while another is in use

Header == [name : STRING, lists : SUBSET STRING]

ASSUME ProxyAssumption ==
  /\ NoProxy \notin Proxies
  /\ Overlapping \in BOOLEAN

ASSUME HeaderAssumption ==
  /\ \A m \in Messages : m.headers \in Seq(Header)
  /\ Answers \subseteq Seq(Header)

VARIABLES
  theLocalProxy,    \* the proxy that the handlers find
  created,          \* the proxies that NewLocalProxy has returned
  latest,           \* the last of them
  serving,          \* those whose listener is open
  handlerPc,        \* where the handler of each request is
  receiver,         \* the proxy whose listener took the request
  message,          \* what its client sent
  providerRequest,  \* what goes to the provider (host, path, headers), and by
                    \* the client of which proxy
  measuredBy,       \* the proxy whose store measured the body
  providerAnswer,   \* the headers that the provider answered with
  answer            \* what the client gets: status and headers

proxyVars == <<theLocalProxy, created, latest, serving>>
vars == <<proxyVars, handlerPc, receiver, message, providerRequest, measuredBy,
          providerAnswer, answer>>

Init ==
  /\ theLocalProxy = NoProxy
  /\ created = {} /\ latest = NoProxy
  /\ serving = {}
  /\ handlerPc = [r \in Requests |-> "idle"]
  /\ receiver = [r \in Requests |-> NoProxy]
  /\ message = [r \in Requests |-> [headers |-> <<>>, path |-> <<>>, body |-> FALSE]]
  /\ providerRequest = [r \in Requests |-> [host |-> NoProxy, client |-> NoProxy,
                                             path |-> <<>>, headers |-> <<>>]]
  /\ measuredBy = [r \in Requests |-> NoProxy]
  /\ providerAnswer = [r \in Requests |-> <<>>]
  /\ answer = [r \in Requests |-> [status |-> 0, headers |-> <<>>]]

-----------------------------------------------------------------------------
(* Mutation of HopByHopHeaderNames: one name too many. *)
HopByHopAndCredentials ==
  {"Connection", "Proxy-Connection", "Keep-Alive", "Proxy-Authenticate", "Authorization",
   "Proxy-Authorization", "TE", "Trailer", "Transfer-Encoding", "Upgrade"}

HopByHopHeaderNames ==
  {"Connection", "Proxy-Connection", "Keep-Alive", "Proxy-Authenticate",
   "Proxy-Authorization", "TE", "Trailer", "Transfer-Encoding", "Upgrade"}

(* Header.Del deletes every header of the names, and Header.Peek finds the *)
(* first one of a name.                                                    *)
Del(headers, names) ==
  LET kept[n \in 0..Len(headers)] ==
        IF n = 0 THEN <<>>
        ELSE IF headers[n].name \in names THEN kept[n - 1]
        ELSE Append(kept[n - 1], headers[n])
  IN  kept[Len(headers)]
Peek(headers, name) ==
  LET found == {n \in 1..Len(headers) : headers[n].name = name}
  IN  IF found = {} THEN {} ELSE headers[Min(found)].lists

(* removeHopByHopHeaders: what the Connection header lists, then the fixed *)
(* names, Connection among them.                                           *)
RemoveHopByHopHeaders(headers) ==
  Del(Del(headers, Peek(headers, "Connection")), HopByHopHeaderNames)

(* getProviderURLPrefix: the path without one trailing slash. *)
GetProviderURLPrefix(path) ==
  IF path # <<>> /\ Last(path) = "" THEN Front(path) ELSE path

-----------------------------------------------------------------------------
NoneInUse ==
  serving = {} /\ \A r \in Requests : handlerPc[r] \in {"idle", "answered"}

(* Mutation of NewLocalProxy: the first proxy stays the global one. *)
NewLocalProxyOnce(p) ==
  /\ p \notin created
  /\ Overlapping \/ NoneInUse
  /\ created' = created \union {p} /\ latest' = p
  /\ theLocalProxy' = IF theLocalProxy = NoProxy THEN p ELSE theLocalProxy
  /\ UNCHANGED <<serving, handlerPc, receiver, message, providerRequest, measuredBy,
                 providerAnswer, answer>>

(* The new proxy becomes the global one.  The program calls NewLocalProxy  *)
(* once, the tests one after another, each when the last proxy has stopped *)
(* and its requests are answered.                                          *)
NewLocalProxy(p) ==
  /\ p \notin created
  /\ Overlapping \/ NoneInUse
  /\ created' = created \union {p} /\ latest' = p
  /\ theLocalProxy' = p
  /\ UNCHANGED <<serving, handlerPc, receiver, message, providerRequest, measuredBy,
                 providerAnswer, answer>>

(* Run and RunWithListener serve the proxy just created until their        *)
(* context ends; handlers that are running then go on.                     *)
Run(p) ==
  /\ p \in created \ serving
  /\ Overlapping \/ p = latest
  /\ serving' = serving \union {p}
  /\ UNCHANGED <<theLocalProxy, created, latest, handlerPc, receiver, message,
                 providerRequest, measuredBy, providerAnswer, answer>>

Stop(p) ==
  /\ p \in serving
  /\ serving' = serving \ {p}
  /\ UNCHANGED <<theLocalProxy, created, latest, handlerPc, receiver, message,
                 providerRequest, measuredBy, providerAnswer, answer>>

-----------------------------------------------------------------------------
(* handleRequest, one step for each time it reads theLocalProxy.  First    *)
(* the request is copied and loses its hop-by-hop headers.                 *)
Receive(r, p, m) ==
  /\ handlerPc[r] = "idle"
  /\ p \in serving
  /\ handlerPc' = [handlerPc EXCEPT ![r] = "copied"]
  /\ receiver' = [receiver EXCEPT ![r] = p]
  /\ message' = [message EXCEPT ![r] = m]
  /\ providerRequest' =
       [providerRequest EXCEPT ![r].headers = RemoveHopByHopHeaders(m.headers)]
  /\ UNCHANGED <<proxyVars, measuredBy, providerAnswer, answer>>

SetHost(r) ==
  /\ handlerPc[r] = "copied"
  /\ handlerPc' = [handlerPc EXCEPT ![r] = "addressed"]
  /\ providerRequest' = [providerRequest EXCEPT ![r].host = theLocalProxy]
  /\ UNCHANGED <<proxyVars, receiver, message, measuredBy, providerAnswer, answer>>

SetRequestURI(r) ==
  /\ handlerPc[r] = "addressed"
  /\ handlerPc' = [handlerPc EXCEPT ![r] = "measuring"]
  /\ providerRequest' =
       [providerRequest EXCEPT ![r].path =
          GetProviderURLPrefix(ProviderPath[theLocalProxy]) \o message[r].path]
  /\ UNCHANGED <<proxyVars, receiver, message, measuredBy, providerAnswer, answer>>

Measure(r) ==
  /\ handlerPc[r] = "measuring"
  /\ handlerPc' = [handlerPc EXCEPT ![r] = "doing"]
  /\ measuredBy' = [measuredBy EXCEPT ![r] = IF message[r].body THEN theLocalProxy ELSE @]
  /\ UNCHANGED <<proxyVars, receiver, message, providerRequest, providerAnswer, answer>>

Do(r) ==
  /\ handlerPc[r] = "doing"
  /\ handlerPc' = [handlerPc EXCEPT ![r] = "waiting"]
  /\ providerRequest' = [providerRequest EXCEPT ![r].client = theLocalProxy]
  /\ UNCHANGED <<proxyVars, receiver, message, measuredBy, providerAnswer, answer>>

(* Mutation of Forward: what the answer's Connection header lists stays. *)
ForwardListed(r, headers) ==
  /\ handlerPc[r] = "waiting"
  /\ handlerPc' = [handlerPc EXCEPT ![r] = "answered"]
  /\ providerAnswer' = [providerAnswer EXCEPT ![r] = headers]
  /\ answer' = [answer EXCEPT ![r] = [status |-> 200,
                                      headers |-> Del(headers, HopByHopHeaderNames)]]
  /\ UNCHANGED <<proxyVars, receiver, message, providerRequest, measuredBy>>

(* Do returns an answer, which loses its hop-by-hop headers as well, or    *)
(* fails, which handleProxyError makes a 502 out of.                       *)
Forward(r, headers) ==
  /\ handlerPc[r] = "waiting"
  /\ handlerPc' = [handlerPc EXCEPT ![r] = "answered"]
  /\ providerAnswer' = [providerAnswer EXCEPT ![r] = headers]
  /\ answer' = [answer EXCEPT ![r] = [status |-> 200, headers |-> RemoveHopByHopHeaders(headers)]]
  /\ UNCHANGED <<proxyVars, receiver, message, providerRequest, measuredBy>>

Fail(r) ==
  /\ handlerPc[r] = "waiting"
  /\ handlerPc' = [handlerPc EXCEPT ![r] = "answered"]
  /\ answer' = [answer EXCEPT ![r].status = 502]
  /\ UNCHANGED <<proxyVars, receiver, message, providerRequest, measuredBy, providerAnswer>>

Handle(r) ==
  \/ SetHost(r) \/ SetRequestURI(r) \/ Measure(r) \/ Do(r)
  \/ \E headers \in Answers : Forward(r, headers)
  \/ Fail(r)

Next ==
  \/ \E p \in Proxies : NewLocalProxy(p) \/ Run(p) \/ Stop(p)
  \/ \E r \in Requests, p \in Proxies, m \in Messages : Receive(r, p, m)
  \/ \E r \in Requests : Handle(r)

Spec == Init /\ [][Next]_vars

-----------------------------------------------------------------------------
(* A request goes to the provider of the proxy that received it, under     *)
(* that provider's prefix and by that proxy's client, and its body is      *)
(* counted by that proxy: the handler finds the same proxy every time it   *)
(* reads the global, also when its proxy is stopped meanwhile.             *)
StaysWithItsProxy ==
  \A r \in Requests :
    handlerPc[r] \in {"waiting", "answered"} =>
      /\ providerRequest[r].host = receiver[r] /\ providerRequest[r].client = receiver[r]
      /\ providerRequest[r].path =
           GetProviderURLPrefix(ProviderPath[receiver[r]]) \o message[r].path
      /\ measuredBy[r] = IF message[r].body THEN receiver[r] ELSE NoProxy

(* Of the headers that came, those that went on bear none of the fixed     *)
(* names and none that the first Connection header lists.                  *)
HopByHopGone(came, went) ==
  \A i \in DOMAIN went :
    went[i].name \notin HopByHopHeaderNames \union Peek(came, "Connection")

(* No header that is about one connection crosses the proxy, neither from  *)
(* the client to the provider nor from the provider to the client: none of *)
(* the fixed names and none that the first Connection header of the same   *)
(* message or answer lists, as far as the names are spelled the same.      *)
HopByHopStaysHere ==
  \A r \in Requests :
    /\ handlerPc[r] # "idle" => HopByHopGone(message[r].headers, providerRequest[r].headers)
    /\ HopByHopGone(providerAnswer[r], answer[r].headers)

(* Of the headers that came, the end-to-end ones that no Connection header *)
(* lists went on as they were and in their order.                          *)
EndToEndKept(came, went) ==
  LET listed == UNION {h.lists : h \in Range(came)}
      others == {h.name : h \in Range(came)} \ (EndToEndNames \ listed)
  IN  Del(came, others) = Del(went, others)

(* Every other header crosses the proxy as it came, in the order in which  *)
(* it was sent: what some Connection header lists may be dropped and       *)
(* nothing else, the client's credentials in particular.                   *)
EndToEndForwarded ==
  \A r \in Requests :
    /\ handlerPc[r] # "idle" => EndToEndKept(message[r].headers, providerRequest[r].headers)
    /\ EndToEndKept(providerAnswer[r], answer[r].headers)

(* No header that a Connection header of the message lists reaches the     *)
(* provider, whichever line of the message lists it and however its name   *)
(* is spelled.                                                             *)
ConnectionScopedStaysHere ==
  \A r \in Requests :
    handlerPc[r] # "idle" =>
      LET Canonical(names) == {CanonicalName[n] : n \in names}
          listed == UNION {Canonical(h.lists) :
                             h \in {c \in Range(message[r].headers) :
                                      CanonicalName[c.name] = "Connection"}}
      IN  \A h \in Range(providerRequest[r].headers) : CanonicalName[h.name] \notin listed

=============================================================================

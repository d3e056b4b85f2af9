-------------------------- MODULE LocalProxyProofs --------------------------
(***************************************************************************)
(* When a proxy is only created while no other is in use, as the program   *)
(* and the tests do it, every request stays with the proxy that received   *)
(* it, for any number of proxies and requests and any interleaving of the  *)
(* handlers with Run and Stop.  The invariant carries it: only the global  *)
(* proxy has an open listener, so that a request in progress came through  *)
(* the proxy that its handler finds, whatever step it is at.               *)
(* Which headers cross the proxy is proved for messages and answers of     *)
(* any length, from what Del does with one more header, and whether or not *)
(* proxies overlap.                                                        *)
(***************************************************************************)
EXTENDS LocalProxy, SequenceTheorems, WellFoundedInduction, TLAPS

NoMessage == [headers |-> <<>>, path |-> <<>>, body |-> FALSE]
ProxyOrNone == Proxies \union {NoProxy}
PathFor(p, m) == GetProviderURLPrefix(ProviderPath[p]) \o m.path
BodyOf(p, m) == IF m.body THEN p ELSE NoProxy

(* The variables are functions, and requests to a provider records. *)
Shape ==
  /\ handlerPc \in [Requests -> {"idle", "copied", "addressed", "measuring", "doing",
                              "waiting", "answered"}]
  /\ receiver \in [Requests -> ProxyOrNone]
  /\ measuredBy \in [Requests -> ProxyOrNone]
  /\ message \in [Requests -> Messages \union {NoMessage}]
  /\ DOMAIN providerRequest = Requests
  /\ \A r \in Requests : DOMAIN providerRequest[r] = {"host", "client", "path", "headers"}
  /\ theLocalProxy \in ProxyOrNone
  /\ created \subseteq Proxies

OnlyTheGlobalServes ==
  serving \subseteq created /\ serving \subseteq {theLocalProxy} /\ latest = theLocalProxy

(* What is true of a request at each point of its handler. *)
RequestInv(r) ==
  /\ handlerPc[r] \in {"copied", "addressed", "measuring", "doing", "waiting"} =>
       receiver[r] = theLocalProxy
  /\ handlerPc[r] \in {"addressed", "measuring", "doing", "waiting", "answered"} =>
       providerRequest[r].host = receiver[r]
  /\ handlerPc[r] \in {"measuring", "doing", "waiting", "answered"} =>
       providerRequest[r].path = PathFor(receiver[r], message[r])
  /\ handlerPc[r] \in {"idle", "copied", "addressed", "measuring"} => measuredBy[r] = NoProxy
  /\ handlerPc[r] \in {"doing", "waiting", "answered"} =>
       measuredBy[r] = BodyOf(receiver[r], message[r])
  /\ handlerPc[r] \in {"waiting", "answered"} => providerRequest[r].client = receiver[r]

Inv == Shape /\ OnlyTheGlobalServes /\ \A r \in Requests : RequestInv(r)

-----------------------------------------------------------------------------
LEMMA InitInv == Init => Inv
<1> SUFFICES ASSUME Init PROVE Inv
  OBVIOUS
<1>1. Shape
  BY DEF Init, Shape, ProxyOrNone, NoMessage
<1>2. OnlyTheGlobalServes
  BY DEF Init, OnlyTheGlobalServes
<1>3. \A r \in Requests : RequestInv(r)
  BY DEF Init, RequestInv
<1> QED
  BY <1>1, <1>2, <1>3 DEF Inv

(* A step of one request's handler leaves the other requests as they are. *)
LEMMA OthersKept ==
  ASSUME NEW r \in Requests, Inv, UNCHANGED proxyVars,
         \A q \in Requests \ {r} :
           /\ handlerPc'[q] = handlerPc[q] /\ receiver'[q] = receiver[q]
           /\ message'[q] = message[q] /\ measuredBy'[q] = measuredBy[q]
           /\ providerRequest'[q] = providerRequest[q],
         Shape', RequestInv(r)'
  PROVE  Inv'
<1>1. OnlyTheGlobalServes'
  BY DEF Inv, OnlyTheGlobalServes, proxyVars
<1>2. ASSUME NEW q \in Requests PROVE RequestInv(q)'
  <2>1. CASE q = r
    BY <2>1
  <2>2. CASE q # r
    <3>1. RequestInv(q)
      BY DEF Inv
    <3> QED
      BY <2>2, <3>1 DEF RequestInv, proxyVars
  <2> QED
    BY <2>1, <2>2
<1> QED
  BY <1>1, <1>2 DEF Inv

LEMMA NextInv == ~Overlapping /\ Inv /\ [Next]_vars => Inv'
<1> SUFFICES ASSUME ~Overlapping, Inv, [Next]_vars PROVE Inv'
  OBVIOUS
<1> USE DEF Inv
<1>1. ASSUME NEW p \in Proxies, NewLocalProxy(p) PROVE Inv'
  <2>1. Shape'
    BY <1>1 DEF NewLocalProxy, Shape, ProxyOrNone
  <2>2. OnlyTheGlobalServes'
    BY <1>1 DEF NewLocalProxy, NoneInUse, OnlyTheGlobalServes
  <2>3. ASSUME NEW r \in Requests PROVE RequestInv(r)'
    <3>1. handlerPc[r] \in {"idle", "answered"}
      BY <1>1 DEF NewLocalProxy, NoneInUse
    <3> QED
      BY <1>1, <3>1 DEF NewLocalProxy, RequestInv
  <2> QED
    BY <2>1, <2>2, <2>3
<1>2. ASSUME NEW p \in Proxies, Run(p) PROVE Inv'
  <2>1. Shape'
    BY <1>2 DEF Run, Shape
  <2>2. OnlyTheGlobalServes'
    BY <1>2 DEF Run, OnlyTheGlobalServes
  <2>3. ASSUME NEW r \in Requests PROVE RequestInv(r)'
    BY <1>2 DEF Run, RequestInv
  <2> QED
    BY <2>1, <2>2, <2>3
<1>3. ASSUME NEW p \in Proxies, Stop(p) PROVE Inv'
  <2>1. Shape'
    BY <1>3 DEF Stop, Shape
  <2>2. OnlyTheGlobalServes'
    BY <1>3 DEF Stop, OnlyTheGlobalServes
  <2>3. ASSUME NEW r \in Requests PROVE RequestInv(r)'
    BY <1>3 DEF Stop, RequestInv
  <2> QED
    BY <2>1, <2>2, <2>3
<1>4. ASSUME NEW r \in Requests, NEW p \in Proxies, NEW m \in Messages, Receive(r, p, m)
      PROVE  Inv'
  <2>1. p = theLocalProxy
    BY <1>4 DEF Receive, OnlyTheGlobalServes
  <2>2. Shape'
    BY <1>4 DEF Receive, Shape, ProxyOrNone, proxyVars
  <2>3. RequestInv(r)'
    BY <1>4, <2>1 DEF Receive, RequestInv, Shape, proxyVars
  <2> QED
    BY <1>4, <2>2, <2>3, OthersKept DEF Receive, Shape
<1>5. ASSUME NEW r \in Requests, SetHost(r) PROVE Inv'
  <2>1. Shape'
    BY <1>5 DEF SetHost, Shape, proxyVars
  <2>2. RequestInv(r)'
    BY <1>5 DEF SetHost, RequestInv, Shape, proxyVars
  <2> QED
    BY <1>5, <2>1, <2>2, OthersKept DEF SetHost, Shape
<1>6. ASSUME NEW r \in Requests, SetRequestURI(r) PROVE Inv'
  <2>1. Shape'
    BY <1>6 DEF SetRequestURI, Shape, proxyVars
  <2>2. RequestInv(r)'
    <3>1. /\ handlerPc[r] = "addressed" /\ handlerPc'[r] = "measuring"
          /\ providerRequest'[r].host = providerRequest[r].host
          /\ providerRequest'[r].path = PathFor(theLocalProxy, message[r])
          /\ UNCHANGED <<receiver, message, measuredBy, theLocalProxy>>
      BY <1>6 DEF SetRequestURI, Shape, PathFor, proxyVars
    <3> QED
      BY <3>1 DEF RequestInv
  <2> QED
    BY <1>6, <2>1, <2>2, OthersKept DEF SetRequestURI, Shape
<1>7. ASSUME NEW r \in Requests, Measure(r) PROVE Inv'
  <2>1. Shape'
    BY <1>7 DEF Measure, Shape, ProxyOrNone, proxyVars
  <2>2. RequestInv(r)'
    <3>1. /\ handlerPc[r] = "measuring" /\ handlerPc'[r] = "doing"
          /\ measuredBy[r] = NoProxy /\ receiver[r] = theLocalProxy
          /\ measuredBy'[r] = IF message[r].body THEN theLocalProxy ELSE measuredBy[r]
          /\ UNCHANGED <<receiver, message, providerRequest, theLocalProxy>>
      BY <1>7 DEF Measure, Shape, RequestInv, proxyVars
    <3> QED
      BY <3>1 DEF RequestInv, BodyOf
  <2> QED
    BY <1>7, <2>1, <2>2, OthersKept DEF Measure, Shape
<1>8. ASSUME NEW r \in Requests, Do(r) PROVE Inv'
  <2>1. Shape'
    BY <1>8 DEF Do, Shape, proxyVars
  <2>2. RequestInv(r)'
    <3>1. /\ handlerPc[r] = "doing" /\ handlerPc'[r] = "waiting"
          /\ providerRequest'[r].host = providerRequest[r].host
          /\ providerRequest'[r].path = providerRequest[r].path
          /\ providerRequest'[r].client = theLocalProxy
          /\ UNCHANGED <<receiver, message, measuredBy, theLocalProxy>>
      BY <1>8 DEF Do, Shape, proxyVars
    <3> QED
      BY <3>1 DEF RequestInv
  <2> QED
    BY <1>8, <2>1, <2>2, OthersKept DEF Do, Shape
<1>9. ASSUME NEW r \in Requests, (\E headers \in Answers : Forward(r, headers)) \/ Fail(r)
      PROVE  Inv'
  <2>1. /\ handlerPc[r] = "waiting"
        /\ handlerPc' = [handlerPc EXCEPT ![r] = "answered"]
        /\ UNCHANGED <<proxyVars, receiver, message, providerRequest, measuredBy>>
    BY <1>9 DEF Forward, Fail
  <2>2. Shape'
    BY <2>1 DEF Shape, proxyVars
  <2>3. RequestInv(r)'
    BY <2>1 DEF RequestInv, Shape
  <2> QED
    BY <2>1, <2>2, <2>3, OthersKept DEF Shape
<1>10. CASE UNCHANGED vars
  BY <1>10 DEF vars, proxyVars, Shape, OnlyTheGlobalServes, RequestInv
<1> QED
  BY <1>1, <1>2, <1>3, <1>4, <1>5, <1>6, <1>7, <1>8, <1>9, <1>10 DEF Next, Handle

-----------------------------------------------------------------------------
(* A request goes to the provider of the proxy that received it and is     *)
(* counted by that proxy, as long as a proxy is only created while no      *)
(* other is in use (handleRequest reads theLocalProxy for every field).    *)
THEOREM OwnProxy == ~Overlapping /\ Spec => []StaysWithItsProxy
<1>1. Inv => StaysWithItsProxy
  BY DEF Inv, RequestInv, StaysWithItsProxy, PathFor, BodyOf
<1>2. CASE Overlapping
  BY <1>2
<1>3. CASE ~Overlapping
  <2>1. Inv /\ [Next]_vars => Inv'
    BY <1>3, NextInv
  <2> QED
    BY InitInv, <2>1, <1>1, PTL DEF Spec
<1> QED
  BY <1>2, <1>3
-----------------------------------------------------------------------------
(* A set of numbers has a least one, whence induction over numbers and     *)
(* over headers for the members of a set.                                  *)
LEMMA LeastNatural ==
  ASSUME NEW T, T \subseteq Nat, T # {}
  PROVE  \E n \in T : \A k \in T : n <= k
<1> DEFINE Less == {ss \in Nat \X Nat : ss[1] < ss[2]}
<1>1. IsWellFoundedOn(Less, Nat)
  BY NatLessThanWellFounded DEF OpToRel
<1>2. PICK n \in T : \A k \in T : <<k, n>> \notin Less
  BY <1>1, WFMin, Zenon
<1>3. \A k \in T : n <= k
  <2> SUFFICES ASSUME NEW k \in T, k < n PROVE FALSE
    OBVIOUS
  <2>1. <<k, n>> \in Less
    OBVIOUS
  <2> QED
    BY <1>2, <2>1
<1> QED
  BY <1>3

LEMMA Induction ==
  ASSUME NEW T, 0 \in T, \A n \in Nat : n \in T => n + 1 \in T
  PROVE  Nat \subseteq T
<1> SUFFICES ASSUME Nat \ T # {} PROVE FALSE
  OBVIOUS
<1>1. PICK n \in Nat \ T : \A k \in Nat \ T : n <= k
  BY LeastNatural
<1>2. n - 1 \in Nat /\ (n - 1) + 1 = n
  OBVIOUS
<1>3. n - 1 \in T
  BY <1>1, <1>2
<1> QED
  BY <1>2, <1>3

LEMMA HeadersInduction ==
  ASSUME NEW T, <<>> \in T,
         \A s \in Seq(Header), h \in Header : s \in T => Append(s, h) \in T
  PROVE  Seq(Header) \subseteq T
<1> DEFINE N == {n \in Nat : \A s \in Seq(Header) : Len(s) = n => s \in T}
<1>1. 0 \in N
  BY EmptySeq
<1>2. ASSUME NEW n \in Nat, n \in N PROVE n + 1 \in N
  <2> SUFFICES ASSUME NEW s \in Seq(Header), Len(s) = n + 1 PROVE s \in T
    OBVIOUS
  <2> DEFINE front == SubSeq(s, 1, n)
  <2>1. DOMAIN s = 1..(n + 1) /\ \A i \in 1..(n + 1) : s[i] \in Header
    BY LenProperties, ElementOfSeq
  <2>2. /\ front \in Seq(Header) /\ Len(front) = n
        /\ \A i \in 1..n : front[i] = s[i]
    BY <2>1, SubSeqProperties, SMT
  <2>3. front \in T
    BY <1>2, <2>2
  <2>4. s[n + 1] \in Header
    BY <2>1
  <2> HIDE DEF front
  <2>5. /\ Append(front, s[n + 1]) \in Seq(Header)
        /\ Len(Append(front, s[n + 1])) = n + 1
        /\ \A i \in 1..(n + 1) : Append(front, s[n + 1])[i] = s[i]
    BY <2>2, <2>4, AppendProperties
  <2>6. Append(front, s[n + 1]) = s
    BY <2>1, <2>5, SeqEqual
  <2> QED
    BY <2>2, <2>3, <2>4, <2>6
<1> HIDE DEF N
<1>3. Nat \subseteq N
  BY <1>1, <1>2, Induction
<1> QED
  BY <1>3, LenProperties DEF N

(* Del of the first so many headers: what the recursion in Del says.       *)
Keeps(kept, headers, names, m) ==
  kept = [n \in 0..m |->
            IF n = 0 THEN <<>>
            ELSE IF headers[n].name \in names THEN kept[n - 1]
            ELSE Append(kept[n - 1], headers[n])]

LEMMA KeepsExists ==
  ASSUME NEW headers, NEW names, NEW m \in Nat
  PROVE  \E kept : Keeps(kept, headers, names, m)
<1> DEFINE T == {n \in Nat : \E kept : Keeps(kept, headers, names, n)}
<1>1. 0 \in T
  <2>1. Keeps([n \in 0..0 |-> <<>>], headers, names, 0)
    BY DEF Keeps
  <2> QED
    BY <2>1
<1>2. ASSUME NEW n \in Nat, n \in T PROVE n + 1 \in T
  <2>1. PICK f : Keeps(f, headers, names, n)
    BY <1>2
  <2> DEFINE last == IF headers[n + 1].name \in names THEN f[n]
                     ELSE Append(f[n], headers[n + 1])
             g == [k \in 0..(n + 1) |-> IF k = n + 1 THEN last ELSE f[k]]
  <2>2. \A k \in 0..n : f[k] = IF k = 0 THEN <<>>
                               ELSE IF headers[k].name \in names THEN f[k - 1]
                               ELSE Append(f[k - 1], headers[k])
    BY <2>1 DEF Keeps
  <2>3. g[n + 1] = last /\ \A k \in 0..n : g[k] = f[k]
    OBVIOUS
  <2>4. \A k \in 0..(n + 1) : g[k] = IF k = 0 THEN <<>>
                                     ELSE IF headers[k].name \in names THEN g[k - 1]
                                     ELSE Append(g[k - 1], headers[k])
    <3> TAKE k \in 0..(n + 1)
    <3>1. CASE k = n + 1
      BY <2>3, <3>1
    <3>2. CASE k \in 0..n
      <4>1. k # 0 => k - 1 \in 0..n
        BY <3>2
      <4> QED
        BY <2>2, <2>3, <3>2, <4>1
    <3> QED
      BY <3>1, <3>2
  <2>5. Keeps(g, headers, names, n + 1)
    BY <2>4 DEF Keeps
  <2> QED
    BY <2>5
<1> HIDE DEF T
<1>3. Nat \subseteq T
  BY <1>1, <1>2, Induction
<1> QED
  BY <1>3 DEF T

LEMMA DelKeeps ==
  ASSUME NEW headers \in Seq(Header), NEW names
  PROVE  \E kept : /\ Keeps(kept, headers, names, Len(headers))
                   /\ Del(headers, names) = kept[Len(headers)]
<1> DEFINE kept == CHOOSE kept : Keeps(kept, headers, names, Len(headers))
<1>1. Keeps(kept, headers, names, Len(headers))
  BY KeepsExists, LenProperties, Zenon
<1>2. Del(headers, names) = kept[Len(headers)]
  BY Zenon DEF Del, Keeps
<1> QED
  BY <1>1, <1>2

(* Del goes through the headers one by one. *)
LEMMA DelEmpty ==
  ASSUME NEW names
  PROVE  Del(<<>>, names) = <<>>
<1>1. <<>> \in Seq(Header) /\ Len(<<>>) = 0
  BY EmptySeq
<1>2. PICK kept : Keeps(kept, <<>>, names, 0) /\ Del(<<>>, names) = kept[0]
  BY <1>1, DelKeeps
<1> QED
  BY <1>2 DEF Keeps

LEMMA DelAppend ==
  ASSUME NEW s \in Seq(Header), NEW h \in Header, NEW names
  PROVE  Del(Append(s, h), names) =
           IF h.name \in names THEN Del(s, names) ELSE Append(Del(s, names), h)
<1> DEFINE t == Append(s, h)
           m == Len(s)
<1>1. /\ m \in Nat /\ t \in Seq(Header) /\ Len(t) = m + 1
      /\ t[m + 1] = h /\ \A i \in 1..m : t[i] = s[i]
  BY AppendProperties, LenProperties
<1> HIDE DEF t, m
<1>2. PICK f : Keeps(f, s, names, m) /\ Del(s, names) = f[m]
  BY DelKeeps DEF m
<1>3. PICK g : Keeps(g, t, names, m + 1) /\ Del(t, names) = g[m + 1]
  BY <1>1, DelKeeps
<1>4. \A k \in 0..m : f[k] = IF k = 0 THEN <<>>
                             ELSE IF s[k].name \in names THEN f[k - 1]
                             ELSE Append(f[k - 1], s[k])
  BY <1>2 DEF Keeps
<1>5. \A k \in 0..(m + 1) : g[k] = IF k = 0 THEN <<>>
                                   ELSE IF t[k].name \in names THEN g[k - 1]
                                   ELSE Append(g[k - 1], t[k])
  BY <1>3 DEF Keeps
<1> DEFINE T == {k \in Nat : k \in 0..m => f[k] = g[k]}
<1>6. 0 \in T
  BY <1>1, <1>4, <1>5
<1>7. ASSUME NEW k \in Nat, k \in T PROVE k + 1 \in T
  <2> SUFFICES ASSUME k + 1 \in 0..m PROVE f[k + 1] = g[k + 1]
    OBVIOUS
  <2>1. /\ f[k] = g[k] /\ s[k + 1] = t[k + 1]
        /\ k + 1 \in 0..(m + 1) /\ k + 1 # 0 /\ (k + 1) - 1 = k
    BY <1>1, <1>7
  <2> QED
    BY <1>4, <1>5, <2>1
<1> HIDE DEF T
<1>8. m \in T
  BY <1>1, <1>6, <1>7, Induction
<1>9. f[m] = g[m]
  BY <1>1, <1>8 DEF T
<1>10. m + 1 \in 0..(m + 1) /\ m + 1 # 0 /\ (m + 1) - 1 = m
  BY <1>1
<1> QED
  BY <1>1, <1>2, <1>3, <1>5, <1>9, <1>10 DEF t

(* What is left bears none of the names. *)
LEMMA DelType ==
  ASSUME NEW s \in Seq(Header), NEW names
  PROVE  /\ Del(s, names) \in Seq(Header)
         /\ \A i \in DOMAIN Del(s, names) : Del(s, names)[i].name \notin names
<1> DEFINE Left(d) == d \in Seq(Header) /\ \A i \in 1..Len(d) : d[i].name \notin names
           T == {u \in Seq(Header) : Left(Del(u, names))}
<1>1. <<>> \in T
  <2>1. <<>> \in Seq(Header) /\ Len(<<>>) = 0 /\ 1..0 = {}
    BY EmptySeq
  <2>2. Left(<<>>)
    BY <2>1
  <2> QED
    BY <2>1, <2>2, DelEmpty
<1>2. ASSUME NEW u \in Seq(Header), NEW h \in Header, u \in T PROVE Append(u, h) \in T
  <2>1. Append(u, h) \in Seq(Header)
    BY AppendProperties
  <2>2. Left(Del(u, names))
    BY <1>2
  <2>3. CASE h.name \in names
    BY <2>1, <2>2, <2>3, DelAppend
  <2>4. CASE h.name \notin names
    <3> DEFINE d == Del(u, names)
    <3>1. Del(Append(u, h), names) = Append(d, h)
      BY <2>4, DelAppend
    <3>2. d \in Seq(Header) /\ Len(d) \in Nat /\ \A i \in 1..Len(d) : d[i].name \notin names
      BY <2>2, LenProperties
    <3> HIDE DEF d
    <3>3. Left(Append(d, h))
      <4>1. /\ Append(d, h) \in Seq(Header) /\ Len(Append(d, h)) = Len(d) + 1
            /\ Append(d, h)[Len(d) + 1] = h
            /\ \A i \in 1..Len(d) : Append(d, h)[i] = d[i]
        BY <3>2, AppendProperties
      <4>2. ASSUME NEW i \in 1..(Len(d) + 1) PROVE Append(d, h)[i].name \notin names
        <5>1. CASE i = Len(d) + 1
          BY <4>1, <5>1, <2>4
        <5>2. CASE i \in 1..Len(d)
          BY <4>1, <5>2, <3>2
        <5> QED
          BY <5>1, <5>2, <3>2
      <4> QED
        BY <4>1, <4>2
    <3> QED
      BY <2>1, <3>1, <3>3
  <2> QED
    BY <2>3, <2>4
<1> HIDE DEF T
<1>3. Seq(Header) \subseteq T
  BY <1>1, <1>2, HeadersInduction
<1>4. Left(Del(s, names))
  BY <1>3 DEF T
<1> QED
  BY <1>4, LenProperties

(* To delete twice is to delete the names of both. *)
LEMMA DelTwice ==
  ASSUME NEW s \in Seq(Header), NEW a, NEW b
  PROVE  Del(Del(s, a), b) = Del(s, a \union b)
<1> DEFINE T == {u \in Seq(Header) : Del(Del(u, a), b) = Del(u, a \union b)}
<1>1. <<>> \in T
  BY DelEmpty, EmptySeq
<1>2. ASSUME NEW u \in Seq(Header), NEW h \in Header, u \in T PROVE Append(u, h) \in T
  <2>1. Append(u, h) \in Seq(Header) /\ Del(u, a) \in Seq(Header)
    BY AppendProperties, DelType
  <2>2. Del(Del(u, a), b) = Del(u, a \union b)
    BY <1>2
  <2>3. Del(Append(u, h), a) = IF h.name \in a THEN Del(u, a) ELSE Append(Del(u, a), h)
    BY DelAppend
  <2>4. Del(Append(Del(u, a), h), b) =
          IF h.name \in b THEN Del(Del(u, a), b) ELSE Append(Del(Del(u, a), b), h)
    BY <2>1, DelAppend
  <2>5. Del(Append(u, h), a \union b) =
          IF h.name \in a \union b THEN Del(u, a \union b) ELSE Append(Del(u, a \union b), h)
    BY DelAppend
  <2> QED
    BY <2>1, <2>2, <2>3, <2>4, <2>5
<1> HIDE DEF T
<1>3. Seq(Header) \subseteq T
  BY <1>1, <1>2, HeadersInduction
<1> QED
  BY <1>3 DEF T

(* What Del leaves depends on the names that the headers bear. *)
LEMMA DelSame ==
  ASSUME NEW s \in Seq(Header), NEW a, NEW b,
         \A i \in 1..Len(s) : s[i].name \in a <=> s[i].name \in b
  PROVE  Del(s, a) = Del(s, b)
<1> DEFINE Agree(u) == \A i \in 1..Len(u) : u[i].name \in a <=> u[i].name \in b
           T == {u \in Seq(Header) : Agree(u) => Del(u, a) = Del(u, b)}
<1>1. <<>> \in T
  BY DelEmpty, EmptySeq
<1>2. ASSUME NEW u \in Seq(Header), NEW h \in Header, u \in T PROVE Append(u, h) \in T
  <2>1. /\ Append(u, h) \in Seq(Header) /\ Len(u) \in Nat /\ Len(Append(u, h)) = Len(u) + 1
        /\ Append(u, h)[Len(u) + 1] = h /\ \A i \in 1..Len(u) : Append(u, h)[i] = u[i]
    BY AppendProperties, LenProperties
  <2> SUFFICES ASSUME Agree(Append(u, h))
               PROVE  Del(Append(u, h), a) = Del(Append(u, h), b)
    BY <2>1
  <2>2. Len(u) + 1 \in 1..Len(Append(u, h)) /\ 1..Len(u) \subseteq 1..Len(Append(u, h))
    BY <2>1
  <2>3. Agree(u) /\ (h.name \in a <=> h.name \in b)
    BY <2>1, <2>2
  <2>4. Del(u, a) = Del(u, b)
    BY <1>2, <2>3
  <2>5. /\ Del(Append(u, h), a) = IF h.name \in a THEN Del(u, a) ELSE Append(Del(u, a), h)
        /\ Del(Append(u, h), b) = IF h.name \in b THEN Del(u, b) ELSE Append(Del(u, b), h)
    BY DelAppend
  <2> QED
    BY <2>3, <2>4, <2>5
<1> HIDE DEF T
<1>3. Seq(Header) \subseteq T
  BY <1>1, <1>2, HeadersInduction
<1> QED
  BY <1>3 DEF T

(* Peek finds the list of one of the headers, or nothing. *)
LEMMA PeekIsListed ==
  ASSUME NEW s \in Seq(Header), NEW name
  PROVE  Peek(s, name) \subseteq UNION {h.lists : h \in Range(s)}
<1> DEFINE found == {n \in 1..Len(s) : s[n].name = name}
<1>1. CASE found = {}
  BY <1>1 DEF Peek
<1>2. CASE found # {}
  <2>1. found \subseteq Nat
    BY LenProperties
  <2>2. \E n \in found : \A k \in found : n <= k
    BY <1>2, <2>1, LeastNatural
  <2>3. Min(found) \in found
    BY <2>2 DEF Min
  <2>4. s[Min(found)] \in Range(s)
    BY <2>3, LenProperties DEF Range
  <2>5. Peek(s, name) = s[Min(found)].lists
    BY <1>2, Zenon DEF Peek
  <2> QED
    BY <2>4, <2>5
<1> QED
  BY <1>1, <1>2

-----------------------------------------------------------------------------
(* What a request and its answer bear, whenever proxies are created.       *)
HeadersOf(r) ==
  /\ DOMAIN providerRequest[r] = {"host", "client", "path", "headers"}
  /\ DOMAIN answer[r] = {"status", "headers"}
  /\ handlerPc[r] # "idle" =>
       /\ message[r] \in Messages
       /\ providerRequest[r].headers = RemoveHopByHopHeaders(message[r].headers)
  /\ \/ providerAnswer[r] = <<>> /\ answer[r].headers = <<>>
     \/ /\ providerAnswer[r] \in Answers
        /\ answer[r].headers = RemoveHopByHopHeaders(providerAnswer[r])

HeadersInv ==
  /\ DOMAIN handlerPc = Requests /\ DOMAIN message = Requests
  /\ DOMAIN providerRequest = Requests
  /\ DOMAIN providerAnswer = Requests /\ DOMAIN answer = Requests
  /\ \A r \in Requests : HeadersOf(r)

LEMMA InitHeaders == Init => HeadersInv
BY DEF Init, HeadersInv, HeadersOf

LEMMA NextHeaders == HeadersInv /\ [Next]_vars => HeadersInv'
<1> SUFFICES ASSUME HeadersInv, [Next]_vars PROVE HeadersInv'
  OBVIOUS
<1>1. ASSUME UNCHANGED <<handlerPc, message, providerRequest, providerAnswer, answer>> PROVE HeadersInv'
  BY <1>1 DEF HeadersInv, HeadersOf
<1>2. ASSUME NEW p \in Proxies, NewLocalProxy(p) \/ Run(p) \/ Stop(p) PROVE HeadersInv'
  BY <1>1, <1>2 DEF NewLocalProxy, Run, Stop
<1>3. ASSUME NEW r \in Requests, NEW p \in Proxies, NEW m \in Messages, Receive(r, p, m)
      PROVE  HeadersInv'
  <2>1. HeadersOf(r)'
    BY <1>3 DEF Receive, HeadersInv, HeadersOf
  <2> QED
    BY <1>3, <2>1 DEF Receive, HeadersInv, HeadersOf
<1>4. ASSUME NEW r \in Requests, SetHost(r) \/ SetRequestURI(r) \/ Measure(r) \/ Do(r)
      PROVE  HeadersInv'
  <2>1. /\ handlerPc[r] # "idle" /\ UNCHANGED <<message, providerAnswer, answer>>
        /\ \E pc \in {"addressed", "measuring", "doing", "waiting"} :
             handlerPc' = [handlerPc EXCEPT ![r] = pc]
        /\ \/ UNCHANGED providerRequest
           \/ \E host : providerRequest' = [providerRequest EXCEPT ![r].host = host]
           \/ \E path : providerRequest' = [providerRequest EXCEPT ![r].path = path]
           \/ \E client : providerRequest' = [providerRequest EXCEPT ![r].client = client]
    BY <1>4 DEF SetHost, SetRequestURI, Measure, Do
  <2>2. /\ \A q \in Requests : /\ DOMAIN providerRequest'[q] = DOMAIN providerRequest[q]
                               /\ providerRequest'[q].headers = providerRequest[q].headers
        /\ DOMAIN providerRequest' = Requests
    BY <2>1 DEF HeadersInv, HeadersOf
  <2>3. /\ DOMAIN handlerPc' = Requests
        /\ \A q \in Requests : handlerPc'[q] # "idle" => handlerPc[q] # "idle"
    BY <2>1 DEF HeadersInv
  <2> QED
    BY <2>1, <2>2, <2>3 DEF HeadersInv, HeadersOf
<1>5. ASSUME NEW r \in Requests, NEW headers \in Answers, Forward(r, headers)
      PROVE  HeadersInv'
  <2>1. HeadersOf(r)'
    BY <1>5 DEF Forward, HeadersInv, HeadersOf
  <2> QED
    BY <1>5, <2>1 DEF Forward, HeadersInv, HeadersOf
<1>6. ASSUME NEW r \in Requests, Fail(r) PROVE HeadersInv'
  <2>1. HeadersOf(r)'
    BY <1>6 DEF Fail, HeadersInv, HeadersOf
  <2> QED
    BY <1>6, <2>1 DEF Fail, HeadersInv, HeadersOf
<1>7. CASE UNCHANGED vars
  BY <1>1, <1>7 DEF vars
<1> QED
  BY <1>2, <1>3, <1>4, <1>5, <1>6, <1>7 DEF Next, Handle

(* removeHopByHopHeaders deletes what the first Connection header lists    *)
(* and the fixed names, in one pass or in two.                             *)
LEMMA RemovedNames ==
  ASSUME NEW s \in Seq(Header)
  PROVE  RemoveHopByHopHeaders(s) = Del(s, HopByHopHeaderNames \union Peek(s, "Connection"))
<1>1. Peek(s, "Connection") \union HopByHopHeaderNames
        = HopByHopHeaderNames \union Peek(s, "Connection")
  OBVIOUS
<1> QED
  BY <1>1, DelTwice DEF RemoveHopByHopHeaders

LEMMA RemovedGone ==
  ASSUME NEW s \in Seq(Header)
  PROVE  HopByHopGone(s, RemoveHopByHopHeaders(s))
BY RemovedNames, DelType DEF HopByHopGone

(* What it leaves of the end-to-end headers that are not listed, as long   *)
(* as none of them is among the fixed names.                               *)
LEMMA RemovedKeeps ==
  ASSUME NEW s \in Seq(Header), EndToEndNames \intersect HopByHopHeaderNames = {}
  PROVE  EndToEndKept(s, RemoveHopByHopHeaders(s))
<1> DEFINE listed == UNION {h.lists : h \in Range(s)}
           others == {h.name : h \in Range(s)} \ (EndToEndNames \ listed)
           removed == HopByHopHeaderNames \union Peek(s, "Connection")
<1> SUFFICES Del(s, others) = Del(RemoveHopByHopHeaders(s), others)
  BY Zenon DEF EndToEndKept
<1>1. Del(RemoveHopByHopHeaders(s), others) = Del(s, removed \union others)
  <2>1. RemoveHopByHopHeaders(s) = Del(s, removed)
    BY RemovedNames
  <2> HIDE DEF others, removed
  <2> QED
    BY <2>1, DelTwice
<1>2. Peek(s, "Connection") \subseteq listed
  BY PeekIsListed
<1>3. \A i \in 1..Len(s) : s[i] \in Range(s)
  BY LenProperties DEF Range
<1>4. ASSUME NEW i \in 1..Len(s), s[i].name \in removed
      PROVE  s[i].name \in others
  BY <1>2, <1>3, <1>4
<1>5. Del(s, removed \union others) = Del(s, others)
  BY <1>4, DelSame
<1> QED
  BY <1>1, <1>5

(* No header that is about one connection crosses the proxy, in either     *)
(* direction (removeHopByHopHeaders, which handleRequest calls for the     *)
(* request and for the answer): no fixed name, and none that the first     *)
(* Connection header of that message or of that answer lists.              *)
THEOREM ConnectionHeaders == Spec => []HopByHopStaysHere
<1>1. HeadersInv => HopByHopStaysHere
  <2> SUFFICES ASSUME HeadersInv, NEW r \in Requests
               PROVE  /\ handlerPc[r] # "idle" =>
                           HopByHopGone(message[r].headers, providerRequest[r].headers)
                      /\ HopByHopGone(providerAnswer[r], answer[r].headers)
    BY DEF HopByHopStaysHere
  <2>1. HeadersOf(r)
    BY DEF HeadersInv
  <2>2. ASSUME handlerPc[r] # "idle"
        PROVE  HopByHopGone(message[r].headers, providerRequest[r].headers)
    BY <2>1, <2>2, HeaderAssumption, RemovedGone DEF HeadersOf
  <2>3. CASE providerAnswer[r] = <<>> /\ answer[r].headers = <<>>
    <3>1. HopByHopGone(<<>>, <<>>)
      BY DEF HopByHopGone
    <3> QED
      BY <2>2, <2>3, <3>1
  <2>4. CASE /\ providerAnswer[r] \in Answers
             /\ answer[r].headers = RemoveHopByHopHeaders(providerAnswer[r])
    BY <2>2, <2>4, HeaderAssumption, RemovedGone
  <2> QED
    BY <2>1, <2>3, <2>4 DEF HeadersOf
<1> QED
  BY InitHeaders, NextHeaders, <1>1, PTL DEF Spec

(* Every header that is not about one connection crosses the proxy, in     *)
(* either direction, as it came and in its place, as long as no end-to-end *)
(* header is among the fixed names of removeHopByHopHeaders.               *)
THEOREM OthersForwarded ==
  EndToEndNames \intersect HopByHopHeaderNames = {} /\ Spec => []EndToEndForwarded
<1> DEFINE Apart == EndToEndNames \intersect HopByHopHeaderNames = {}
<1>1. Apart /\ HeadersInv => EndToEndForwarded
  <2> SUFFICES ASSUME Apart, HeadersInv, NEW r \in Requests
               PROVE  /\ handlerPc[r] # "idle" =>
                           EndToEndKept(message[r].headers, providerRequest[r].headers)
                      /\ EndToEndKept(providerAnswer[r], answer[r].headers)
    BY DEF EndToEndForwarded
  <2>1. HeadersOf(r)
    BY DEF HeadersInv
  <2>2. ASSUME handlerPc[r] # "idle"
        PROVE  EndToEndKept(message[r].headers, providerRequest[r].headers)
    BY <2>1, <2>2, HeaderAssumption, RemovedKeeps DEF HeadersOf
  <2>3. CASE providerAnswer[r] = <<>> /\ answer[r].headers = <<>>
    <3>1. EndToEndKept(<<>>, <<>>)
      BY Zenon DEF EndToEndKept
    <3> QED
      BY <2>2, <2>3, <3>1
  <2>4. CASE /\ providerAnswer[r] \in Answers
             /\ answer[r].headers = RemoveHopByHopHeaders(providerAnswer[r])
    BY <2>2, <2>4, HeaderAssumption, RemovedKeeps
  <2> QED
    BY <2>1, <2>3, <2>4 DEF HeadersOf
<1>2. CASE ~ Apart
  BY <1>2
<1>3. CASE Apart
  <2>1. HeadersInv => EndToEndForwarded
    BY <1>1, <1>3
  <2> QED
    BY InitHeaders, NextHeaders, <2>1, PTL DEF Spec
<1> QED
  BY <1>2, <1>3

=============================================================================

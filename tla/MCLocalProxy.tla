---------------------------- MODULE MCLocalProxy ----------------------------
(***************************************************************************)
(* LocalProxy with messages of up to three header lines, whose Connection  *)
(* lines list an end-to-end header, a fixed one or themselves, with a      *)
(* Connection line in another spelling, with answers of up to two such     *)
(* lines, and with provider URLs with a path and a trailing slash or none. *)
(***************************************************************************)
EXTENDS LocalProxy, TLC

CONSTANTS p1, p2, r1, r2

MCProviderPath == (p1 :> <<"prefix", "">>) @@ (p2 :> <<"">>)

MCCanonicalName ==
  [n \in {"Connection", "TE", "Upgrade", "Authorization", "Opaque"} |-> n]
    @@ ("connection" :> "Connection") @@ ("opaque" :> "Opaque")

Plain(name) == [name |-> name, lists |-> {}]
Connection(names) == [name |-> "Connection", lists |-> names]

Line == {Plain(n) : n \in {"TE", "Authorization", "Opaque"}}
        \union {Connection(names) : names \in {{}, {"Opaque"}, {"TE", "Opaque"}, {"Connection"}}}

OtherSpelling(names) == [name |-> "connection", lists |-> names]

Message(headers) == [headers |-> headers, path |-> <<"resource", "">>, body |-> TRUE]

(* Messages that two Connection lines tell apart, in one spelling or two.  *)
MCFewAnswers == {<<>>}
MCSecondLine ==
  {Message(<<Connection({"TE"}), c, Plain("Opaque")>>) :
     c \in {Connection({"Opaque"}), OtherSpelling({"Opaque"})}}

(* Every message of up to two lines, some of three and some without a      *)
(* body; answers of up to two lines, a Connection line the first of two.   *)
MCMessages ==
  {Message(h) : h \in UNION {[1..n -> Line] : n \in 0..2}}
    \union {[Message(h) EXCEPT !.body = FALSE] : h \in UNION {[1..n -> Line] : n \in 0..1}}
    \union {Message(h) : h \in [1..3 -> {Plain("Opaque"), Plain("Authorization"),
                                        Connection({"Opaque"})}]}
    \union {Message(<<OtherSpelling({"Opaque"}), Plain("Opaque")>>)} \union MCSecondLine
MCAnswers ==
  LET connection == {Connection({"Upgrade"}), Connection({"Opaque"})}
      line       == {Plain("Upgrade"), Plain("Opaque")} \union connection
  IN  {<<>>} \union {<<l>> : l \in line} \union (connection \X line)

(* Of two requests, the second one bears no headers, nor does its answer. *)
MCNext == Next /\ message'[r2].headers = <<>> /\ providerAnswer'[r2] = <<>>
MCSpec == Init /\ [][MCNext]_vars

=============================================================================

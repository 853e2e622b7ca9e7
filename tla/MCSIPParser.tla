---------------------------- MODULE MCSIPParser -----------------------------
(***************************************************************************)
(* Messages for TLC. One message is well formed; every other differs from  *)
(* it in the lines one step looks at, which take every value of a form, or *)
(* every sequence of the tokens that step looks for, up to a length.       *)
(***************************************************************************)
EXTENDS SIPParser, TLC

CONSTANT MaxTokens   (* bound: tokens of an arbitrary value, before its end *)

End == <<"\r">>

MCText == {<<"a">>, <<"b", "c">>}
MCNumeral == ("0" :> 0 @@ "1" :> 1 @@ "2" :> 2 @@ "3" :> 3 @@ "4" :> 4 @@ "200" :> 200)
MCLower == [m \in SIPMethod |-> IF m = "INVITE" THEN "invite" ELSE "other"]
MCUnprintable == {"\t"}
MCNotAName == {"X Y"}

Line(name, value) == [name |-> name, value |-> value, colon |-> TRUE, spelled |-> TRUE]
Lines(name, list) == [i \in DOMAIN list |-> Line(name, list[i])]

WellFormed ==
  [line |-> <<"INVITE", " ", "sip", ":", "a", "@", "b", "c", " ", "SIP/2.0">>,
   terminated |-> TRUE,
   lines |-> <<Line("Via", Via(<<"a">>, <<"b", "c">>, <<"a">>, <<"a">>)),
               Line("From", WithParam(Bracketed(<<"a">>, <<"b", "c">>), <<"a">>)),
               Line("To", Bracketed(<<"a">>, <<"b", "c">>) \o End),
               Line("CSeq", <<"a", " ", "INVITE">> \o End),
               Line("Call-ID", <<"a">> \o End),
               Line("Content-Length", <<"0">> \o End)>>,
   body |-> 0]

Response == [WellFormed EXCEPT !.line = <<"SIP/2.0", " ", "200", " ", "a">>]

(* The message with these values for a header instead of its own.          *)
With(name, list, m) ==
  [m EXCEPT !.lines = SelectSeq(@, LAMBDA l : l.name # name) \o Lines(name, list)]

Arbitrary(tokens) == UNION {[1 .. n -> tokens] : n \in 0 .. MaxTokens}

(* Every value for a header that may be missing and may be repeated.       *)
Headers(Value) == {<<>>} \cup {<<v>> : v \in Value} \cup {<<v, v>> : v \in Value}

Froms ==
  {v \o End : v \in Arbitrary({"sip", "@", ">", ";", "a"})}
    \cup UNION {{WithParam(Bracketed(u, h), p), WithParam(Unbracketed(u, h), p),
                 WithParam(Bracketed(u, h \o <<";">> \o p), p)} : u, h, p \in MCText}

Tos ==
  Froms \cup UNION {{Bracketed(u, h) \o End, Unbracketed(u, h) \o End,
                     Bracketed(u, h \o <<";">> \o h) \o End} : u, h \in MCText}

CSeqs == {v \o End : v \in Arbitrary({" ", "a"})} \cup {u \o <<" ">> \o h \o End : u, h \in MCText}

Vias ==
  {v \o End : v \in Arbitrary({"SIP/2.0/", " ", ":", "branch=", ";"})}
    \cup {Via(u, h, p, q) : u, h, p, q \in MCText}

Contacts ==
  {v \o End : v \in Arbitrary({"sip", ":", "@", ">", ";"})}
    \cup {Contact(u, h, p, q, u) : u, h, p, q \in MCText}

Identities ==
  {v \o End : v \in Arbitrary({"sip", ":", "@", ">"})}
    \cup {Bracketed(u, h) \o End : u, h \in MCText} \cup {Unbracketed(u, h) \o End : u, h \in MCText}

RequestLines ==
  Arbitrary({"INVITE", " ", "@", "SIP/2.0", "200"})
    \cup {u \o <<" ">> \o Unbracketed(h, p) \o <<" ", "SIP/2.0">> : u, h, p \in MCText}
    \cup {<<"\t">> \o WellFormed.line, <<"invite">> \o Tail(WellFormed.line)}

Timers == {v \o End : v \in Arbitrary({"200", ";", "refresher=", "\r"})}
  \cup {<<"200", ";", "refresher=">> \o u \o End : u \in MCText}

FieldMessages ==
  {With("From", <<v>>, WellFormed) : v \in Froms}
    \cup {With("To", <<v>>, WellFormed) : v \in Tos}
    \cup {With("CSeq", <<v>>, WellFormed) : v \in CSeqs}
    \cup {With("Via", v, WellFormed) : v \in Headers(Vias)}
    \cup {With("Contact", v, WellFormed) : v \in Headers(Contacts)}
    \cup {With("P-Asserted-Identity", v, WellFormed) : v \in Headers(Identities)}
    \cup {With("p-preferred-identity", v, WellFormed) : v \in Headers(Identities)}
    \cup {With("Session-Expires", v, WellFormed) : v \in Headers(Timers)}
    \cup {[WellFormed EXCEPT !.line = v] : v \in RequestLines}

(* A line more, before or after the others: of a header there is already,  *)
(* of one nobody looks for, without a colon, or spelled in another way.    *)
MoreLines ==
  LET more == [name : {"From", "To", "CSeq", "Via", "Contact", "Content-Length", "Supported",
                       "Subject", "X Y"},
               value : {WithParam(Bracketed(<<"b", "c">>, <<"a">>), <<"b", "c">>), <<"\t">> \o End},
               colon : BOOLEAN, spelled : BOOLEAN]
  IN  {[WellFormed EXCEPT !.lines = <<l>> \o @] : l \in more}
        \cup {[WellFormed EXCEPT !.lines = @ \o <<l>>] : l \in more}

Numbers == {<<n>> \o End : n \in {"0", "1", "2", "3", "4", "a"}}

(* The announced length, the body there is and the types listed for it.    *)
Contents ==
  {[With("Content-Length", lengths, With("Content-Type", types, WellFormed)) EXCEPT !.body = body] :
     lengths \in Headers(Numbers), body \in 0 .. Word + 1,
     types \in {<<>>, << <<"application/sdp">> >>, << <<"x">> >>,
                << <<"x", Blank, "application/sdp">> >>}}

ListLines ==
  {<<>>, << <<"timer">> >>, << <<Blank, "timer">> >>, << <<"100rel">>, <<"timer">> >>,
   << <<"timer", Blank, "100rel", "UPDATE">> >>, << <<"timer", Blank>> >>, << <<Blank>> >>}

(* The forms of the lists in the three headers that are looked at in turn. *)
Lists ==
  {With("Supported", s, With("Require", r, With("Allow", a, WellFormed))) : s, r, a \in ListLines}

SessionTimers ==
  {With("Min-SE", m, With("Session-Expires", e, WellFormed)) :
     m, e \in {<<>>} \cup {<<v>> : v \in Numbers} \cup {<<<<"3">> \o End, v>> : v \in Numbers}
              \cup {<<v, v, v>> : v \in Numbers}}

Whole == {WellFormed, Response, [WellFormed EXCEPT !.terminated = FALSE], [WellFormed EXCEPT !.lines = <<>>]}

Messages == FieldMessages \cup MoreLines \cup Contents \cup Lists \cup SessionTimers \cup Whole

WithContent ==
  [With("Content-Length", <<<<"1">> \o End>>,
        With("Content-Type", << <<"application/sdp">> >>, WellFormed)) EXCEPT !.body = 1]

(* A list, one that ends in a comma and an empty one, in one header at a   *)
(* time.                                                                   *)
OneListMessages ==
  {WellFormed} \cup {With(header, l, WithContent) : header \in ListHeader,
                      l \in {<< <<"timer">> >>, << <<"timer", Blank>> >>, << <<Blank>> >>}}
=============================================================================

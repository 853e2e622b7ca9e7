---------------------------- MODULE HeaderFields ----------------------------
(***************************************************************************)
(* How parser/SIPMessage.cpp, SIPRequest.cpp and SIPResponse.cpp cut the   *)
(* fields out of a header value: with find, with arithmetic on the         *)
(* positions it returns, and with substr.                                  *)
(*                                                                         *)
(* A value is a sequence of tokens. The literals the code searches for are *)
(* one token each ("sip", "SIP/2.0/", "branch=", "SIP/2.0"), as is a word  *)
(* or number; every other token is one character. An offset by the length  *)
(* of a literal is therefore an offset by one. Positions start at 0 and    *)
(* are unsigned: npos is the largest, and arithmetic on it wraps around.   *)
(*                                                                         *)
(* A definition whose comment begins with "Slip" is not part of the model: *)
(* it is a wrong version of the definition that follows it, put in its     *)
(* place to see that the properties tell the two apart.                    *)
(***************************************************************************)
EXTENDS Integers, Sequences, FiniteSetsExt

CONSTANTS
  SizeT,     (* number of values of size_t; larger than any length doubled *)
  Numeral    (* the tokens stoi accepts, and the number of each            *)

(* The tokens that are literals of the code, or the end of a line.         *)
Literal == {"sip", ":", "@", ">", ";", " ", "\r", "SIP/2.0/", "SIP/2.0", "branch=", "refresher="}

(* No literal reads as a number.                                           *)
ASSUME HeaderFieldsAssumption ==
  /\ SizeT \in Nat \ 0 .. 63
  /\ \A token \in DOMAIN Numeral : Numeral[token] \in Nat /\ token \notin Literal

npos == SizeT - 1

Plus(a, n) == (a + n) % SizeT
Minus(a, n) == (a - n) % SizeT

(* string_view::find of a sequence of tokens.                              *)
find(what, value, from) ==
  LET At == {i \in from .. Len(value) - Len(what) :
               SubSeq(value, i + 1, i + Len(what)) = what}
  IN  IF At = {} THEN npos ELSE Min(At)

(* What substr answers when it throws std::out_of_range.                   *)
OutOfRange == <<"out_of_range">>

substr(value, pos, n) ==
  IF pos > Len(value) THEN OutOfRange
                      ELSE SubSeq(value, pos + 1, Min({pos + n, Len(value)}))

(* A string is at most half as long as size_t counts, and the mark above   *)
(* is no token.                                                            *)
IsValue(value) ==
  /\ value \in Seq(STRING)
  /\ 2 * Len(value) < SizeT
  /\ \A i \in DOMAIN value : value[i] # "out_of_range"

(* What lies between two positions, both excluded.                         *)
Between(value, left, right) == substr(value, Plus(left, 1), Minus(right, left + 1))

(* What stoi answers when it throws; no number is negative here.           *)
NotANumber == -1

(* stoi reads a number off the front.                                      *)
stoi(value) == IF value # <<>> /\ value[1] \in DOMAIN Numeral THEN Numeral[value[1]] ELSE NotANumber

Accept(fields) == [status |-> "OK", fields |-> fields]
Reject(code) == [status |-> code, fields |-> <<>>]

-----------------------------------------------------------------------------
(* Slip: the first ';' after the '@', which may be inside the brackets.    *)
AfterHost(host_sep, end_brack) == Plus(host_sep, 1)

(* Where the ';' before the header's parameters is searched from.          *)
AfterAddress(host_sep, end_brack) == Plus(IF end_brack # npos THEN end_brack ELSE host_sep, 1)

(* "sip" and the character after it are skipped whatever that is.          *)
parse_from(value) ==
  LET first_sep == find(<<"sip">>, value, 0)
      host_sep  == find(<<"@">>, value, Plus(first_sep, 1))
      end_brack == find(<<">">>, value, Plus(host_sep, 1))
      last_sep  == find(<<";">>, value, AfterAddress(host_sep, end_brack))
      line_end  == find(<<"\r">>, value, Plus(last_sep, 1))
  IN  IF npos \in {first_sep, host_sep, last_sep, line_end}
        THEN Reject("BAD_REQUEST")
        ELSE Accept([from_uri  |-> substr(value, first_sep + 2, Minus(host_sep, first_sep + 2)),
                     from_host |-> Between(value, host_sep, IF end_brack # npos THEN end_brack ELSE last_sep),
                     from_tag  |-> Between(value, last_sep, line_end)])

parse_to(value) ==
  LET first_sep == find(<<"sip">>, value, 0)
      host_sep  == find(<<"@">>, value, Plus(first_sep, 1))
      line_end  == find(<<"\r">>, value, Plus(host_sep, 1))
      end_brack == find(<<">">>, value, Plus(host_sep, 1))
      last_sep  == find(<<";">>, value, AfterAddress(host_sep, end_brack))
      host_end  == IF end_brack # npos THEN end_brack
                   ELSE IF last_sep # npos THEN last_sep ELSE line_end
  IN  IF npos \in {first_sep, host_sep, line_end}
        THEN Reject("BAD_REQUEST")
        ELSE Accept([to_uri  |-> substr(value, first_sep + 2, Minus(host_sep, first_sep + 2)),
                     to_host |-> Between(value, host_sep, host_end),
                     to_tag  |-> IF last_sep = npos THEN <<>> ELSE Between(value, last_sep, line_end)])

parse_cseq(value) ==
  LET first_space == find(<<" ">>, value, 0)
      line_end    == find(<<"\r">>, value, 0)
  IN  IF npos \in {first_space, line_end}
        THEN Reject("BAD_REQUEST")
        ELSE Accept([cseq_nr  |-> substr(value, 0, first_space),
                     cseq_typ |-> Between(value, first_space, line_end)])

PortLength(branch_begin, port_sep) == Minus(branch_begin, port_sep + 2)

(* One Via value. A value without ':' has no port and is malformed.        *)
via_header(value) ==
  LET transport_begin == find(<<"SIP/2.0/">>, value, 0)
      uri_begin    == find(<<" ">>, value, Plus(transport_begin, 1))
      port_sep     == find(<<":">>, value, Plus(uri_begin, 1))
      branch_begin == find(<<"branch=">>, value, 0)
      line_end     == find(<<"\r">>, value, branch_begin)
  IN  IF npos \in {transport_begin, uri_begin, port_sep, branch_begin, line_end}
        THEN Reject("BAD_REQUEST")
        ELSE Accept([transport |-> Between(value, transport_begin, uri_begin),
                     uri    |-> Between(value, uri_begin, port_sep),
                     port   |-> substr(value, port_sep + 1, PortLength(branch_begin, port_sep)),
                     branch |-> Between(value, branch_begin, line_end)])

parse_via(values) ==
  IF values = <<>> \/ \E i \in DOMAIN values : via_header(values[i]).status # "OK"
    THEN Reject("BAD_REQUEST")
    ELSE Accept([via_list |-> [i \in DOMAIN values |-> via_header(values[i]).fields]])

(* Rejected only when neither "sip:" nor '@' is found; a separator that is *)
(* missing is npos in the arithmetic.                                      *)
parse_contact(values) ==
  IF values = <<>> THEN Accept(<<>>)
  ELSE IF Len(values) > 1 THEN Reject("BAD_REQUEST")
  ELSE
    LET value      == values[1]
        uri_begin  == find(<<"sip", ":">>, value, 0)
        host_sep   == find(<<"@">>, value, uri_begin)
        port_sep   == find(<<":">>, value, host_sep)
        param_sep  == find(<<";">>, value, port_sep)
        header_end == find(<<">">>, value, host_sep)
        line_end   == find(<<"\r">>, value, 0)
    IN  IF uri_begin = npos /\ host_sep = npos
          THEN Reject("BAD_REQUEST")
          ELSE Accept([contact_uri  |-> substr(value, Plus(uri_begin, 2), Minus(host_sep, uri_begin + 2)),
                       contact_host |-> Between(value, host_sep, port_sep),
                       contact_port |-> Between(value, port_sep, param_sep),
                       contact_transport |-> Between(value, param_sep, header_end),
                       contact_param |-> Between(value, header_end, line_end)])

(* Min-SE: the number in front of the end of the line.                     *)
min_se_value(value) == stoi(substr(value, 0, find(<<"\r">>, value, 0)))

TimerLength(refresher_start) == Minus(refresher_start, 1)

(* Session-Expires: the number, and the refresher if one is named. A value *)
(* without an end of line is refused like one without a number.            *)
session_value(value) ==
  LET refresher_start == find(<<"refresher=">>, value, 0)
      line_end == find(<<"\r">>, value, 0)
  IN  IF line_end = npos
        THEN [timer |-> NotANumber, named |-> FALSE]
      ELSE IF refresher_start = npos
        THEN [timer |-> stoi(substr(value, 0, line_end)), named |-> FALSE]
        ELSE [timer |-> stoi(substr(value, 0, TimerLength(refresher_start))), named |-> TRUE,
              refresher |-> Between(value, refresher_start, line_end)]

(* SIPRequest::parse_request_line. Nothing requires an '@'.                *)
parse_request_line(line) ==
  LET first_space    == find(<<" ">>, line, 0)
      second_space   == find(<<" ">>, line, Plus(first_space, 1))
      host_seperator == find(<<"@">>, line, Plus(first_space, 1))
  IN  IF npos \in {first_space, second_space}
        THEN Reject("BAD_REQUEST")
        ELSE Accept([method |-> substr(line, 0, first_space),
                     request_uri  |-> Between(line, first_space, host_seperator),
                     request_host |-> Between(line, host_seperator, second_space)])

(* Slip: whether a space follows the code is not checked.                  *)
parse_status_line_unchecked(line) ==
  LET code_start == find(<<"SIP/2.0">>, line, 0)
      code_sep   == find(<<" ">>, line, Plus(code_start, 2))
  IN  IF code_start = npos
        THEN Reject("BAD_REQUEST")
        ELSE Accept([response_code |-> substr(line, code_start + 2, Minus(code_sep, code_start + 2)),
                     response_type |-> substr(line, Plus(code_sep, 1), npos)])

(* SIPResponse::parse_request_line. stoi needs the code to begin with a    *)
(* number.                                                                 *)
parse_status_line(line) ==
  LET code_start == find(<<"SIP/2.0">>, line, 0)
      code_sep   == find(<<" ">>, line, Plus(code_start, 2))
      code       == substr(line, code_start + 2, Minus(code_sep, code_start + 2))
  IN  IF npos \in {code_start, code_sep} \/ stoi(code) = NotANumber
        THEN Reject("BAD_REQUEST")
        ELSE Accept([response_code |-> code,
                     response_type |-> substr(line, code_sep + 1, npos)])

(* parse_pai and parse_ppi of one value.                                   *)
identity(value) ==
  LET uri_begin == find(<<"sip", ":">>, value, 0)
      host_sep  == find(<<"@">>, value, Plus(uri_begin, 2))
      bracket   == find(<<">">>, value, Plus(host_sep, 1))
      line_end  == IF bracket # npos THEN bracket ELSE find(<<"\r">>, value, 0)
  IN  IF npos \in {uri_begin, host_sep}
        THEN Reject("UNSUPPORTED_URI_SCHEME")
        ELSE Accept([uri |-> substr(value, uri_begin + 2, Minus(host_sep, uri_begin + 2)),
                     host |-> Between(value, host_sep, line_end)])

(* Without the header, the list gets one empty entry.                      *)
identities(values) ==
  IF values = <<>> THEN [status |-> "OK", list |-> << [uri |-> <<>>, host |-> <<>>] >>]
  ELSE IF \E i \in DOMAIN values : identity(values[i]).status # "OK"
    THEN [status |-> "UNSUPPORTED_URI_SCHEME", list |-> <<>>]
    ELSE [status |-> "OK", list |-> [i \in DOMAIN values |-> identity(values[i]).fields]]

-----------------------------------------------------------------------------
(* The forms a well-formed value has, written down from its parts.         *)
Bracketed(uri, host) == <<"<", "sip", ":">> \o uri \o <<"@">> \o host \o <<">">>
Unbracketed(uri, host) == <<"sip", ":">> \o uri \o <<"@">> \o host
WithParam(address, param) == address \o <<";">> \o param \o <<"\r">>
Via(transport, uri, port, branch) ==
  <<"SIP/2.0/">> \o transport \o <<" ">> \o uri \o <<":">> \o port \o <<";", "branch=">> \o branch
    \o <<"\r">>
Contact(uri, host, port, transport, param) ==
  <<"<", "sip", ":">> \o uri \o <<"@">> \o host \o <<":">> \o port \o <<";">> \o transport
    \o <<">">> \o param \o <<"\r">>
=============================================================================

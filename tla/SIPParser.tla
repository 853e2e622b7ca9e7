----------------------------- MODULE SIPParser ------------------------------
(***************************************************************************)
(* The parser of parser/: SIPParser chooses a class for the message, the   *)
(* constructor of SIPMessage parses what all messages have, step by step,  *)
(* and the constructor of SIPRequest or SIPResponse the rest. The message  *)
(* is parsed by the thread that received it; one behaviour is one message. *)
(*                                                                         *)
(* A message is its first line, the lines up to the first empty one and    *)
(* the length of what follows that. Values are sequences of tokens         *)
(* (HeaderFields); of a list header the tokens are the items between the   *)
(* commas, Blank if only white.                                            *)
(* What a failing step has assigned before it fails is left out: fields    *)
(* are looked at only of a message whose status is OK.                     *)
(*                                                                         *)
(* A definition whose comment begins with "Slip" is not part of the model: *)
(* it is a wrong version of the definition that follows it, put in its     *)
(* place to see that the properties tell the two apart.                    *)
(***************************************************************************)
EXTENDS HeaderFields

CONSTANTS
  Message,        (* the messages that are parsed                          *)
  Unprintable,    (* the tokens with a character is_value_ascii refuses    *)
  NotAName,       (* the names with a character is_header_ascii refuses    *)
  Lower,          (* the lower case of a method's name                     *)
  Word,           (* number of values of uint16_t                          *)
  Text            (* texts for the properties to look for in the fields    *)

ListHeader == {"Content-Type", "Supported", "Require", "Allow"}

(* The list of a list header has an item at least, a value is a string of  *)
(* a length size_t counts twice, and a text has no separator in it.        *)
ASSUME SIPParserAssumption ==
  /\ Word \in Nat \ {0}
  /\ \A m \in Message :
       /\ m \in [line : Seq(STRING), terminated : BOOLEAN, body : Nat,
                 lines : Seq([name : STRING, value : Seq(STRING), colon : BOOLEAN, spelled : BOOLEAN])]
       /\ IsValue(m.line)
       /\ \A i \in DOMAIN m.lines :
            /\ IsValue(m.lines[i].value)
            /\ m.lines[i].name \in ListHeader => m.lines[i].value # <<>>
  /\ \A text \in Text : text \in Seq(STRING) /\ \A i \in DOMAIN text : text[i] \notin Literal

VARIABLES
  msg,            (* the message                                           *)
  cls,            (* its class, "undecided" before parse_message chooses   *)
  pc,             (* the step the constructors are at                      *)
  status,         (* m_parsing_status                                      *)
  fields,         (* the members parsed so far                             *)
  at,             (* parse_values: the line and the item it is at          *)
  values          (* parse_values: the tokens it has collected             *)

vars == <<msg, cls, pc, status, fields, at, values>>

(* The steps of the constructors in their order, and how they end: the     *)
(* object is returned, or an exception leaves the constructor.             *)
StepOrder ==
  <<"is_response", "SIPMessage", "parse_from", "parse_to", "parse_cseq", "parse_via",
    "parse_contact", "parse_content", "Content-Type", "Supported", "Require", "Allow",
    "parse_session_expire", "sdp", "derived", "parse_pai", "parse_ppi", "returned", "thrown">>

Place(step) == CHOOSE i \in DOMAIN StepOrder : StepOrder[i] = step

ErrorCode == {"OK", "BAD_REQUEST", "LENGTH_REQUIRED", "UNSUPPORTED_MEDIA_TYPE",
              "UNSUPPORTED_URI_SCHEME"}

(* An item of a list that holds nothing but white space.                   *)
Blank == ""

uint16(n) == n % Word

is_value_ascii(value) == \A i \in DOMAIN value : value[i] \notin Unprintable

is_header_ascii(name) == name \notin NotAName

(* from_value, to_value, cseq_value: whatever the spelling, the last line. *)
the_value(name) ==
  LET at_ == {i \in DOMAIN msg.lines : msg.lines[i].colon /\ msg.lines[i].name = name}
  IN  IF at_ = {} THEN <<>> ELSE msg.lines[Max(at_)].value

(* A line m_headers[name] finds, spelled as it is looked up.               *)
Found(i, name) == msg.lines[i].colon /\ msg.lines[i].name = name /\ msg.lines[i].spelled

(* The k-th line of the name.                                              *)
Nth(name, k) ==
  CHOOSE i \in DOMAIN msg.lines :
    Found(i, name) /\ Cardinality({j \in 1 .. i : Found(j, name)}) = k

(* m_headers[name]: the value of every line.                               *)
get_header(name) ==
  [k \in 1 .. Cardinality({i \in DOMAIN msg.lines : Found(i, name)}) |-> msg.lines[Nth(name, k)].value]

(* The members after a step that has assigned some of them.                *)
Assigned(new, old) ==
  [f \in DOMAIN new \cup DOMAIN old |-> IF f \in DOMAIN new THEN new[f] ELSE old[f]]

(* A message is parsed by way of SIPParser or by constructing its class.   *)
Init ==
  /\ msg \in Message
  /\ \/ cls = "undecided" /\ pc = "is_response"
     \/ cls \in {"SIPRequest", "SIPResponse"} /\ pc = "SIPMessage"
  /\ status = "OK"
  /\ fields = <<>>
  /\ at = <<1, 1>>
  /\ values = {}

-----------------------------------------------------------------------------
(* Slip: the constructor calls parse_all whatever parse_message answers.   *)
EndsRegardless(here, result, next) ==
  /\ pc = here
  /\ status' = result.status
  /\ fields' = Assigned(result.fields, fields)
  /\ pc' = IF result.status = "OK" \/ here = "SIPMessage" THEN next ELSE "returned"
  /\ UNCHANGED <<msg, cls, at, values>>

(* The function at step "here" has ended with a result: go on, or return   *)
(* the object as it is.                                                    *)
Ends(here, result, next) ==
  /\ pc = here
  /\ status' = result.status
  /\ fields' = Assigned(result.fields, fields)
  /\ pc' = IF result.status = "OK" THEN next ELSE "returned"
  /\ UNCHANGED <<msg, cls, at, values>>

is_response(line) == find(<<"SIP/2.0">>, line, 0) # 0

ChooseClass ==
  /\ pc = "is_response"
  /\ cls' = IF is_response(msg.line) THEN "SIPResponse" ELSE "SIPRequest"
  /\ pc' = "SIPMessage"
  /\ UNCHANGED <<msg, status, fields, at, values>>

(* Empty, or without the end of the header.                                *)
Throw ==
  /\ pc = "SIPMessage"
  /\ ~msg.terminated
  /\ pc' = "thrown"
  /\ UNCHANGED <<msg, cls, status, fields, at, values>>

(* A line without a colon is passed over.                                  *)
ParseMessage ==
  /\ msg.terminated
  /\ Ends("SIPMessage",
          IF /\ is_value_ascii(msg.line)
             /\ \A i \in DOMAIN msg.lines : msg.lines[i].colon =>
                  is_header_ascii(msg.lines[i].name) /\ is_value_ascii(msg.lines[i].value)
            THEN Accept([call_id |-> the_value("Call-ID")]) ELSE Reject("BAD_REQUEST"),
          "parse_from")

ParseFrom == Ends("parse_from", parse_from(the_value("From")), "parse_to")

ParseTo == Ends("parse_to", parse_to(the_value("To")), "parse_cseq")

ParseCSeq == Ends("parse_cseq", parse_cseq(the_value("CSeq")), "parse_via")

ParseVia == Ends("parse_via", parse_via(get_header("Via")), "parse_contact")

ParseContact == Ends("parse_contact", parse_contact(get_header("Contact")), "parse_content")

parse_content(lengths) ==
  IF Len(lengths) # 1 THEN Reject("LENGTH_REQUIRED")
  ELSE IF stoi(lengths[1]) = NotANumber THEN Reject("BAD_REQUEST")
  ELSE LET length == uint16(stoi(lengths[1]))
       IN  Accept([content_length |-> length, has_content |-> length # 0])

(* Content-Type is looked at only when there is content.                   *)
ParseContent ==
  LET result == parse_content(get_header("Content-Length"))
  IN  Ends("parse_content", result,
           IF result.status = "OK" /\ result.fields.has_content THEN "Content-Type" ELSE "Supported")

-----------------------------------------------------------------------------
(* parse_values over the list header the parsing is at, and its use *)

After(header) ==
  CASE header = "Content-Type" -> "Supported"
    [] header = "Supported"    -> "Require"
    [] header = "Require"      -> "Allow"
    [] header = "Allow"        -> "parse_session_expire"

(* Slip: the break at the last item is missing.                            *)
NextItemNoBreak(items, i) == IF i < Len(items) THEN i + 1 ELSE 1

(* Slip: one item too many.                                                *)
NextItemPast(items, i) == IF i <= Len(items) THEN i + 1 ELSE 0

(* The item parse_values goes to after item i, 0 when it has done the line.*)
(* After a last item that is blank, start = npos + 1 is the first again.   *)
NextItem(items, i) ==
  IF i < Len(items) THEN i + 1 ELSE IF items[i] = Blank THEN 1 ELSE 0

TakeItem ==
  /\ pc \in ListHeader
  /\ at[1] <= Len(get_header(pc))
  /\ LET items == get_header(pc)[at[1]]
         next  == NextItem(items, at[2])
     IN  /\ values' = values \cup ({items[at[2]]} \ {Blank})
         /\ at' = IF next = 0 THEN <<at[1] + 1, 1>> ELSE <<at[1], next>>
  /\ UNCHANGED <<msg, cls, pc, status, fields>>

(* What parse_content and the handlers make of the collected tokens.       *)
FromList(header, tokens) ==
  CASE header = "Content-Type" ->
         IF get_header(header) = <<>> THEN Reject("BAD_REQUEST")
         ELSE IF "application/sdp" \in tokens THEN Accept([content_type |-> "application/sdp"])
         ELSE Reject("UNSUPPORTED_MEDIA_TYPE")
    [] header = "Supported" ->
         Accept([supported_100_rel |-> "100rel" \in tokens, supported_timer |-> "timer" \in tokens])
    [] header = "Require" ->
         Accept([required_100_rel |-> "100rel" \in tokens, required_timer |-> "timer" \in tokens])
    [] header = "Allow" ->
         Accept([update_allowed |-> "UPDATE" \in tokens])

(* Slip: the tokens of the previous header are not cleared.                *)
EndOfListKeep ==
  /\ pc \in ListHeader
  /\ at[1] > Len(get_header(pc))
  /\ LET result == FromList(pc, values)
     IN  /\ status' = result.status
         /\ fields' = Assigned(result.fields, fields)
         /\ pc' = IF result.status = "OK" THEN After(pc) ELSE "returned"
  /\ at' = <<1, 1>>
  /\ UNCHANGED <<msg, cls, values>>

EndOfList ==
  /\ pc \in ListHeader
  /\ at[1] > Len(get_header(pc))
  /\ LET result == FromList(pc, values)
     IN  /\ status' = result.status
         /\ fields' = Assigned(result.fields, fields)
         /\ pc' = IF result.status = "OK" THEN After(pc) ELSE "returned"
  /\ at' = <<1, 1>>
  /\ values' = {}
  /\ UNCHANGED <<msg, cls>>

-----------------------------------------------------------------------------
(* More than two Min-SE are only logged; the last value of a header stays. *)
min_se(list) ==
  IF list = <<>> \/ Len(list) > 2 THEN Accept(<<>>)
  ELSE IF \E i \in DOMAIN list : min_se_value(list[i]) = NotANumber THEN Reject("BAD_REQUEST")
  ELSE Accept([min_se |-> uint16(min_se_value(list[Len(list)]))])

(* The refresher is that of the last line that names one.                  *)
session_expires(list) ==
  LET parts == [i \in DOMAIN list |-> session_value(list[i])]
      named == {i \in DOMAIN parts : parts[i].named}
  IN  IF list = <<>> THEN Accept(<<>>)
      ELSE IF \E i \in DOMAIN parts : parts[i].timer = NotANumber THEN Reject("BAD_REQUEST")
      ELSE Accept([refresh_timer |-> uint16(parts[Len(parts)].timer),
                   refresher |-> IF named = {} THEN <<>> ELSE parts[Max(named)].refresher])

ParseSessionExpire ==
  LET first  == min_se(get_header("Min-SE"))
      second == session_expires(get_header("Session-Expires"))
      result == IF first.status # "OK" THEN first
                ELSE [second EXCEPT !.fields = Assigned(@, first.fields)]
  IN  Ends("parse_session_expire", result, "sdp")

(* Slip: the comparison of a body longer than announced is missing.        *)
SdpFits(length, body) == length <= body

SdpMatches(length, body) == length = body

(* The rest of parse_all: the body is what follows the header.             *)
ParseSdp ==
  Ends("sdp",
       IF fields.has_content /\ ~SdpMatches(fields.content_length, msg.body)
         THEN Reject("LENGTH_REQUIRED")
         ELSE Accept(<<>>),
       "derived")

SIPMethod == {"INVITE", "ACK", "BYE", "REGISTER", "OPTIONS", "CANCEL", "UPDATE", "PRACK", "UNKNOWN"}

(* The method in upper case, if it is one of those that are known.         *)
parse_method_enum(method) ==
  LET known == {m \in SIPMethod \ {"UNKNOWN"} : method \in {<<m>>, <<Lower[m]>>}}
  IN  IF known = {} THEN "UNKNOWN" ELSE CHOOSE m \in known : TRUE

(* SIPRequest::parse_message and SIPResponse::parse_message.               *)
ParseDerived ==
  \/ /\ cls = "SIPResponse"
     /\ Ends("derived", parse_status_line(msg.line), "returned")
  \/ /\ cls = "SIPRequest"
     /\ LET result == parse_request_line(msg.line)
        IN  Ends("derived", result,
                 IF result.status = "OK" /\ parse_method_enum(result.fields.method) = "INVITE"
                   THEN "parse_pai" ELSE "returned")

ParsePai ==
  LET found == identities(get_header("P-Asserted-Identity"))
  IN  Ends("parse_pai",
           IF found.status = "OK" THEN Accept([pai_list |-> found.list]) ELSE Reject(found.status),
           "parse_ppi")

ParsePpi ==
  LET found == identities(get_header("p-preferred-identity"))
  IN  Ends("parse_ppi",
           IF found.status = "OK" THEN Accept([ppi_list |-> found.list]) ELSE Reject(found.status),
           "returned")

parse_message ==
  \/ ChooseClass
  \/ Throw
  \/ ParseMessage
  \/ ParseFrom
  \/ ParseTo
  \/ ParseCSeq
  \/ ParseVia
  \/ ParseContact
  \/ ParseContent
  \/ TakeItem
  \/ EndOfList
  \/ ParseSessionExpire
  \/ ParseSdp
  \/ ParseDerived
  \/ ParsePai
  \/ ParsePpi

(* The caller has its answer.                                              *)
Returned == pc \in {"returned", "thrown"} /\ UNCHANGED vars

Next == parse_message \/ Returned

Spec == Init /\ [][Next]_vars

(* The thread that parses runs.                                            *)
FairSpec == Spec /\ WF_vars(parse_message)
-----------------------------------------------------------------------------
(* Properties *)

TypeOK ==
  /\ cls \in {"undecided", "SIPRequest", "SIPResponse"}
  /\ \E i \in DOMAIN StepOrder : pc = StepOrder[i]
  /\ status \in ErrorCode
  /\ pc \in ListHeader /\ at[1] <= Len(get_header(pc)) => at[2] \in DOMAIN get_header(pc)[at[1]]
  /\ "" \notin values

Accepted == pc = "returned" /\ status = "OK"

(* Line i is the last one of its name, in whatever spelling.               *)
LastOf(name, i) ==
  /\ msg.lines[i].colon /\ msg.lines[i].name = name
  /\ \A j \in DOMAIN msg.lines : j > i => ~msg.lines[j].colon \/ msg.lines[j].name # name

(* Of an accepted message whose last From and To are well formed, with or  *)
(* without brackets, tag and parameters inside the brackets, the position  *)
(* arithmetic of parse_from and parse_to finds the parts they were written *)
(* from, whatever other lines there are.                                   *)
AddressesExact ==
  Accepted => \A i \in DOMAIN msg.lines : \A u, h, p \in Text :
    LET value  == msg.lines[i].value
        inside == h \o <<";">> \o p
        from   == <<fields.from_uri, fields.from_host, fields.from_tag>>
        to     == <<fields.to_uri, fields.to_host, fields.to_tag>>
    IN  /\ LastOf("From", i) =>
             /\ value \in {WithParam(Bracketed(u, h), p), WithParam(Unbracketed(u, h), p)}
                  => from = <<u, h, p>>
             /\ value = WithParam(Bracketed(u, inside), p) => from = <<u, inside, p>>
        /\ LastOf("To", i) =>
             /\ value \in {WithParam(Bracketed(u, h), p), WithParam(Unbracketed(u, h), p)}
                  => to = <<u, h, p>>
             /\ value \in {Bracketed(u, h) \o <<"\r">>, Unbracketed(u, h) \o <<"\r">>}
                  => to = <<u, h, <<>>>>
             /\ value = Bracketed(u, inside) \o <<"\r">> => to = <<u, inside, <<>>>>

(* The same for Via with a port and the branch first, for a Contact with   *)
(* all its parts, for CSeq, the session timer and for the lines and        *)
(* identities of a request.                                                *)
RoutingExact ==
  Accepted =>
    LET vias     == get_header("Via")
        contacts == get_header("Contact")
        pais     == get_header("P-Asserted-Identity")
        timers   == get_header("Session-Expires")
    IN  \A u, h, p, q \in Text :
          /\ \A i \in DOMAIN vias :
               vias[i] = Via(u, h, p, q)
                 => fields.via_list[i] = [transport |-> u, uri |-> h, port |-> p, branch |-> q]
          /\ contacts = <<Contact(u, h, p, q, u)>>
               => <<fields.contact_uri, fields.contact_host, fields.contact_port,
                    fields.contact_transport, fields.contact_param>> = <<u, h, p, q, u>>
          /\ \A i \in DOMAIN msg.lines :
               LastOf("CSeq", i) /\ msg.lines[i].value = u \o <<" ">> \o h \o <<"\r">>
                 => <<fields.cseq_nr, fields.cseq_typ>> = <<u, h>>
          /\ \A n \in DOMAIN Numeral :
               timers = <<<<n, ";", "refresher=">> \o u \o <<"\r">>>>
                 => fields.refresh_timer = uint16(Numeral[n]) /\ fields.refresher = u
          /\ cls = "SIPRequest" /\ msg.line = u \o <<" ">> \o Unbracketed(h, p) \o <<" ", "SIP/2.0">>
               => <<fields.method, fields.request_uri, fields.request_host>>
                    = <<u, <<"sip", ":">> \o h, p>>
          /\ "pai_list" \in DOMAIN fields => \A i \in DOMAIN pais :
               pais[i] \in {Bracketed(u, h) \o <<"\r">>, Unbracketed(u, h) \o <<"\r">>}
                 => fields.pai_list[i] = [uri |-> u, host |-> h]

(* What has one of these forms in an accepted message is cut out exactly.  *)
FieldsExact == AddressesExact /\ RoutingExact

(* Whatever the octets are, no substr begins past the end of its value: it *)
(* would throw through the dispatcher into the thread that received them.  *)
Cut ==
  {"from_uri", "from_host", "from_tag", "to_uri", "to_host", "to_tag", "cseq_nr", "cseq_typ",
   "contact_uri", "contact_host", "contact_port", "contact_transport", "contact_param",
   "method", "request_uri", "request_host", "response_code", "response_type"}

NothingOutOfRange ==
  /\ \A f \in Cut \cap DOMAIN fields : fields[f] # OutOfRange
  /\ "via_list" \in DOMAIN fields =>
       \A i \in DOMAIN fields.via_list :
         OutOfRange \notin {fields.via_list[i][f] : f \in DOMAIN fields.via_list[i]}
  /\ \A f \in {"pai_list", "ppi_list"} \cap DOMAIN fields :
       \A i \in DOMAIN fields[f] : OutOfRange \notin {fields[f][i].uri, fields[f][i].host}

(* These tokens stand in the value, in this order.                         *)
InOrder(value, tokens) ==
  \E p \in [DOMAIN tokens -> DOMAIN value] :
    \A k \in DOMAIN tokens : value[p[k]] = tokens[k] /\ (k > 1 => p[k - 1] < p[k])

(* What a message must have to get past a step, said of its tokens and not *)
(* by the functions that look for them.                                    *)
Required(step) ==
  LET each(header, tokens) == \A i \in DOMAIN get_header(header) : InOrder(get_header(header)[i], tokens)
  IN  CASE step = "SIPMessage" ->
             /\ msg.terminated
             /\ \A i \in DOMAIN msg.line : msg.line[i] \notin Unprintable
             /\ \A i \in DOMAIN msg.lines : msg.lines[i].colon =>
                  /\ msg.lines[i].name \notin NotAName
                  /\ \A k \in DOMAIN msg.lines[i].value : msg.lines[i].value[k] \notin Unprintable
        [] step = "parse_from" -> InOrder(the_value("From"), <<"sip", "@", ";", "\r">>)
        [] step = "parse_to" -> InOrder(the_value("To"), <<"sip", "@", "\r">>)
        [] step = "parse_cseq" -> InOrder(the_value("CSeq"), <<" ">>) /\ InOrder(the_value("CSeq"), <<"\r">>)
        [] step = "parse_via" ->
             /\ get_header("Via") # <<>>
             /\ each("Via", <<"SIP/2.0/", " ", ":">>)
             /\ each("Via", <<"branch=", "\r">>)
        [] step = "parse_contact" -> Len(get_header("Contact")) <= 1
        [] step = "derived" ->
             InOrder(msg.line, IF cls = "SIPRequest" THEN <<" ", " ">> ELSE <<"SIP/2.0", " ">>)
        [] step = "parse_pai" -> each("P-Asserted-Identity", <<"sip", ":", "@">>)
        [] step = "parse_ppi" -> each("p-preferred-identity", <<"sip", ":", "@">>)

(* m_parsing_status is one variable that every step of three constructors  *)
(* assigns, and only the last value is looked at. No defect is lost behind *)
(* a later success: a message whose status is OK has what each step it has *)
(* been through requires, an INVITE its identities too. (The first defect  *)
(* does end the parsing, whatever the comments of the three files say.)    *)
AcceptedIsSound ==
  Accepted =>
    /\ \A step \in {"SIPMessage", "parse_from", "parse_to", "parse_cseq", "parse_via", "parse_contact",
                    "derived"} : Required(step)
    /\ cls = "SIPRequest" /\ parse_method_enum(fields.method) = "INVITE"
         => Required("parse_pai") /\ Required("parse_ppi")

Items(header) ==
  UNION {{msg.lines[i].value[j] : j \in DOMAIN msg.lines[i].value} :
           i \in {k \in DOMAIN msg.lines : Found(k, header)}}

(* Parser and network on where a message ends. The network cuts it out by  *)
(* the number its Content-Length announces; the parser compares the body   *)
(* with what is left of that number in a uint16_t, and looks at no body    *)
(* when that is 0. So what is accepted announces nothing (a multiple of    *)
(* 2^16: 65536 with any body too), or the length of its body but for such  *)
(* a multiple (65541 with a body of 5), and of a type that is supported;   *)
(* and what the network has cut out whole is refused for its length only   *)
(* if that does not fit (65541 with a body of 65541).                      *)
ContentAgrees ==
  LET lengths   == get_header("Content-Length")
      announced == stoi(lengths[1])
  IN  /\ Accepted => /\ Len(lengths) = 1
                     /\ announced # NotANumber
                     /\ uint16(announced) # 0 => /\ msg.body = uint16(announced)
                                                 /\ "application/sdp" \in Items("Content-Type")
      /\ pc = "returned" /\ status = "LENGTH_REQUIRED" /\ Len(lengths) = 1 /\ announced = msg.body
           => msg.body >= Word /\ uint16(msg.body) # 0

(* The flags of an accepted message say what is listed in any line of the  *)
(* header they are named for, and nothing of another header.               *)
FlagsExact ==
  Accepted => /\ fields.supported_100_rel = ("100rel" \in Items("Supported"))
              /\ fields.supported_timer   = ("timer" \in Items("Supported"))
              /\ fields.required_100_rel  = ("100rel" \in Items("Require"))
              /\ fields.required_timer    = ("timer" \in Items("Require"))
              /\ fields.update_allowed    = ("UPDATE" \in Items("Allow"))

(* No list header ends in a comma or has no value.                         *)
NoBlankEnd ==
  \A i \in DOMAIN msg.lines :
    LET l == msg.lines[i] IN l.name \in ListHeader => l.value[Len(l.value)] # Blank

(* The parsing of such a message ends: each step goes on to a later step   *)
(* of the constructors, a later line of the same header or a later item of *)
(* the same line.                                                          *)
Advances ==
  \/ Place(pc') > Place(pc)
  \/ pc' = pc /\ at'[1] > at[1]
  \/ pc' = pc /\ at'[1] = at[1] /\ at'[2] > at[2]

ParsingAdvances == [][NoBlankEnd => Advances]_vars

(* "The parsed message is returned", whatever the message.                 *)
MessageReturned == <>(pc \in {"returned", "thrown"})

(* "Parser evaluates the first line to decide between request/response.    *)
(* The correct derived SIPMessage type is instantiated."                   *)
CorrectType ==
  [][ pc = "is_response" => cls' = IF msg.line[1] = "SIP/2.0" THEN "SIPResponse" ELSE "SIPRequest" ]_vars
=============================================================================

-------------------------- MODULE SIPParserProofs ---------------------------
(***************************************************************************)
(* Proofs about SIPParser for every set of messages, every width of the    *)
(* integers and any number of header lines.                                *)
(*                                                                         *)
(* The lines of a header are numbered by how many of them come before      *)
(* (Numbered), so get_header answers each of them once. Stepped says what  *)
(* a step of the constructors may change. On these rest four invariants:   *)
(* ShapeInv, where the parsing is in a list and what it has of it (also    *)
(* when a list ends blank and its line is read again); FieldInv, what each *)
(* step that was got past has found out about content and flags; AnswerInv,*)
(* that the answer of each function is in the members still; and SoundInv, *)
(* that the steps without such an answer have found nothing missing.       *)
(***************************************************************************)
EXTENDS SIPParser, HeaderFormsProofs

(* The messages are what the assumption says they are.                     *)
LEMMA MessageParts ==
  ASSUME msg \in Message
  PROVE  /\ IsValue(msg.line)
         /\ msg.body \in Nat
         /\ msg.lines \in Seq([name : STRING, value : Seq(STRING), colon : BOOLEAN, spelled : BOOLEAN])
         /\ \A i \in DOMAIN msg.lines :
              /\ IsValue(msg.lines[i].value)
              /\ msg.lines[i].name \in ListHeader => msg.lines[i].value # <<>>
BY SIPParserAssumption

-----------------------------------------------------------------------------
(* The lines of a header *)

(* The lines of a name, and how many of them there are up to line i.       *)
LinesOf(name) == {i \in DOMAIN msg.lines : Found(i, name)}
UpTo(name, i) == {j \in 1 .. i : Found(j, name)}

(* Counting the lines of a name numbers them: every number up to their     *)
(* count is that of exactly one line.                                      *)
LEMMA Numbered ==
  ASSUME msg \in Message, NEW name
  PROVE  /\ IsFiniteSet(LinesOf(name)) /\ Cardinality(LinesOf(name)) \in Nat
         /\ \A i \in LinesOf(name) : Cardinality(UpTo(name, i)) \in 1 .. Cardinality(LinesOf(name))
         /\ \A i, j \in LinesOf(name) : Cardinality(UpTo(name, i)) = Cardinality(UpTo(name, j)) => i = j
         /\ \A k \in 1 .. Cardinality(LinesOf(name)) :
              \E i \in LinesOf(name) : Cardinality(UpTo(name, i)) = k
<1> DEFINE N == Len(msg.lines)
           L == LinesOf(name)
           rank == [i \in L |-> Cardinality(UpTo(name, i))]
<1>1. N \in Nat /\ DOMAIN msg.lines = 1 .. N
  BY MessageParts
<1> HIDE DEF N
<1>2. L \subseteq 1 .. N
  BY <1>1 DEF LinesOf
<1>3. IsFiniteSet(L) /\ Cardinality(L) \in Nat
  <2>1. 1 \in Int /\ N \in Int
    BY <1>1
  <2> HIDE DEF L
  <2> QED BY <1>2, <2>1, FS_Interval, FS_Subset, FS_CardinalityType
<1>4. \A i \in L : UpTo(name, i) \subseteq L /\ i \in UpTo(name, i)
  BY <1>1 DEF LinesOf, UpTo
<1>5. \A i \in L : IsFiniteSet(UpTo(name, i)) /\ rank[i] \in 1 .. Cardinality(L)
  <2> TAKE i \in L
  <2>1. UpTo(name, i) \subseteq L /\ i \in UpTo(name, i)
    BY <1>4
  <2>2. rank[i] = Cardinality(UpTo(name, i))
    OBVIOUS
  <2> HIDE DEF L
  <2>3. IsFiniteSet(UpTo(name, i)) /\ Cardinality(UpTo(name, i)) <= Cardinality(L)
    BY <1>3, <2>1, FS_Subset
  <2>4. Cardinality(UpTo(name, i)) \in Nat /\ Cardinality(UpTo(name, i)) # 0
    BY <2>1, <2>3, FS_CardinalityType, FS_EmptySet
  <2> QED BY <1>3, <2>2, <2>3, <2>4
<1>6. ASSUME NEW i \in L, NEW j \in L, i < j PROVE rank[i] # rank[j]
  <2>1. UpTo(name, i) \subseteq UpTo(name, j) /\ j \in UpTo(name, j) /\ j \notin UpTo(name, i)
    BY <1>1, <1>2, <1>6 DEF LinesOf, UpTo
  <2>2. rank[i] = Cardinality(UpTo(name, i)) /\ rank[j] = Cardinality(UpTo(name, j))
    OBVIOUS
  <2> HIDE DEF L
  <2> QED BY <1>5, <2>1, <2>2, FS_Subset
<1>7. \A i, j \in L : rank[i] = rank[j] => i = j
  <2> SUFFICES ASSUME NEW i \in L, NEW j \in L, i # j PROVE rank[i] # rank[j]
    OBVIOUS
  <2>1. i \in Int /\ j \in Int
    BY <1>1, <1>2
  <2>2. i < j \/ j < i
    BY <2>1
  <2> QED BY <1>6, <2>2
<1>8. \A k \in 1 .. Cardinality(L) : \E i \in L : rank[i] = k
  <2> HIDE DEF L
  <2>1. rank \in Injection(L, 1 .. Cardinality(L))
    <3>1. rank \in [L -> 1 .. Cardinality(L)]
      BY <1>5
    <3> QED BY <1>7, <3>1 DEF Injection, IsInjective
  <2>2. 1 \in Int /\ Cardinality(L) \in Int /\ Cardinality(L) >= 0
    BY <1>3
  <2>3. IsFiniteSet(1 .. Cardinality(L)) /\ Cardinality(1 .. Cardinality(L)) = Cardinality(L)
    BY <1>3, <2>2, FS_Interval
  <2>4. rank \in Surjection(L, 1 .. Cardinality(L))
    BY <2>1, <2>3, FS_Injection
  <2> QED BY <2>4 DEF Surjection
<1> QED BY <1>3, <1>5, <1>7, <1>8

(* What get_header answers: the value of each line of the name, once, and  *)
(* nothing else.                                                           *)
LEMMA HeaderLines ==
  ASSUME msg \in Message, NEW name
  PROVE  /\ Len(get_header(name)) \in Nat
         /\ DOMAIN get_header(name) = 1 .. Len(get_header(name))
         /\ \A k \in DOMAIN get_header(name) :
              \E i \in DOMAIN msg.lines : Found(i, name) /\ get_header(name)[k] = msg.lines[i].value
         /\ \A i \in DOMAIN msg.lines :
              Found(i, name) => \E k \in DOMAIN get_header(name) : get_header(name)[k] = msg.lines[i].value
<1> DEFINE n == Cardinality(LinesOf(name))
<1>1. n \in Nat
  BY Numbered
<1>2. get_header(name) = [k \in 1 .. n |-> msg.lines[Nth(name, k)].value]
  BY DEF get_header, LinesOf
<1>3. \A k : Nth(name, k) = CHOOSE i \in DOMAIN msg.lines : Found(i, name) /\ Cardinality(UpTo(name, i)) = k
  BY DEF Nth, UpTo
<1>4. \A k \in 1 .. n : Nth(name, k) \in LinesOf(name) /\ Cardinality(UpTo(name, Nth(name, k))) = k
  <2> TAKE k \in 1 .. n
  <2>1. \E i \in DOMAIN msg.lines : Found(i, name) /\ Cardinality(UpTo(name, i)) = k
    BY Numbered DEF LinesOf
  <2> QED BY <1>3, <2>1 DEF LinesOf
<1>5. \A i \in LinesOf(name) : Cardinality(UpTo(name, i)) \in 1 .. n /\ Nth(name, Cardinality(UpTo(name, i))) = i
  BY <1>4, Numbered
<1> HIDE DEF n
<1>6. Len(get_header(name)) = n /\ DOMAIN get_header(name) = 1 .. n
  BY <1>1, <1>2
<1>7. \A k \in 1 .. n : get_header(name)[k] = msg.lines[Nth(name, k)].value
  BY <1>2
<1>8. ASSUME NEW k \in 1 .. n
      PROVE  \E i \in DOMAIN msg.lines : Found(i, name) /\ get_header(name)[k] = msg.lines[i].value
  BY <1>4, <1>7 DEF LinesOf
<1>9. ASSUME NEW i \in DOMAIN msg.lines, Found(i, name)
      PROVE  \E k \in 1 .. n : get_header(name)[k] = msg.lines[i].value
  <2>1. i \in LinesOf(name)
    BY <1>9 DEF LinesOf
  <2> QED BY <1>5, <1>7, <2>1
<1> QED BY <1>1, <1>6, <1>8, <1>9

LEMMA HeaderValues ==
  ASSUME msg \in Message, NEW name
  PROVE  \A k \in DOMAIN get_header(name) :
           /\ IsValue(get_header(name)[k])
           /\ name \in ListHeader => get_header(name)[k] # <<>>
<1> TAKE k \in DOMAIN get_header(name)
<1>1. PICK i \in DOMAIN msg.lines : Found(i, name) /\ get_header(name)[k] = msg.lines[i].value
  BY HeaderLines
<1>2. msg.lines[i].name = name
  BY <1>1 DEF Found
<1> QED BY <1>1, <1>2, MessageParts

LEMMA LastValue ==
  ASSUME msg \in Message, NEW name
  PROVE  IsValue(the_value(name))
<1> DEFINE at_ == {i \in DOMAIN msg.lines : msg.lines[i].colon /\ msg.lines[i].name = name}
<1>1. the_value(name) = IF at_ = {} THEN <<>> ELSE msg.lines[Max(at_)].value
  BY DEF the_value
<1>2. CASE at_ = {}
  <2>1. <<>> \in Seq(STRING) /\ Len(<<>>) = 0 /\ DOMAIN <<>> = {}
    OBVIOUS
  <2>2. IsValue(<<>>)
    BY <2>1, HeaderFieldsAssumption DEF IsValue
  <2> QED BY <1>1, <1>2, <2>2
<1>3. CASE at_ # {}
  <2>1. Len(msg.lines) \in Nat /\ DOMAIN msg.lines = 1 .. Len(msg.lines)
    BY MessageParts
  <2>2. at_ \in SUBSET (1 .. Len(msg.lines))
    BY <2>1
  <2>3. Max(at_) \in at_
    BY <1>3, <2>1, <2>2, Greatest
  <2> QED BY <1>1, <1>3, <2>3, MessageParts
<1> QED BY <1>2, <1>3

(* The items of a header are those of the values that get_header answers.  *)
LEMMA HeaderItems ==
  ASSUME msg \in Message, NEW name, NEW item
  PROVE  item \in Items(name) <=>
           \E k \in DOMAIN get_header(name) :
             \E j \in DOMAIN get_header(name)[k] : item = get_header(name)[k][j]
<1>1. item \in Items(name) <=>
        \E i \in DOMAIN msg.lines : Found(i, name) /\ \E j \in DOMAIN msg.lines[i].value : item = msg.lines[i].value[j]
  BY DEF Items
<1>2. ASSUME NEW i \in DOMAIN msg.lines, Found(i, name),
             NEW j \in DOMAIN msg.lines[i].value, item = msg.lines[i].value[j]
      PROVE  \E k \in DOMAIN get_header(name) :
               \E l \in DOMAIN get_header(name)[k] : item = get_header(name)[k][l]
  <2>1. PICK k \in DOMAIN get_header(name) : get_header(name)[k] = msg.lines[i].value
    BY <1>2, HeaderLines
  <2> QED BY <1>2, <2>1
<1>3. ASSUME NEW k \in DOMAIN get_header(name),
             NEW j \in DOMAIN get_header(name)[k], item = get_header(name)[k][j]
      PROVE  \E i \in DOMAIN msg.lines :
               Found(i, name) /\ \E l \in DOMAIN msg.lines[i].value : item = msg.lines[i].value[l]
  <2>1. PICK i \in DOMAIN msg.lines : Found(i, name) /\ get_header(name)[k] = msg.lines[i].value
    BY HeaderLines
  <2> QED BY <1>3, <2>1
<1> QED BY <1>1, <1>2, <1>3

(* The message does not change, nor what is looked up in it.               *)
LEMMA SameMessage ==
  ASSUME msg' = msg
  PROVE  /\ \A name : get_header(name)' = get_header(name)
         /\ \A name : Items(name)' = Items(name)
BY DEF get_header, Items, Nth, Found

-----------------------------------------------------------------------------
(* The steps *)

(* The place of every step of the constructors.                            *)
LEMMA Places ==
  /\ Place("is_response") = 1 /\ Place("SIPMessage") = 2 /\ Place("parse_from") = 3
  /\ Place("parse_to") = 4 /\ Place("parse_cseq") = 5 /\ Place("parse_via") = 6
  /\ Place("parse_contact") = 7 /\ Place("parse_content") = 8 /\ Place("Content-Type") = 9
  /\ Place("Supported") = 10 /\ Place("Require") = 11 /\ Place("Allow") = 12
  /\ Place("parse_session_expire") = 13 /\ Place("sdp") = 14 /\ Place("derived") = 15
  /\ Place("parse_pai") = 16 /\ Place("parse_ppi") = 17 /\ Place("returned") = 18
  /\ Place("thrown") = 19
BY DEF Place, StepOrder

Steps == {"is_response", "SIPMessage", "parse_from", "parse_to", "parse_cseq", "parse_via",
          "parse_contact", "parse_content", "Content-Type", "Supported", "Require", "Allow",
          "parse_session_expire", "sdp", "derived", "parse_pai", "parse_ppi", "returned", "thrown"}

LEMMA AllSteps == \A step : step \in Steps <=> \E i \in DOMAIN StepOrder : step = StepOrder[i]
BY DEF Steps, StepOrder

(* The step at "here" has ended, with OK or one of these codes: it has     *)
(* assigned none but these members, and the parsing goes on only after OK. *)
Stepped(here, next, codes, members) ==
  /\ pc = here
  /\ status' \in {"OK"} \cup codes
  /\ DOMAIN fields \subseteq DOMAIN fields'
  /\ DOMAIN fields' \subseteq DOMAIN fields \cup members
  /\ \A f \in DOMAIN fields \ members : fields'[f] = fields[f]
  /\ pc' = IF status' = "OK" THEN next ELSE "returned"
  /\ UNCHANGED <<msg, cls, at, values>>

LEMMA EndsStepped ==
  ASSUME NEW here, NEW STATE next, NEW STATE result, NEW codes, NEW members,
         Ends(here, result, next),
         result.status \in {"OK"} \cup codes, DOMAIN result.fields \subseteq members
  PROVE  Stepped(here, next, codes, members)
<1>1. /\ status' = result.status /\ fields' = Assigned(result.fields, fields) /\ pc = here
      /\ pc' = IF result.status = "OK" THEN next ELSE "returned"
      /\ UNCHANGED <<msg, cls, at, values>>
  BY DEF Ends
<1>2. /\ DOMAIN fields' = DOMAIN result.fields \cup DOMAIN fields
      /\ \A f \in DOMAIN fields \ members : fields'[f] = fields[f]
  <2> DEFINE new == result.fields
  <2>1. fields' = Assigned(new, fields) /\ DOMAIN new \subseteq members
    BY <1>1
  <2> HIDE DEF new
  <2>2. /\ DOMAIN fields' = DOMAIN new \cup DOMAIN fields
        /\ \A f \in DOMAIN fields \ DOMAIN new : fields'[f] = fields[f]
    BY <2>1 DEF Assigned
  <2>3. \A f \in DOMAIN fields \ members : fields'[f] = fields[f]
    BY <2>1, <2>2
  <2> QED BY <2>2, <2>3 DEF new
<1> QED BY <1>1, <1>2 DEF Stepped

FromMembers == {"from_uri", "from_host", "from_tag"}
ToMembers == {"to_uri", "to_host", "to_tag"}
CSeqMembers == {"cseq_nr", "cseq_typ"}
ContactMembers == {"contact_uri", "contact_host", "contact_port", "contact_transport", "contact_param"}
LineMembers == {"method", "request_uri", "request_host", "response_code", "response_type"}

(* A step that cuts members out of values has not gone past an end.        *)
LEMMA EndsCut ==
  ASSUME NEW here, NEW STATE next, NEW STATE result, NEW code, NEW members,
         Ends(here, result, next), Sound(result, members, code)
  PROVE  /\ Stepped(here, next, {code}, members)
         /\ \A f \in members \cap DOMAIN fields' :
              fields'[f] # OutOfRange \/ (f \in DOMAIN fields /\ fields'[f] = fields[f])
<1>1. /\ result.status \in {"OK"} \cup {code} /\ DOMAIN result.fields \subseteq members
      /\ \A f \in DOMAIN result.fields : result.fields[f] # OutOfRange
  BY DEF Sound
<1>2. fields' = Assigned(result.fields, fields)
  BY DEF Ends
<1>3. Stepped(here, next, {code}, members)
  BY <1>1, EndsStepped
<1>4. \A f \in members \cap DOMAIN fields' :
        fields'[f] # OutOfRange \/ (f \in DOMAIN fields /\ fields'[f] = fields[f])
  <2> DEFINE new == result.fields
  <2>1. fields' = Assigned(new, fields) /\ \A f \in DOMAIN new : new[f] # OutOfRange
    BY <1>1, <1>2
  <2> HIDE DEF new
  <2>2. /\ DOMAIN fields' = DOMAIN new \cup DOMAIN fields
        /\ \A f \in DOMAIN new : fields'[f] = new[f]
        /\ \A f \in DOMAIN fields \ DOMAIN new : fields'[f] = fields[f]
    BY <2>1 DEF Assigned
  <2> QED BY <2>1, <2>2
<1> QED BY <1>3, <1>4

LEMMA StepMessage ==
  ASSUME ParseMessage
  PROVE  Stepped("SIPMessage", "parse_from", {"BAD_REQUEST"}, {"call_id"})
<1> DEFINE result ==
       IF /\ is_value_ascii(msg.line)
          /\ \A i \in DOMAIN msg.lines : msg.lines[i].colon =>
               is_header_ascii(msg.lines[i].name) /\ is_value_ascii(msg.lines[i].value)
         THEN Accept([call_id |-> the_value("Call-ID")]) ELSE Reject("BAD_REQUEST")
<1>1. Ends("SIPMessage", result, "parse_from")
  BY DEF ParseMessage
<1>2. result.status \in {"OK"} \cup {"BAD_REQUEST"} /\ DOMAIN result.fields \subseteq {"call_id"}
  BY DEF Accept, Reject
<1> HIDE DEF result
<1> QED BY <1>1, <1>2, EndsStepped

LEMMA StepFrom ==
  ASSUME msg \in Message, ParseFrom
  PROVE  /\ Stepped("parse_from", "parse_to", {"BAD_REQUEST"}, FromMembers)
         /\ \A f \in FromMembers \cap DOMAIN fields' :
              fields'[f] # OutOfRange \/ (f \in DOMAIN fields /\ fields'[f] = fields[f])
<1>1. Sound(parse_from(the_value("From")), FromMembers, "BAD_REQUEST")
  BY LastValue, FromSound DEF FromMembers
<1> QED BY <1>1, EndsCut DEF ParseFrom

LEMMA StepTo ==
  ASSUME msg \in Message, ParseTo
  PROVE  /\ Stepped("parse_to", "parse_cseq", {"BAD_REQUEST"}, ToMembers)
         /\ \A f \in ToMembers \cap DOMAIN fields' :
              fields'[f] # OutOfRange \/ (f \in DOMAIN fields /\ fields'[f] = fields[f])
<1>1. Sound(parse_to(the_value("To")), ToMembers, "BAD_REQUEST")
  BY LastValue, ToSound DEF ToMembers
<1> QED BY <1>1, EndsCut DEF ParseTo

LEMMA StepCSeq ==
  ASSUME msg \in Message, ParseCSeq
  PROVE  /\ Stepped("parse_cseq", "parse_via", {"BAD_REQUEST"}, CSeqMembers)
         /\ \A f \in CSeqMembers \cap DOMAIN fields' :
              fields'[f] # OutOfRange \/ (f \in DOMAIN fields /\ fields'[f] = fields[f])
<1>1. Sound(parse_cseq(the_value("CSeq")), CSeqMembers, "BAD_REQUEST")
  BY LastValue, CSeqSound DEF CSeqMembers
<1> QED BY <1>1, EndsCut DEF ParseCSeq

LEMMA ContactAnswer ==
  ASSUME msg \in Message
  PROVE  Sound(parse_contact(get_header("Contact")), ContactMembers, "BAD_REQUEST")
<1> DEFINE values_ == get_header("Contact")
<1>1. \A i \in DOMAIN values_ : IsValue(values_[i])
  BY HeaderValues
<1>2. values_ # <<>> => 1 \in DOMAIN values_
  <2>1. DOMAIN values_ = 1 .. Len(values_) /\ Len(values_) \in Nat
    BY HeaderLines
  <2>2. CASE Len(values_) = 0
    <3>1. values_ = [k \in 1 .. Cardinality({i \in DOMAIN msg.lines : Found(i, "Contact")}) |-> msg.lines[Nth("Contact", k)].value]
      BY DEF get_header
    <3> QED BY <2>1, <2>2, <3>1
  <2>3. CASE Len(values_) # 0
    BY <2>1, <2>3
  <2> QED BY <2>2, <2>3
<1> HIDE DEF values_
<1>3. Sound(parse_contact(values_), ContactMembers, "BAD_REQUEST")
  BY <1>1, <1>2, ContactSound DEF ContactMembers
<1> QED BY <1>3 DEF values_

LEMMA StepContact ==
  ASSUME msg \in Message, ParseContact
  PROVE  /\ Stepped("parse_contact", "parse_content", {"BAD_REQUEST"}, ContactMembers)
         /\ \A f \in ContactMembers \cap DOMAIN fields' :
              fields'[f] # OutOfRange \/ (f \in DOMAIN fields /\ fields'[f] = fields[f])
BY ContactAnswer, EndsCut DEF ParseContact

LEMMA StepVia ==
  ASSUME msg \in Message, ParseVia
  PROVE  /\ Stepped("parse_via", "parse_contact", {"BAD_REQUEST"}, {"via_list"})
         /\ "via_list" \in DOMAIN fields' =>
              \/ "via_list" \in DOMAIN fields /\ fields'.via_list = fields.via_list
              \/ \A i \in DOMAIN fields'.via_list :
                   OutOfRange \notin {fields'.via_list[i][f] : f \in DOMAIN fields'.via_list[i]}
<1> DEFINE result == parse_via(get_header("Via"))
<1>1. /\ result.status \in {"OK"} \cup {"BAD_REQUEST"}
      /\ DOMAIN result.fields \subseteq {"via_list"}
      /\ "via_list" \in DOMAIN result.fields =>
           \A i \in DOMAIN result.fields.via_list :
             OutOfRange \notin {result.fields.via_list[i][f] : f \in DOMAIN result.fields.via_list[i]}
  <2>1. \A i \in DOMAIN get_header("Via") : IsValue(get_header("Via")[i])
    BY HeaderValues
  <2> QED BY <2>1, ViaSound
<1>2. Ends("parse_via", result, "parse_contact")
  BY DEF ParseVia
<1> HIDE DEF result
<1>3. Stepped("parse_via", "parse_contact", {"BAD_REQUEST"}, {"via_list"})
  BY <1>1, <1>2, EndsStepped
<1>4. fields' = Assigned(result.fields, fields)
  BY <1>2 DEF Ends
<1>5. CASE "via_list" \in DOMAIN result.fields
  <2>1. fields'.via_list = result.fields.via_list
    BY <1>4, <1>5 DEF Assigned
  <2> QED BY <1>1, <1>3, <1>5, <2>1
<1>6. CASE "via_list" \notin DOMAIN result.fields
  <2> DEFINE new == result.fields
  <2>1. fields' = Assigned(new, fields) /\ "via_list" \notin DOMAIN new
    BY <1>4, <1>6
  <2> HIDE DEF new
  <2>2. "via_list" \in DOMAIN fields' => "via_list" \in DOMAIN fields /\ fields'.via_list = fields.via_list
    BY <2>1 DEF Assigned
  <2> QED BY <1>3, <2>2
<1> QED BY <1>5, <1>6

(* The announced length is taken from the only Content-Length there is,    *)
(* and whether the types are looked at depends on it alone.                *)
LEMMA StepContent ==
  ASSUME ParseContent
  PROVE  LET lengths == get_header("Content-Length")
             next == IF fields'.has_content THEN "Content-Type" ELSE "Supported"
         IN  /\ Stepped("parse_content", next, {"LENGTH_REQUIRED", "BAD_REQUEST"}, {"content_length", "has_content"})
             /\ status' = "OK" =>
                  /\ Len(lengths) = 1 /\ stoi(lengths[1]) # NotANumber
                  /\ {"content_length", "has_content"} \subseteq DOMAIN fields'
                  /\ fields'.content_length = uint16(stoi(lengths[1]))
                  /\ fields'.has_content = (fields'.content_length # 0)
             /\ status' = "LENGTH_REQUIRED" => Len(lengths) # 1
<1> DEFINE lengths == get_header("Content-Length")
           length == uint16(stoi(lengths[1]))
           result == parse_content(lengths)
           next == IF result.status = "OK" /\ result.fields.has_content THEN "Content-Type" ELSE "Supported"
<1>1. Ends("parse_content", result, next)
  BY DEF ParseContent
<1>2. result = IF Len(lengths) # 1 THEN [status |-> "LENGTH_REQUIRED", fields |-> <<>>]
               ELSE IF stoi(lengths[1]) = NotANumber THEN [status |-> "BAD_REQUEST", fields |-> <<>>]
               ELSE [status |-> "OK", fields |-> [content_length |-> length, has_content |-> length # 0]]
  BY DEF parse_content, Accept, Reject
<1> HIDE DEF result, length
<1>3. /\ result.status \in {"OK"} \cup {"LENGTH_REQUIRED", "BAD_REQUEST"}
      /\ DOMAIN result.fields \subseteq {"content_length", "has_content"}
  BY <1>2
<1>4. Stepped("parse_content", next, {"LENGTH_REQUIRED", "BAD_REQUEST"}, {"content_length", "has_content"})
  BY <1>1, <1>3, EndsStepped
<1>5. status' = result.status /\ fields' = Assigned(result.fields, fields)
  BY <1>1 DEF Ends
<1>6. CASE result.status = "OK"
  <2>1. /\ Len(lengths) = 1 /\ stoi(lengths[1]) # NotANumber
        /\ result.fields = [content_length |-> length, has_content |-> length # 0]
    BY <1>2, <1>6
  <2>2. fields' = Assigned([content_length |-> length, has_content |-> length # 0], fields)
    BY <1>5, <2>1
  <2>3. /\ {"content_length", "has_content"} \subseteq DOMAIN fields'
        /\ fields'.content_length = length
        /\ fields'.has_content = (length # 0)
    BY <2>2 DEF Assigned
  <2>4. next = IF fields'.has_content THEN "Content-Type" ELSE "Supported"
    BY <1>6, <2>1, <2>3
  <2> HIDE DEF next
  <2>5. Stepped("parse_content", IF fields'.has_content THEN "Content-Type" ELSE "Supported",
                {"LENGTH_REQUIRED", "BAD_REQUEST"}, {"content_length", "has_content"})
    BY <1>4, <2>4
  <2> QED BY <1>5, <1>6, <2>1, <2>3, <2>5 DEF length
<1>7. CASE result.status # "OK"
  <2>1. status' # "OK" /\ (status' = "LENGTH_REQUIRED" => Len(lengths) # 1)
    BY <1>2, <1>5, <1>7
  <2>2. Stepped("parse_content", IF fields'.has_content THEN "Content-Type" ELSE "Supported",
                {"LENGTH_REQUIRED", "BAD_REQUEST"}, {"content_length", "has_content"})
    BY <1>4, <2>1 DEF Stepped
  <2> QED BY <2>1, <2>2
<1> QED BY <1>6, <1>7

TimerMembers == {"min_se", "refresh_timer", "refresher"}

LEMMA SessionAnswer ==
  LET second == session_expires(get_header("Session-Expires"))
  IN  /\ second = [status |-> second.status, fields |-> second.fields]
      /\ second.status \in {"OK", "BAD_REQUEST"}
      /\ DOMAIN second.fields \subseteq {"refresh_timer", "refresher"}
<1> DEFINE list   == get_header("Session-Expires")
           parts  == [i \in DOMAIN list |-> session_value(list[i])]
           named  == {i \in DOMAIN parts : parts[i].named}
           bad    == \E i \in DOMAIN parts : parts[i].timer = NotANumber
           timer  == uint16(parts[Len(parts)].timer)
           who    == IF named = {} THEN <<>> ELSE parts[Max(named)].refresher
           second == session_expires(list)
<1>1. second = IF list = <<>> THEN [status |-> "OK", fields |-> <<>>]
               ELSE IF bad THEN [status |-> "BAD_REQUEST", fields |-> <<>>]
               ELSE [status |-> "OK", fields |-> [refresh_timer |-> timer, refresher |-> who]]
  BY DEF session_expires, Accept, Reject
<1> HIDE DEF second, bad, timer, who
<1>2. /\ second = [status |-> second.status, fields |-> second.fields]
      /\ second.status \in {"OK", "BAD_REQUEST"}
      /\ DOMAIN second.fields \subseteq {"refresh_timer", "refresher"}
  BY <1>1
<1> QED BY <1>2 DEF second

LEMMA StepSessionExpire ==
  ASSUME ParseSessionExpire
  PROVE  Stepped("parse_session_expire", "sdp", {"BAD_REQUEST"}, TimerMembers)
<1> DEFINE first  == min_se(get_header("Min-SE"))
           second == session_expires(get_header("Session-Expires"))
           result == IF first.status # "OK" THEN first
                     ELSE [second EXCEPT !.fields = Assigned(@, first.fields)]
<1>1. Ends("parse_session_expire", result, "sdp")
  BY DEF ParseSessionExpire
<1>2. first.status \in {"OK", "BAD_REQUEST"} /\ DOMAIN first.fields \subseteq {"min_se"}
  BY DEF min_se, Accept, Reject
<1> HIDE DEF first
<1>3. /\ second = [status |-> second.status, fields |-> second.fields]
      /\ second.status \in {"OK", "BAD_REQUEST"}
      /\ DOMAIN second.fields \subseteq {"refresh_timer", "refresher"}
  BY SessionAnswer
<1> HIDE DEF second
<1>4. /\ [second EXCEPT !.fields = Assigned(@, first.fields)].status = second.status
      /\ [second EXCEPT !.fields = Assigned(@, first.fields)].fields = Assigned(second.fields, first.fields)
  BY <1>3
<1>5. DOMAIN Assigned(second.fields, first.fields) = DOMAIN second.fields \cup DOMAIN first.fields
  BY DEF Assigned
<1>6. result.status \in {"OK"} \cup {"BAD_REQUEST"} /\ DOMAIN result.fields \subseteq TimerMembers
  <2>1. CASE first.status # "OK"
    BY <1>2, <2>1 DEF TimerMembers
  <2>2. CASE first.status = "OK"
    BY <1>2, <1>3, <1>4, <1>5, <2>2 DEF TimerMembers
  <2> QED BY <2>1, <2>2
<1> HIDE DEF result
<1> QED BY <1>1, <1>6, EndsStepped

(* A body is compared with the announced length if one is announced.       *)
LEMMA StepSdp ==
  ASSUME ParseSdp
  PROVE  /\ Stepped("sdp", "derived", {"LENGTH_REQUIRED"}, {})
         /\ status' = "OK" => ~fields.has_content \/ fields.content_length = msg.body
         /\ status' = "LENGTH_REQUIRED" => fields.has_content /\ fields.content_length # msg.body
<1> DEFINE wrong == fields.has_content /\ ~SdpMatches(fields.content_length, msg.body)
           result == IF wrong THEN Reject("LENGTH_REQUIRED") ELSE Accept(<<>>)
<1>1. Ends("sdp", result, "derived")
  BY DEF ParseSdp
<1>2. /\ result.status \in {"OK"} \cup {"LENGTH_REQUIRED"} /\ DOMAIN result.fields \subseteq {}
      /\ result.status = "OK" <=> ~wrong
  BY DEF Accept, Reject
<1>3. status' = result.status
  BY <1>1 DEF Ends
<1> HIDE DEF result
<1>4. Stepped("sdp", "derived", {"LENGTH_REQUIRED"}, {})
  BY <1>1, <1>2, EndsStepped
<1> QED BY <1>2, <1>3, <1>4 DEF SdpMatches

LEMMA StepDerived ==
  ASSUME msg \in Message, ParseDerived
  PROVE  /\ \E next \in {"returned", "parse_pai"} : Stepped("derived", next, {"BAD_REQUEST"}, LineMembers)
         /\ \A f \in LineMembers \cap DOMAIN fields' :
              fields'[f] # OutOfRange \/ (f \in DOMAIN fields /\ fields'[f] = fields[f])
<1>1. IsValue(msg.line)
  BY MessageParts
<1>2. CASE cls = "SIPResponse" /\ Ends("derived", parse_status_line(msg.line), "returned")
  <2>1. Sound(parse_status_line(msg.line), LineMembers, "BAD_REQUEST")
    BY <1>1, StatusLineSound DEF Sound, LineMembers
  <2> QED BY <1>2, <2>1, EndsCut
<1>3. CASE cls = "SIPRequest"
  <2> DEFINE result == parse_request_line(msg.line)
             next == IF result.status = "OK" /\ parse_method_enum(result.fields.method) = "INVITE"
                       THEN "parse_pai" ELSE "returned"
  <2>1. Ends("derived", result, next)
    BY <1>3 DEF ParseDerived
  <2>2. Sound(result, LineMembers, "BAD_REQUEST")
    BY <1>1, RequestLineSound DEF Sound, LineMembers
  <2>3. next \in {"returned", "parse_pai"}
    OBVIOUS
  <2> HIDE DEF result, next
  <2> QED BY <2>1, <2>2, <2>3, EndsCut
<1> QED BY <1>2, <1>3 DEF ParseDerived

(* The two lists of identities, in one form.                               *)
LEMMA IdentitiesStepped ==
  ASSUME msg \in Message, NEW here, NEW next, NEW name, NEW member, NEW STATE list,
         LET found == identities(get_header(name))
         IN  /\ Ends(here, IF found.status = "OK" THEN Accept(list) ELSE Reject(found.status), next)
             /\ DOMAIN list = {member} /\ list[member] = found.list
  PROVE  /\ Stepped(here, next, {"UNSUPPORTED_URI_SCHEME"}, {member})
         /\ member \in DOMAIN fields' =>
              \/ member \in DOMAIN fields /\ fields'[member] = fields[member]
              \/ \A i \in DOMAIN fields'[member] :
                   OutOfRange \notin {fields'[member][i].uri, fields'[member][i].host}
<1> DEFINE found == identities(get_header(name))
           result == IF found.status = "OK" THEN Accept(list) ELSE Reject(found.status)
<1>1. /\ found.status \in {"OK", "UNSUPPORTED_URI_SCHEME"}
      /\ \A i \in DOMAIN found.list : OutOfRange \notin {found.list[i].uri, found.list[i].host}
  <2>1. \A i \in DOMAIN get_header(name) : IsValue(get_header(name)[i])
    BY HeaderValues
  <2> QED BY <2>1, IdentitiesSound
<1>2. Ends(here, result, next) /\ DOMAIN list = {member} /\ list[member] = found.list
  OBVIOUS
<1> HIDE DEF found
<1>3. /\ result.status \in {"OK"} \cup {"UNSUPPORTED_URI_SCHEME"} /\ DOMAIN result.fields \subseteq {member}
      /\ member \in DOMAIN result.fields => result.fields[member] = found.list
  BY <1>1, <1>2 DEF Accept, Reject
<1> HIDE DEF result
<1>4. Stepped(here, next, {"UNSUPPORTED_URI_SCHEME"}, {member})
  BY <1>2, <1>3, EndsStepped
<1>5. fields' = Assigned(result.fields, fields)
  BY <1>2 DEF Ends
<1>6. CASE member \in DOMAIN result.fields
  <2>1. fields'[member] = result.fields[member]
    BY <1>5, <1>6 DEF Assigned
  <2> QED BY <1>1, <1>3, <1>4, <1>6, <2>1
<1>7. CASE member \notin DOMAIN result.fields
  <2>1. member \in DOMAIN fields' => member \in DOMAIN fields /\ fields'[member] = fields[member]
    BY <1>5, <1>7 DEF Assigned
  <2> QED BY <1>4, <2>1
<1> QED BY <1>6, <1>7

LEMMA StepPai ==
  ASSUME msg \in Message, ParsePai
  PROVE  /\ Stepped("parse_pai", "parse_ppi", {"UNSUPPORTED_URI_SCHEME"}, {"pai_list"})
         /\ "pai_list" \in DOMAIN fields' =>
              \/ "pai_list" \in DOMAIN fields /\ fields'["pai_list"] = fields["pai_list"]
              \/ \A i \in DOMAIN fields'["pai_list"] :
                   OutOfRange \notin {fields'["pai_list"][i].uri, fields'["pai_list"][i].host}
<1> DEFINE found == identities(get_header("P-Asserted-Identity"))
           list == [pai_list |-> found.list]
<1>1. Ends("parse_pai", IF found.status = "OK" THEN Accept(list) ELSE Reject(found.status), "parse_ppi")
  BY DEF ParsePai
<1>2. DOMAIN list = {"pai_list"} /\ list["pai_list"] = found.list
  OBVIOUS
<1> HIDE DEF list
<1> QED BY <1>1, <1>2, IdentitiesStepped

LEMMA StepPpi ==
  ASSUME msg \in Message, ParsePpi
  PROVE  /\ Stepped("parse_ppi", "returned", {"UNSUPPORTED_URI_SCHEME"}, {"ppi_list"})
         /\ "ppi_list" \in DOMAIN fields' =>
              \/ "ppi_list" \in DOMAIN fields /\ fields'["ppi_list"] = fields["ppi_list"]
              \/ \A i \in DOMAIN fields'["ppi_list"] :
                   OutOfRange \notin {fields'["ppi_list"][i].uri, fields'["ppi_list"][i].host}
<1> DEFINE found == identities(get_header("p-preferred-identity"))
           list == [ppi_list |-> found.list]
<1>1. Ends("parse_ppi", IF found.status = "OK" THEN Accept(list) ELSE Reject(found.status), "returned")
  BY DEF ParsePpi
<1>2. DOMAIN list = {"ppi_list"} /\ list["ppi_list"] = found.list
  OBVIOUS
<1> HIDE DEF list
<1> QED BY <1>1, <1>2, IdentitiesStepped

ListMembers(header) ==
  CASE header = "Content-Type" -> {"content_type"}
    [] header = "Supported"    -> {"supported_100_rel", "supported_timer"}
    [] header = "Require"      -> {"required_100_rel", "required_timer"}
    [] header = "Allow"        -> {"update_allowed"}

(* At the end of a list: what is made of the tokens that were collected.   *)
LEMMA StepList ==
  ASSUME EndOfList
  PROVE  /\ pc \in ListHeader /\ at[1] > Len(get_header(pc))
         /\ at' = <<1, 1>> /\ values' = {} /\ UNCHANGED <<msg, cls>>
         /\ status' \in {"OK", "BAD_REQUEST", "UNSUPPORTED_MEDIA_TYPE"}
         /\ pc' = IF status' = "OK" THEN After(pc) ELSE "returned"
         /\ DOMAIN fields \subseteq DOMAIN fields'
         /\ DOMAIN fields' \subseteq DOMAIN fields \cup ListMembers(pc)
         /\ \A f \in DOMAIN fields \ ListMembers(pc) : fields'[f] = fields[f]
         /\ status' = "OK" => ListMembers(pc) \subseteq DOMAIN fields'
         /\ pc = "Content-Type" /\ status' = "OK" => "application/sdp" \in values
         /\ pc = "Supported" => /\ status' = "OK"
                                /\ fields'.supported_100_rel = ("100rel" \in values)
                                /\ fields'.supported_timer = ("timer" \in values)
         /\ pc = "Require" => /\ status' = "OK"
                              /\ fields'.required_100_rel = ("100rel" \in values)
                              /\ fields'.required_timer = ("timer" \in values)
         /\ pc = "Allow" => /\ status' = "OK"
                            /\ fields'.update_allowed = ("UPDATE" \in values)
<1> DEFINE result == FromList(pc, values)
<1>1. /\ pc \in ListHeader /\ at[1] > Len(get_header(pc))
      /\ at' = <<1, 1>> /\ values' = {} /\ UNCHANGED <<msg, cls>>
      /\ status' = result.status
      /\ fields' = Assigned(result.fields, fields)
      /\ pc' = IF result.status = "OK" THEN After(pc) ELSE "returned"
  BY DEF EndOfList
<1>2. /\ DOMAIN fields' = DOMAIN result.fields \cup DOMAIN fields
      /\ \A f \in DOMAIN result.fields : fields'[f] = result.fields[f]
      /\ \A f \in DOMAIN fields \ DOMAIN result.fields : fields'[f] = fields[f]
  <2> DEFINE new == result.fields
  <2>1. fields' = Assigned(new, fields)
    BY <1>1
  <2> HIDE DEF new
  <2>2. DOMAIN fields' = DOMAIN new \cup DOMAIN fields
    BY <2>1 DEF Assigned
  <2>3. \A f \in DOMAIN new : fields'[f] = new[f]
    BY <2>1 DEF Assigned
  <2>4. \A f \in DOMAIN fields \ DOMAIN new : fields'[f] = fields[f]
    BY <2>1 DEF Assigned
  <2> QED BY <2>2, <2>3, <2>4 DEF new
<1>3. CASE pc = "Content-Type"
  <2>1. result = IF get_header(pc) = <<>> THEN [status |-> "BAD_REQUEST", fields |-> <<>>]
                 ELSE IF "application/sdp" \in values
                   THEN [status |-> "OK", fields |-> [content_type |-> "application/sdp"]]
                 ELSE [status |-> "UNSUPPORTED_MEDIA_TYPE", fields |-> <<>>]
    BY <1>3 DEF FromList, Accept, Reject
  <2>2. ListMembers(pc) = {"content_type"}
    BY <1>3 DEF ListMembers
  <2> HIDE DEF result
  <2>3. /\ result.status \in {"OK", "BAD_REQUEST", "UNSUPPORTED_MEDIA_TYPE"}
        /\ DOMAIN result.fields \subseteq {"content_type"}
        /\ result.status = "OK" => DOMAIN result.fields = {"content_type"} /\ "application/sdp" \in values
    BY <2>1
  <2> QED BY <1>1, <1>2, <1>3, <2>2, <2>3
<1>4. CASE pc = "Supported"
  <2> DEFINE a == "100rel" \in values
             b == "timer" \in values
  <2>1. result = [status |-> "OK", fields |-> [supported_100_rel |-> a, supported_timer |-> b]]
    BY <1>4 DEF FromList, Accept
  <2>2. ListMembers(pc) = {"supported_100_rel", "supported_timer"}
    BY <1>4 DEF ListMembers
  <2> HIDE DEF result
  <2>3. /\ result.status = "OK" /\ DOMAIN result.fields = {"supported_100_rel", "supported_timer"}
        /\ result.fields.supported_100_rel = a /\ result.fields.supported_timer = b
    BY <2>1
  <2> QED BY <1>1, <1>2, <1>4, <2>2, <2>3
<1>5. CASE pc = "Require"
  <2> DEFINE a == "100rel" \in values
             b == "timer" \in values
  <2>1. result = [status |-> "OK", fields |-> [required_100_rel |-> a, required_timer |-> b]]
    BY <1>5 DEF FromList, Accept
  <2>2. ListMembers(pc) = {"required_100_rel", "required_timer"}
    BY <1>5 DEF ListMembers
  <2> HIDE DEF result
  <2>3. /\ result.status = "OK" /\ DOMAIN result.fields = {"required_100_rel", "required_timer"}
        /\ result.fields.required_100_rel = a /\ result.fields.required_timer = b
    BY <2>1
  <2> QED BY <1>1, <1>2, <1>5, <2>2, <2>3
<1>6. CASE pc = "Allow"
  <2> DEFINE a == "UPDATE" \in values
  <2>1. result = [status |-> "OK", fields |-> [update_allowed |-> a]]
    BY <1>6 DEF FromList, Accept
  <2>2. ListMembers(pc) = {"update_allowed"}
    BY <1>6 DEF ListMembers
  <2> HIDE DEF result
  <2>3. /\ result.status = "OK" /\ DOMAIN result.fields = {"update_allowed"}
        /\ result.fields.update_allowed = a
    BY <2>1
  <2> QED BY <1>1, <1>2, <1>6, <2>2, <2>3
<1> QED BY <1>1, <1>3, <1>4, <1>5, <1>6 DEF ListHeader

-----------------------------------------------------------------------------
(* The shape of the parsing: where it is in a list, and what it has of it  *)

(* Item j of line i is behind the place the parsing is at.                 *)
Past(i, j) == i < at[1] \/ (i = at[1] /\ j < at[2])

(* In a list, what is collected is of this list, and everything behind has *)
(* been collected.                                                         *)
Collected ==
  pc \in ListHeader =>
    /\ values \subseteq Items(pc) \ {Blank}
    /\ \A i \in DOMAIN get_header(pc) : \A j \in DOMAIN get_header(pc)[i] :
         Past(i, j) => get_header(pc)[i][j] \in values \cup {Blank}

(* The strengthening of TypeOK: a list is begun at its first item with     *)
(* nothing collected, and a status that is an error has ended the parsing. *)
ShapeInv ==
  /\ TypeOK
  /\ msg \in Message
  /\ status # "OK" => pc = "returned"
  /\ at \in (Nat \ {0}) \X (Nat \ {0})
  /\ pc \notin ListHeader => at = <<1, 1>> /\ values = {}
  /\ Collected

(* Positions in the lists count from 1, and each line of a list has a      *)
(* first item.                                                             *)
LEMMA ListPositions ==
  ASSUME msg \in Message, NEW h \in ListHeader
  PROVE  \A i \in DOMAIN get_header(h) :
           /\ i \in Nat /\ i >= 1 /\ i <= Len(get_header(h))
           /\ get_header(h)[i] \in Seq(STRING)
           /\ Len(get_header(h)[i]) \in Nat
           /\ DOMAIN get_header(h)[i] = 1 .. Len(get_header(h)[i])
           /\ 1 \in DOMAIN get_header(h)[i]
<1> TAKE i \in DOMAIN get_header(h)
<1>1. i \in Nat /\ i >= 1 /\ i <= Len(get_header(h))
  BY HeaderLines
<1>2. get_header(h)[i] \in Seq(STRING) /\ get_header(h)[i] # <<>>
  BY HeaderValues DEF IsValue
<1> QED BY <1>1, <1>2

(* Where a list begins, if one does, its first item is there and nothing   *)
(* is behind.                                                              *)
LEMMA ListBegins ==
  ASSUME msg \in Message, msg' = msg, at' = <<1, 1>>, values' = {}
  PROVE  /\ pc' \in ListHeader /\ at'[1] <= Len(get_header(pc)') => at'[2] \in DOMAIN get_header(pc)'[at'[1]]
         /\ Collected'
<1>1. at'[1] = 1 /\ at'[2] = 1
  OBVIOUS
<1>2. get_header(pc)' = get_header(pc') /\ Items(pc)' = Items(pc')
  BY SameMessage DEF get_header, Nth, Found, Items
<1>3. CASE pc' \in ListHeader
  <2>1. \A i \in DOMAIN get_header(pc') : i \in Nat /\ i >= 1 /\ 1 \in DOMAIN get_header(pc')[i]
    BY <1>3, ListPositions
  <2>2. 1 <= Len(get_header(pc')) => 1 \in DOMAIN get_header(pc')
    BY HeaderLines
  <2>3. \A i \in DOMAIN get_header(pc') : \A j \in DOMAIN get_header(pc')[i] : ~Past(i, j)'
    <3> TAKE i \in DOMAIN get_header(pc')
    <3> TAKE j \in DOMAIN get_header(pc')[i]
    <3>1. i \in Nat /\ i >= 1 /\ j \in Nat /\ j >= 1
      BY <1>3, ListPositions
    <3> QED BY <1>1, <3>1 DEF Past
  <2>4. Collected'
    BY <1>2, <2>3 DEF Collected
  <2> QED BY <1>1, <1>2, <2>1, <2>2, <2>4
<1>4. CASE pc' \notin ListHeader
  BY <1>4 DEF Collected
<1> QED BY <1>3, <1>4

LEMMA ShapeInit == Init => ShapeInv
<1> SUFFICES ASSUME Init PROVE ShapeInv
  OBVIOUS
<1>1. pc \in {"is_response", "SIPMessage"} /\ pc \notin ListHeader
  BY DEF Init, ListHeader
<1>2. pc \in Steps
  BY <1>1 DEF Steps
<1>3. TypeOK
  BY <1>1, <1>2, AllSteps DEF Init, TypeOK, ErrorCode
<1>4. at \in (Nat \ {0}) \X (Nat \ {0})
  BY DEF Init
<1> QED BY <1>1, <1>3, <1>4 DEF Init, ShapeInv, Collected

LEMMA SteppedShape ==
  ASSUME ShapeInv, NEW here \in Steps \ ListHeader, NEW next \in Steps,
         NEW codes \in SUBSET ErrorCode, NEW members, Stepped(here, next, codes, members)
  PROVE  ShapeInv'
<1>1. /\ pc = here /\ pc \notin ListHeader /\ msg' = msg /\ cls' = cls /\ at' = at /\ values' = values
      /\ pc' = IF status' = "OK" THEN next ELSE "returned"
      /\ status' \in {"OK"} \cup codes
  BY DEF Stepped
<1>2. at = <<1, 1>> /\ values = {} /\ msg \in Message
  BY <1>1 DEF ShapeInv
<1>3. status' \in ErrorCode
  BY <1>1 DEF ErrorCode
<1>4. pc' \in Steps
  BY <1>1 DEF Steps
<1>5. /\ pc' \in ListHeader /\ at'[1] <= Len(get_header(pc)') => at'[2] \in DOMAIN get_header(pc)'[at'[1]]
      /\ Collected'
  BY <1>1, <1>2, ListBegins
<1>6. cls' \in {"undecided", "SIPRequest", "SIPResponse"}
  BY <1>1 DEF ShapeInv, TypeOK
<1>7. TypeOK'
  BY <1>1, <1>2, <1>3, <1>4, <1>5, <1>6, AllSteps DEF TypeOK
<1>8. at' \in (Nat \ {0}) \X (Nat \ {0})
  BY <1>1 DEF ShapeInv
<1> QED BY <1>1, <1>2, <1>5, <1>7, <1>8 DEF ShapeInv

LEMMA ListShape ==
  ASSUME ShapeInv, EndOfList
  PROVE  ShapeInv'
<1>1. /\ pc \in ListHeader /\ at' = <<1, 1>> /\ values' = {} /\ msg' = msg /\ cls' = cls
      /\ status' \in {"OK", "BAD_REQUEST", "UNSUPPORTED_MEDIA_TYPE"}
      /\ pc' = IF status' = "OK" THEN After(pc) ELSE "returned"
  BY StepList
<1>2. msg \in Message
  BY DEF ShapeInv
<1>3. status' \in ErrorCode
  BY <1>1 DEF ErrorCode
<1>4. pc' \in Steps
  <2>1. After(pc) \in Steps
    BY <1>1 DEF After, ListHeader, Steps
  <2> QED BY <1>1, <2>1 DEF Steps
<1>5. /\ pc' \in ListHeader /\ at'[1] <= Len(get_header(pc)') => at'[2] \in DOMAIN get_header(pc)'[at'[1]]
      /\ Collected'
  BY <1>1, <1>2, ListBegins
<1>6. cls' \in {"undecided", "SIPRequest", "SIPResponse"}
  BY <1>1 DEF ShapeInv, TypeOK
<1>7. TypeOK'
  BY <1>1, <1>3, <1>4, <1>5, <1>6, AllSteps DEF TypeOK
<1>8. at' \in (Nat \ {0}) \X (Nat \ {0})
  BY <1>1
<1> QED BY <1>1, <1>2, <1>5, <1>7, <1>8 DEF ShapeInv

(* An item is taken: it is collected unless it is blank, and the parsing   *)
(* goes on to the next item, to the next line, or, after a blank at the    *)
(* end, back to the first item of the line it has just collected.          *)
LEMMA ItemShape ==
  ASSUME ShapeInv, TakeItem
  PROVE  ShapeInv'
<1> DEFINE line  == at[1]
           j     == at[2]
           items == get_header(pc)[line]
           next  == NextItem(items, j)
<1>1. /\ pc \in ListHeader /\ line <= Len(get_header(pc))
      /\ values' = values \cup ({items[j]} \ {Blank})
      /\ at' = IF next = 0 THEN <<line + 1, 1>> ELSE <<line, next>>
      /\ msg' = msg /\ cls' = cls /\ pc' = pc /\ status' = status /\ fields' = fields
  BY DEF TakeItem
<1>2. msg \in Message /\ line \in Nat /\ line >= 1 /\ j \in DOMAIN items /\ status = "OK"
  <2>1. pc # "returned"
    BY <1>1 DEF ListHeader
  <2>2. msg \in Message /\ status = "OK" /\ line \in Nat /\ line >= 1
    BY <2>1 DEF ShapeInv
  <2>3. pc \in ListHeader /\ line <= Len(get_header(pc)) => j \in DOMAIN items
    BY DEF ShapeInv, TypeOK
  <2> QED BY <1>1, <2>2, <2>3
<1>3. /\ line \in DOMAIN get_header(pc)
      /\ Len(items) \in Nat /\ DOMAIN items = 1 .. Len(items) /\ 1 \in DOMAIN items
  <2>1. line \in DOMAIN get_header(pc)
    BY <1>1, <1>2, HeaderLines
  <2> QED BY <1>1, <1>2, <2>1, ListPositions
<1>4. /\ next \in 0 .. Len(items)
      /\ next = 0 \/ next = 1 \/ next = j + 1
      /\ next = 0 => j = Len(items)
  BY <1>2, <1>3 DEF NextItem
<1>5. /\ \A name : get_header(name)' = get_header(name)
      /\ get_header(pc)' = get_header(pc) /\ Items(pc)' = Items(pc)
  <2>1. \A name : get_header(name)' = get_header(name)
    BY <1>1, SameMessage
  <2>2. msg' = msg
    BY <1>1
  <2>3. get_header(pc)' = get_header(pc') /\ Items(pc)' = Items(pc')
    BY <2>2, SameMessage DEF get_header, Nth, Found, Items
  <2>4. get_header(pc') = get_header(pc) /\ Items(pc') = Items(pc)
    BY <1>1
  <2> QED BY <2>1, <2>3, <2>4
<1>6. items[j] \in Items(pc)
  BY <1>1, <1>2, <1>3, HeaderItems
<1> HIDE DEF items, next
<1>7. at' \in (Nat \ {0}) \X (Nat \ {0})
  BY <1>1, <1>2, <1>3, <1>4
<1>8. pc' \in ListHeader /\ at'[1] <= Len(get_header(pc)') => at'[2] \in DOMAIN get_header(pc)'[at'[1]]
  <2>1. CASE next = 0
    <3>1. at'[1] = line + 1 /\ at'[2] = 1
      BY <1>1, <2>1
    <3>2. SUFFICES ASSUME line + 1 <= Len(get_header(pc)) PROVE 1 \in DOMAIN get_header(pc)[line + 1]
      BY <1>5, <3>1
    <3>3. line + 1 \in DOMAIN get_header(pc)
      BY <1>2, <3>2, HeaderLines
    <3> QED BY <1>1, <1>2, <3>3, ListPositions
  <2>2. CASE next # 0
    <3>1. at'[1] = line /\ at'[2] = next
      BY <1>1, <2>2
    <3>2. next \in DOMAIN get_header(pc)[line]
      BY <1>3, <1>4, <2>2 DEF items
    <3> QED BY <1>5, <3>1, <3>2
  <2> QED BY <2>1, <2>2
<1>9. Collected'
  <2>1. /\ values \subseteq Items(pc) \ {Blank}
        /\ \A i \in DOMAIN get_header(pc) : \A k \in DOMAIN get_header(pc)[i] :
             Past(i, k) => get_header(pc)[i][k] \in values \cup {Blank}
    BY <1>1 DEF ShapeInv, Collected
  <2>2. values' \subseteq Items(pc) \ {Blank}
    BY <1>1, <1>6, <2>1
  <2>3. ASSUME NEW i \in DOMAIN get_header(pc), NEW k \in DOMAIN get_header(pc)[i], Past(i, k)'
        PROVE  get_header(pc)[i][k] \in values' \cup {Blank}
    <3>1. i \in Nat /\ k \in Nat /\ k <= Len(get_header(pc)[i])
      BY <1>1, <1>2, ListPositions
    <3>2. i < at'[1] \/ (i = at'[1] /\ k < at'[2])
      BY <2>3 DEF Past
    <3>3. Past(i, k) \/ (i = line /\ k = j)
      <4>1. CASE next = 0
        <5>1. at'[1] = line + 1 /\ at'[2] = 1 /\ j = Len(items)
          BY <1>1, <1>4, <4>1
        <5>2. k >= 1
          BY <1>1, <1>2, ListPositions
        <5>3. i < line \/ i = line
          BY <1>2, <3>1, <3>2, <5>1, <5>2
        <5>4. i = line => k <= j
          BY <3>1, <5>1 DEF items
        <5> QED BY <1>2, <1>3, <3>1, <5>3, <5>4 DEF Past
      <4>2. CASE next # 0
        <5>1. at'[1] = line /\ at'[2] = next /\ j \in Nat /\ j >= 1
          BY <1>1, <1>2, <1>3, <4>2
        <5>2. next <= j + 1
          BY <1>4, <4>2, <5>1
        <5>3. i < line \/ (i = line /\ k < j + 1)
          BY <1>3, <1>4, <3>1, <3>2, <5>1, <5>2
        <5> QED BY <3>1, <5>1, <5>3 DEF Past
      <4> QED BY <4>1, <4>2
    <3>4. i = line /\ k = j => get_header(pc)[i][k] \in values' \cup {Blank}
      BY <1>1 DEF items
    <3> QED BY <1>1, <2>1, <3>3, <3>4
  <2> QED BY <1>1, <1>5, <2>2, <2>3 DEF Collected
<1>10. TypeOK'
  <2>1. cls' \in {"undecided", "SIPRequest", "SIPResponse"} /\ status' \in ErrorCode
    BY <1>1 DEF ShapeInv, TypeOK
  <2>2. \E i \in DOMAIN StepOrder : pc' = StepOrder[i]
    BY <1>1 DEF ShapeInv, TypeOK
  <2>3. "" \notin values'
    BY <1>1 DEF ShapeInv, TypeOK, Blank
  <2> QED BY <1>8, <2>1, <2>2, <2>3 DEF TypeOK
<1> QED BY <1>1, <1>2, <1>7, <1>9, <1>10 DEF ShapeInv

LEMMA ShapeNext == ShapeInv /\ [Next]_vars => ShapeInv'
<1> SUFFICES ASSUME ShapeInv, [Next]_vars PROVE ShapeInv'
  OBVIOUS
<1> USE DEF Steps, ListHeader, ErrorCode
<1>0. msg \in Message
  BY DEF ShapeInv
<1>1. CASE ChooseClass
  <2>1. /\ pc = "is_response" /\ pc' = "SIPMessage" /\ cls' \in {"SIPRequest", "SIPResponse"}
        /\ UNCHANGED <<msg, status, fields, at, values>>
    BY <1>1 DEF ChooseClass
  <2>2. /\ pc' \in ListHeader /\ at'[1] <= Len(get_header(pc)') => at'[2] \in DOMAIN get_header(pc)'[at'[1]]
        /\ Collected'
    BY <2>1 DEF Collected
  <2>3. TypeOK'
    BY <2>1, <2>2, AllSteps DEF TypeOK, ShapeInv
  <2> QED BY <2>1, <2>2, <2>3 DEF ShapeInv
<1>2. CASE Throw
  <2>1. pc = "SIPMessage" /\ pc' = "thrown" /\ UNCHANGED <<msg, cls, status, fields, at, values>>
    BY <1>2 DEF Throw
  <2>2. /\ pc' \in ListHeader /\ at'[1] <= Len(get_header(pc)') => at'[2] \in DOMAIN get_header(pc)'[at'[1]]
        /\ Collected'
    BY <2>1 DEF Collected
  <2>3. TypeOK'
    BY <2>1, <2>2, AllSteps DEF TypeOK, ShapeInv
  <2> QED BY <2>1, <2>2, <2>3 DEF ShapeInv
<1>3. CASE ParseMessage
  BY <1>3, StepMessage, SteppedShape
<1>4. CASE ParseFrom
  BY <1>0, <1>4, StepFrom, SteppedShape
<1>5. CASE ParseTo
  BY <1>0, <1>5, StepTo, SteppedShape
<1>6. CASE ParseCSeq
  BY <1>0, <1>6, StepCSeq, SteppedShape
<1>7. CASE ParseVia
  BY <1>0, <1>7, StepVia, SteppedShape
<1>8. CASE ParseContact
  BY <1>0, <1>8, StepContact, SteppedShape
<1>9. CASE ParseContent
  <2>1. \E next \in {"Content-Type", "Supported"} :
          Stepped("parse_content", next, {"LENGTH_REQUIRED", "BAD_REQUEST"}, {"content_length", "has_content"})
    BY <1>9, StepContent
  <2> QED BY <2>1, SteppedShape
<1>10. CASE TakeItem
  BY <1>10, ItemShape
<1>11. CASE EndOfList
  BY <1>11, ListShape
<1>12. CASE ParseSessionExpire
  BY <1>12, StepSessionExpire, SteppedShape
<1>13. CASE ParseSdp
  BY <1>13, StepSdp, SteppedShape
<1>14. CASE ParseDerived
  <2>1. \E next \in {"returned", "parse_pai"} : Stepped("derived", next, {"BAD_REQUEST"}, LineMembers)
    BY <1>0, <1>14, StepDerived
  <2> QED BY <2>1, SteppedShape
<1>15. CASE ParsePai
  BY <1>0, <1>15, StepPai, SteppedShape
<1>16. CASE ParsePpi
  BY <1>0, <1>16, StepPpi, SteppedShape
<1>17. CASE UNCHANGED vars
  <2>1. msg' = msg /\ cls' = cls /\ pc' = pc /\ status' = status /\ at' = at /\ values' = values
    BY <1>17 DEF vars
  <2>2. get_header(pc)' = get_header(pc) /\ Items(pc)' = Items(pc)
    BY <2>1, SameMessage DEF get_header, Nth, Found, Items
  <2>3. Collected'
    BY <2>1, <2>2, SameMessage DEF Collected, Past, ShapeInv
  <2> QED BY <2>1, <2>2, <2>3 DEF ShapeInv, TypeOK
<1> QED
  BY <1>1, <1>2, <1>3, <1>4, <1>5, <1>6, <1>7, <1>8, <1>9, <1>10, <1>11, <1>12, <1>13, <1>14,
     <1>15, <1>16, <1>17 DEF Next, parse_message, Returned

(* The variables of the parser have their types, and the place in a list   *)
(* is an item there is, for every message.                                 *)
THEOREM ParserTypeCorrect == Spec => []TypeOK
<1>1. ShapeInv => TypeOK
  BY DEF ShapeInv
<1> QED BY ShapeInit, ShapeNext, <1>1, PTL DEF Spec

-----------------------------------------------------------------------------
(* No substr begins past the end of its value *)

(* A step that has gone past no end with the members it assigns, keeps     *)
(* what the others are.                                                    *)
LEMMA CutStep ==
  ASSUME NothingOutOfRange, NEW members,
         DOMAIN fields' \subseteq DOMAIN fields \cup members,
         \A f \in DOMAIN fields \ members : fields'[f] = fields[f],
         \A f \in Cut \cap members \cap DOMAIN fields' :
           fields'[f] # OutOfRange \/ (f \in DOMAIN fields /\ fields'[f] = fields[f]),
         "via_list" \in members \cap DOMAIN fields' =>
           \/ "via_list" \in DOMAIN fields /\ fields'.via_list = fields.via_list
           \/ \A i \in DOMAIN fields'.via_list :
                OutOfRange \notin {fields'.via_list[i][f] : f \in DOMAIN fields'.via_list[i]},
         \A f \in {"pai_list", "ppi_list"} \cap members \cap DOMAIN fields' :
           \/ f \in DOMAIN fields /\ fields'[f] = fields[f]
           \/ \A i \in DOMAIN fields'[f] : OutOfRange \notin {fields'[f][i].uri, fields'[f][i].host}
  PROVE  NothingOutOfRange'
<1>1. \A f \in Cut \cap DOMAIN fields' : fields'[f] # OutOfRange
  BY DEF NothingOutOfRange
<1>2. "via_list" \in DOMAIN fields' =>
        \A i \in DOMAIN fields'.via_list :
          OutOfRange \notin {fields'.via_list[i][f] : f \in DOMAIN fields'.via_list[i]}
  <2> SUFFICES ASSUME "via_list" \in DOMAIN fields'
               PROVE  \A i \in DOMAIN fields'.via_list :
                        OutOfRange \notin {fields'.via_list[i][f] : f \in DOMAIN fields'.via_list[i]}
    OBVIOUS
  <2>1. CASE "via_list" \in DOMAIN fields /\ fields'.via_list = fields.via_list
    BY <2>1 DEF NothingOutOfRange
  <2>2. CASE ~("via_list" \in DOMAIN fields /\ fields'.via_list = fields.via_list)
    <3>1. "via_list" \in members
      BY <2>2
    <3> QED BY <2>2, <3>1
  <2> QED BY <2>1, <2>2
<1>3. ASSUME NEW f \in {"pai_list", "ppi_list"} \cap DOMAIN fields', NEW i \in DOMAIN fields'[f]
      PROVE  OutOfRange \notin {fields'[f][i].uri, fields'[f][i].host}
  <2>1. CASE f \in DOMAIN fields /\ fields'[f] = fields[f]
    BY <1>3, <2>1 DEF NothingOutOfRange
  <2>2. CASE ~(f \in DOMAIN fields /\ fields'[f] = fields[f])
    <3>1. f \in members
      BY <1>3, <2>2
    <3> QED BY <1>3, <2>2, <3>1
  <2> QED BY <2>1, <2>2
<1> QED BY <1>1, <1>2, <1>3 DEF NothingOutOfRange, Cut

(* A step that assigns none of the members that are cut.                   *)
LEMMA CutKept ==
  ASSUME NothingOutOfRange, NEW members,
         DOMAIN fields' \subseteq DOMAIN fields \cup members,
         \A f \in DOMAIN fields \ members : fields'[f] = fields[f],
         members \cap (Cut \cup {"via_list", "pai_list", "ppi_list"}) = {}
  PROVE  NothingOutOfRange'
<1>1. /\ \A f \in Cut \cap members \cap DOMAIN fields' :
           fields'[f] # OutOfRange \/ (f \in DOMAIN fields /\ fields'[f] = fields[f])
      /\ "via_list" \notin members /\ "pai_list" \notin members /\ "ppi_list" \notin members
  OBVIOUS
<1> QED BY <1>1, CutStep

LEMMA SteppedKept ==
  ASSUME NothingOutOfRange, NEW here, NEW next, NEW codes, NEW members, Stepped(here, next, codes, members),
         members \cap (Cut \cup {"via_list", "pai_list", "ppi_list"}) = {}
  PROVE  NothingOutOfRange'
BY CutKept DEF Stepped

LEMMA SteppedCut ==
  ASSUME NothingOutOfRange, NEW here, NEW next, NEW codes, NEW members, Stepped(here, next, codes, members),
         members \subseteq Cut,
         \A f \in members \cap DOMAIN fields' :
           fields'[f] # OutOfRange \/ (f \in DOMAIN fields /\ fields'[f] = fields[f])
  PROVE  NothingOutOfRange'
<1>1. /\ DOMAIN fields' \subseteq DOMAIN fields \cup members
      /\ \A f \in DOMAIN fields \ members : fields'[f] = fields[f]
  BY DEF Stepped
<1>2. /\ \A f \in Cut \cap members \cap DOMAIN fields' :
           fields'[f] # OutOfRange \/ (f \in DOMAIN fields /\ fields'[f] = fields[f])
      /\ "via_list" \notin members /\ "pai_list" \notin members /\ "ppi_list" \notin members
  BY DEF Cut
<1> QED BY <1>1, <1>2, CutStep

LEMMA CutNext == ShapeInv /\ NothingOutOfRange /\ [Next]_vars => NothingOutOfRange'
<1> SUFFICES ASSUME ShapeInv, NothingOutOfRange, [Next]_vars PROVE NothingOutOfRange'
  OBVIOUS
<1>0. msg \in Message
  BY DEF ShapeInv
<1>1. CASE ChooseClass \/ Throw \/ TakeItem \/ UNCHANGED vars
  <2>1. fields' = fields
    BY <1>1 DEF ChooseClass, Throw, TakeItem, vars
  <2> QED BY <2>1 DEF NothingOutOfRange
<1>2. CASE ParseMessage
  <2>1. {"call_id"} \cap (Cut \cup {"via_list", "pai_list", "ppi_list"}) = {}
    BY DEF Cut
  <2> QED BY <1>2, <2>1, StepMessage, SteppedKept
<1>3. CASE ParseFrom
  <2>1. FromMembers \subseteq Cut
    BY DEF Cut, FromMembers
  <2> QED BY <1>0, <1>3, <2>1, StepFrom, SteppedCut
<1>4. CASE ParseTo
  <2>1. ToMembers \subseteq Cut
    BY DEF Cut, ToMembers
  <2> QED BY <1>0, <1>4, <2>1, StepTo, SteppedCut
<1>5. CASE ParseCSeq
  <2>1. CSeqMembers \subseteq Cut
    BY DEF Cut, CSeqMembers
  <2> QED BY <1>0, <1>5, <2>1, StepCSeq, SteppedCut
<1>6. CASE ParseVia
  <2> DEFINE members == {"via_list"}
  <2>1. /\ DOMAIN fields' \subseteq DOMAIN fields \cup members
        /\ \A f \in DOMAIN fields \ members : fields'[f] = fields[f]
        /\ "via_list" \in DOMAIN fields' =>
             \/ "via_list" \in DOMAIN fields /\ fields'.via_list = fields.via_list
             \/ \A i \in DOMAIN fields'.via_list :
                  OutOfRange \notin {fields'.via_list[i][f] : f \in DOMAIN fields'.via_list[i]}
    BY <1>0, <1>6, StepVia DEF Stepped
  <2>2. Cut \cap members = {} /\ {"pai_list", "ppi_list"} \cap members = {}
    BY DEF Cut
  <2> HIDE DEF members
  <2> QED BY <2>1, <2>2, CutStep
<1>7. CASE ParseContact
  <2>1. ContactMembers \subseteq Cut
    BY DEF Cut, ContactMembers
  <2> QED BY <1>0, <1>7, <2>1, StepContact, SteppedCut
<1>8. CASE ParseContent
  <2>1. {"content_length", "has_content"} \cap (Cut \cup {"via_list", "pai_list", "ppi_list"}) = {}
    BY DEF Cut
  <2>2. \E next : Stepped("parse_content", next, {"LENGTH_REQUIRED", "BAD_REQUEST"},
                          {"content_length", "has_content"})
    BY <1>8, StepContent
  <2> QED BY <2>1, <2>2, SteppedKept
<1>9. CASE EndOfList
  <2>1. ListMembers(pc) \cap (Cut \cup {"via_list", "pai_list", "ppi_list"}) = {}
    <3>1. pc \in ListHeader
      BY <1>9, StepList
    <3> QED BY <3>1 DEF ListMembers, ListHeader, Cut
  <2> QED BY <1>9, <2>1, StepList, CutKept
<1>10. CASE ParseSessionExpire
  <2>1. TimerMembers \cap (Cut \cup {"via_list", "pai_list", "ppi_list"}) = {}
    BY DEF Cut, TimerMembers
  <2> QED BY <1>10, <2>1, StepSessionExpire, SteppedKept
<1>11. CASE ParseSdp
  <2>1. {} \cap (Cut \cup {"via_list", "pai_list", "ppi_list"}) = {}
    OBVIOUS
  <2> QED BY <1>11, <2>1, StepSdp, SteppedKept
<1>12. CASE ParseDerived
  <2>1. LineMembers \subseteq Cut
    BY DEF Cut, LineMembers
  <2> QED BY <1>0, <1>12, <2>1, StepDerived, SteppedCut
<1>13. CASE ParsePai
  <2> DEFINE members == {"pai_list"}
  <2>1. /\ DOMAIN fields' \subseteq DOMAIN fields \cup members
        /\ \A f \in DOMAIN fields \ members : fields'[f] = fields[f]
        /\ "pai_list" \in DOMAIN fields' =>
             \/ "pai_list" \in DOMAIN fields /\ fields'["pai_list"] = fields["pai_list"]
             \/ \A i \in DOMAIN fields'["pai_list"] :
                  OutOfRange \notin {fields'["pai_list"][i].uri, fields'["pai_list"][i].host}
    BY <1>0, <1>13, StepPai DEF Stepped
  <2>2. Cut \cap members = {} /\ "via_list" \notin members
        /\ \A f \in {"pai_list", "ppi_list"} \cap members : f = "pai_list"
    BY DEF Cut
  <2> HIDE DEF members
  <2> QED BY <2>1, <2>2, CutStep
<1>14. CASE ParsePpi
  <2> DEFINE members == {"ppi_list"}
  <2>1. /\ DOMAIN fields' \subseteq DOMAIN fields \cup members
        /\ \A f \in DOMAIN fields \ members : fields'[f] = fields[f]
        /\ "ppi_list" \in DOMAIN fields' =>
             \/ "ppi_list" \in DOMAIN fields /\ fields'["ppi_list"] = fields["ppi_list"]
             \/ \A i \in DOMAIN fields'["ppi_list"] :
                  OutOfRange \notin {fields'["ppi_list"][i].uri, fields'["ppi_list"][i].host}
    BY <1>0, <1>14, StepPpi DEF Stepped
  <2>2. Cut \cap members = {} /\ "via_list" \notin members
        /\ \A f \in {"pai_list", "ppi_list"} \cap members : f = "ppi_list"
    BY DEF Cut
  <2> HIDE DEF members
  <2> QED BY <2>1, <2>2, CutStep
<1> QED
  BY <1>1, <1>2, <1>3, <1>4, <1>5, <1>6, <1>7, <1>8, <1>9, <1>10, <1>11, <1>12, <1>13, <1>14
  DEF Next, parse_message, Returned

(* Whatever the octets of a message are, no substr of the parsing begins   *)
(* past the end of its value.                                              *)
THEOREM CutsInside == Spec => []NothingOutOfRange
<1>1. Init => NothingOutOfRange
  BY DEF Init, NothingOutOfRange
<1> QED BY ShapeInit, ShapeNext, CutNext, <1>1, PTL DEF Spec

-----------------------------------------------------------------------------
(* What the steps have found out is what the message says *)

(* The parsing has got past this step without an error.                    *)
Reached(step) == status = "OK" /\ pc # "thrown" /\ Place(pc) > Place(step)

LengthTaken ==
  /\ Len(get_header("Content-Length")) = 1 /\ stoi(get_header("Content-Length")[1]) # NotANumber
  /\ {"content_length", "has_content"} \subseteq DOMAIN fields
  /\ fields.content_length = uint16(stoi(get_header("Content-Length")[1]))
  /\ fields.has_content = (fields.content_length # 0)

TypeTaken == fields.has_content => "application/sdp" \in Items("Content-Type")

SupportedTaken ==
  /\ {"supported_100_rel", "supported_timer"} \subseteq DOMAIN fields
  /\ fields.supported_100_rel = ("100rel" \in Items("Supported"))
  /\ fields.supported_timer = ("timer" \in Items("Supported"))

RequireTaken ==
  /\ {"required_100_rel", "required_timer"} \subseteq DOMAIN fields
  /\ fields.required_100_rel = ("100rel" \in Items("Require"))
  /\ fields.required_timer = ("timer" \in Items("Require"))

AllowTaken ==
  /\ "update_allowed" \in DOMAIN fields
  /\ fields.update_allowed = ("UPDATE" \in Items("Allow"))

BodyTaken == fields.has_content => fields.content_length = msg.body

LengthRefused ==
  status = "LENGTH_REQUIRED" =>
    \/ Len(get_header("Content-Length")) # 1
    \/ /\ uint16(stoi(get_header("Content-Length")[1])) # msg.body
       /\ uint16(stoi(get_header("Content-Length")[1])) # 0

(* The inductive invariant: each step that has been got past has left what *)
(* it is there for, and nothing has overwritten it.                        *)
FieldInv ==
  /\ Reached("parse_content") => LengthTaken
  /\ Reached("Content-Type") => TypeTaken
  /\ Reached("Supported") => SupportedTaken
  /\ Reached("Require") => RequireTaken
  /\ Reached("Allow") => AllowTaken
  /\ Reached("sdp") => BodyTaken
  /\ LengthRefused

(* A step that assigns other members leaves them as they are.              *)
LEMMA TakenKept ==
  ASSUME NEW members, msg' = msg, DOMAIN fields \subseteq DOMAIN fields',
         \A f \in DOMAIN fields \ members : fields'[f] = fields[f]
  PROVE  /\ {"content_length", "has_content"} \cap members = {} =>
              /\ LengthTaken => LengthTaken'
              /\ LengthTaken /\ TypeTaken => TypeTaken'
              /\ LengthTaken /\ BodyTaken => BodyTaken'
         /\ {"supported_100_rel", "supported_timer"} \cap members = {} => (SupportedTaken => SupportedTaken')
         /\ {"required_100_rel", "required_timer"} \cap members = {} => (RequireTaken => RequireTaken')
         /\ {"update_allowed"} \cap members = {} => (AllowTaken => AllowTaken')
<1>1. /\ get_header("Content-Length")' = get_header("Content-Length")
      /\ Items("Content-Type")' = Items("Content-Type") /\ Items("Supported")' = Items("Supported")
      /\ Items("Require")' = Items("Require") /\ Items("Allow")' = Items("Allow")
  BY SameMessage
<1>2. ASSUME {"content_length", "has_content"} \cap members = {}, LengthTaken
      PROVE  /\ {"content_length", "has_content"} \subseteq DOMAIN fields'
             /\ fields'.content_length = fields.content_length /\ fields'.has_content = fields.has_content
             /\ LengthTaken'
  <2>1. /\ {"content_length", "has_content"} \subseteq DOMAIN fields'
        /\ fields'.content_length = fields.content_length /\ fields'.has_content = fields.has_content
    BY <1>2 DEF LengthTaken
  <2> QED BY <1>1, <1>2, <2>1 DEF LengthTaken
<1>3. ASSUME {"content_length", "has_content"} \cap members = {}, LengthTaken, TypeTaken PROVE TypeTaken'
  BY <1>1, <1>2, <1>3 DEF TypeTaken
<1>4. ASSUME {"content_length", "has_content"} \cap members = {}, LengthTaken, BodyTaken PROVE BodyTaken'
  BY <1>2, <1>4 DEF BodyTaken
<1>5. ASSUME {"supported_100_rel", "supported_timer"} \cap members = {}, SupportedTaken PROVE SupportedTaken'
  <2>1. /\ {"supported_100_rel", "supported_timer"} \subseteq DOMAIN fields'
        /\ fields'.supported_100_rel = fields.supported_100_rel
        /\ fields'.supported_timer = fields.supported_timer
    BY <1>5 DEF SupportedTaken
  <2> QED BY <1>1, <1>5, <2>1 DEF SupportedTaken
<1>6. ASSUME {"required_100_rel", "required_timer"} \cap members = {}, RequireTaken PROVE RequireTaken'
  <2>1. /\ {"required_100_rel", "required_timer"} \subseteq DOMAIN fields'
        /\ fields'.required_100_rel = fields.required_100_rel
        /\ fields'.required_timer = fields.required_timer
    BY <1>6 DEF RequireTaken
  <2> QED BY <1>1, <1>6, <2>1 DEF RequireTaken
<1>7. ASSUME {"update_allowed"} \cap members = {}, AllowTaken PROVE AllowTaken'
  <2>1. "update_allowed" \in DOMAIN fields' /\ fields'.update_allowed = fields.update_allowed
    BY <1>7 DEF AllowTaken
  <2> QED BY <1>1, <1>7, <2>1 DEF AllowTaken
<1> QED BY <1>2, <1>3, <1>4, <1>5, <1>6, <1>7

Tracked == {"parse_content", "Content-Type", "Supported", "Require", "Allow", "sdp"}

Watched == {"content_length", "has_content", "supported_100_rel", "supported_timer",
            "required_100_rel", "required_timer", "update_allowed"}

LEMMA PlaceRange == ASSUME NEW step \in Steps PROVE Place(step) \in 1 .. 19
BY Places DEF Steps

LEMMA LengthFirst ==
  ASSUME TypeOK
  PROVE  /\ Reached("Content-Type") => Reached("parse_content")
         /\ Reached("sdp") => Reached("parse_content")
<1>1. pc \in Steps
  BY AllSteps DEF TypeOK
<1>2. Place(pc) \in Int
  BY <1>1, PlaceRange
<1> QED BY <1>2, Places DEF Reached

(* A step that gets past none of these, and assigns none of what they have *)
(* left.                                                                   *)
LEMMA FieldKept ==
  ASSUME TypeOK, FieldInv, NEW members, msg' = msg, DOMAIN fields \subseteq DOMAIN fields',
         \A f \in DOMAIN fields \ members : fields'[f] = fields[f],
         Watched \cap members = {},
         \A step \in Tracked : Reached(step)' => Reached(step),
         status' = "LENGTH_REQUIRED" => status = "LENGTH_REQUIRED"
  PROVE  FieldInv'
<1>1. /\ LengthTaken => LengthTaken'
      /\ LengthTaken /\ TypeTaken => TypeTaken'
      /\ LengthTaken /\ BodyTaken => BodyTaken'
      /\ SupportedTaken => SupportedTaken'
      /\ RequireTaken => RequireTaken'
      /\ AllowTaken => AllowTaken'
  <2>1. /\ {"content_length", "has_content"} \cap members = {}
        /\ {"supported_100_rel", "supported_timer"} \cap members = {}
        /\ {"required_100_rel", "required_timer"} \cap members = {}
        /\ {"update_allowed"} \cap members = {}
    BY DEF Watched
  <2> QED BY <2>1, TakenKept
<1>2. LengthRefused'
  <2>1. get_header("Content-Length")' = get_header("Content-Length")
    BY SameMessage
  <2> QED BY <2>1 DEF FieldInv, LengthRefused
<1>3. /\ Reached("parse_content")' => Reached("parse_content")
      /\ Reached("Content-Type")' => Reached("Content-Type")
      /\ Reached("Supported")' => Reached("Supported")
      /\ Reached("Require")' => Reached("Require")
      /\ Reached("Allow")' => Reached("Allow")
      /\ Reached("sdp")' => Reached("sdp")
  BY DEF Tracked
<1> QED BY <1>1, <1>2, <1>3, LengthFirst DEF FieldInv

LEMMA SteppedField ==
  ASSUME ShapeInv, FieldInv, NEW here, here \notin {"returned", "thrown"}, NEW next, NEW codes, NEW members,
         Stepped(here, next, codes, members), "LENGTH_REQUIRED" \notin codes, Watched \cap members = {},
         \A step \in Tracked : Place(next) > Place(step) => Place(here) > Place(step)
  PROVE  FieldInv'
<1>1. /\ pc = here /\ pc' = (IF status' = "OK" THEN next ELSE "returned") /\ status' \in {"OK"} \cup codes
      /\ msg' = msg /\ DOMAIN fields \subseteq DOMAIN fields'
      /\ \A f \in DOMAIN fields \ members : fields'[f] = fields[f]
  BY DEF Stepped
<1>2. status = "OK" /\ TypeOK
  BY <1>1 DEF ShapeInv
<1>3. \A step \in Tracked : Reached(step)' => Reached(step)
  BY <1>1, <1>2 DEF Reached
<1>4. status' # "LENGTH_REQUIRED"
  BY <1>1
<1> QED BY <1>1, <1>2, <1>3, <1>4, FieldKept

(* The end of a list: all its items have been collected, but for blanks.   *)
LEMMA ListDone ==
  ASSUME ShapeInv, EndOfList
  PROVE  \A item : item # Blank => (item \in values <=> item \in Items(pc))
<1>1. pc \in ListHeader /\ at[1] > Len(get_header(pc)) /\ msg \in Message
  BY StepList DEF ShapeInv
<1>2. /\ values \subseteq Items(pc) \ {Blank}
      /\ \A i \in DOMAIN get_header(pc) : \A j \in DOMAIN get_header(pc)[i] :
           Past(i, j) => get_header(pc)[i][j] \in values \cup {Blank}
  BY <1>1 DEF ShapeInv, Collected
<1>3. ASSUME NEW item \in Items(pc), item # Blank PROVE item \in values
  <2>1. PICK i \in DOMAIN get_header(pc) : \E j \in DOMAIN get_header(pc)[i] : item = get_header(pc)[i][j]
    BY <1>1, <1>3, HeaderItems
  <2>2. PICK j \in DOMAIN get_header(pc)[i] : item = get_header(pc)[i][j]
    BY <2>1
  <2>3. Past(i, j)
    <3>1. i \in Nat /\ i <= Len(get_header(pc))
      BY <1>1, ListPositions
    <3>2. at[1] \in Nat /\ Len(get_header(pc)) \in Nat
      BY <1>1, HeaderLines DEF ShapeInv
    <3> QED BY <1>1, <3>1, <3>2 DEF Past
  <2> QED BY <1>2, <1>3, <2>2, <2>3
<1> QED BY <1>2, <1>3

LEMMA ContentField ==
  ASSUME ShapeInv, FieldInv, ParseContent
  PROVE  FieldInv'
<1> DEFINE next == IF fields'.has_content THEN "Content-Type" ELSE "Supported"
           members == {"content_length", "has_content"}
<1>1. /\ Stepped("parse_content", next, {"LENGTH_REQUIRED", "BAD_REQUEST"}, members)
      /\ status' = "OK" =>
           /\ Len(get_header("Content-Length")) = 1 /\ stoi(get_header("Content-Length")[1]) # NotANumber
           /\ {"content_length", "has_content"} \subseteq DOMAIN fields'
           /\ fields'.content_length = uint16(stoi(get_header("Content-Length")[1]))
           /\ fields'.has_content = (fields'.content_length # 0)
      /\ status' = "LENGTH_REQUIRED" => Len(get_header("Content-Length")) # 1
  BY StepContent
<1>2. /\ pc = "parse_content" /\ pc' = (IF status' = "OK" THEN next ELSE "returned")
      /\ msg' = msg /\ DOMAIN fields \subseteq DOMAIN fields'
  BY <1>1 DEF Stepped
<1>3. get_header("Content-Length")' = get_header("Content-Length")
  BY <1>2, SameMessage
<1>4. LengthRefused'
  BY <1>1, <1>3 DEF LengthRefused
<1>5. status' = "OK" => LengthTaken'
  BY <1>1, <1>3 DEF LengthTaken
<1>6. /\ ~Reached("Supported")' /\ ~Reached("Require")' /\ ~Reached("Allow")' /\ ~Reached("sdp")'
      /\ Reached("Content-Type")' => ~fields'.has_content
  BY <1>2, Places DEF Reached
<1>7. Reached("parse_content")' => status' = "OK"
  BY DEF Reached
<1> HIDE DEF next, members
<1> QED BY <1>4, <1>5, <1>6, <1>7 DEF FieldInv, TypeTaken

LEMMA ListField ==
  ASSUME ShapeInv, FieldInv, EndOfList
  PROVE  FieldInv'
<1> DEFINE members == ListMembers(pc)
<1>1. /\ pc \in ListHeader /\ msg' = msg
      /\ status' \in {"OK", "BAD_REQUEST", "UNSUPPORTED_MEDIA_TYPE"}
      /\ pc' = IF status' = "OK" THEN After(pc) ELSE "returned"
      /\ DOMAIN fields \subseteq DOMAIN fields'
      /\ \A f \in DOMAIN fields \ members : fields'[f] = fields[f]
  BY StepList
<1>2. status = "OK" /\ TypeOK /\ pc # "thrown"
  BY <1>1 DEF ShapeInv, ListHeader
<1>3. \A item : item # Blank => (item \in values <=> item \in Items(pc))
  BY ListDone
<1>4. "100rel" # Blank /\ "timer" # Blank /\ "UPDATE" # Blank /\ "application/sdp" # Blank
  BY DEF Blank
<1>5. \A name : Items(name)' = Items(name)
  BY <1>1, SameMessage
<1>6. /\ {"content_length", "has_content"} \cap members = {} =>
           /\ LengthTaken => LengthTaken'
           /\ LengthTaken /\ TypeTaken => TypeTaken'
           /\ LengthTaken /\ BodyTaken => BodyTaken'
      /\ {"supported_100_rel", "supported_timer"} \cap members = {} => (SupportedTaken => SupportedTaken')
      /\ {"required_100_rel", "required_timer"} \cap members = {} => (RequireTaken => RequireTaken')
      /\ {"update_allowed"} \cap members = {} => (AllowTaken => AllowTaken')
  <2> HIDE DEF members
  <2> QED BY <1>1, TakenKept
<1>7. LengthRefused'
  BY <1>1 DEF LengthRefused
<1>8. CASE pc = "Content-Type"
  <2>1. Watched \cap members = {}
    BY <1>8 DEF ListMembers, Watched
  <2>2. pc' = IF status' = "OK" THEN "Supported" ELSE "returned"
    BY <1>1, <1>8 DEF After
  <2>3. /\ Reached("parse_content")
        /\ Reached("Content-Type")' => status' = "OK"
        /\ ~Reached("Supported")' /\ ~Reached("Require")' /\ ~Reached("Allow")' /\ ~Reached("sdp")'
    BY <1>2, <1>8, <2>2, Places DEF Reached
  <2>4. status' = "OK" => "application/sdp" \in Items("Content-Type")
    BY <1>3, <1>4, <1>8, StepList
  <2>5. Reached("Content-Type")' => TypeTaken'
    BY <1>5, <2>3, <2>4 DEF TypeTaken
  <2>6. LengthTaken'
    BY <1>6, <2>1, <2>3 DEF FieldInv, Watched
  <2> QED BY <1>7, <2>3, <2>5, <2>6 DEF FieldInv
<1>9. CASE pc = "Supported"
  <2>1. members = {"supported_100_rel", "supported_timer"}
    BY <1>9 DEF ListMembers
  <2>2. pc' = IF status' = "OK" THEN "Require" ELSE "returned"
    BY <1>1, <1>9 DEF After
  <2>3. /\ Reached("parse_content") /\ Reached("Content-Type")
        /\ ~Reached("Require")' /\ ~Reached("Allow")' /\ ~Reached("sdp")'
    BY <1>2, <1>9, <2>2, Places DEF Reached
  <2>4. /\ {"supported_100_rel", "supported_timer"} \subseteq DOMAIN fields'
        /\ fields'.supported_100_rel = ("100rel" \in values)
        /\ fields'.supported_timer = ("timer" \in values)
    BY <1>9, <2>1, StepList
  <2>5. ("100rel" \in values <=> "100rel" \in Items("Supported")) /\ ("timer" \in values <=> "timer" \in Items("Supported"))
    BY <1>3, <1>4, <1>9
  <2>6. SupportedTaken'
    BY <1>5, <2>4, <2>5 DEF SupportedTaken
  <2>7. LengthTaken' /\ TypeTaken'
    <3>1. {"content_length", "has_content"} \cap members = {}
      BY <2>1
    <3> QED BY <1>6, <2>3, <3>1 DEF FieldInv
  <2> QED BY <1>7, <2>3, <2>6, <2>7 DEF FieldInv
<1>10. CASE pc = "Require"
  <2>1. members = {"required_100_rel", "required_timer"}
    BY <1>10 DEF ListMembers
  <2>2. pc' = IF status' = "OK" THEN "Allow" ELSE "returned"
    BY <1>1, <1>10 DEF After
  <2>3. /\ Reached("parse_content") /\ Reached("Content-Type") /\ Reached("Supported")
        /\ ~Reached("Allow")' /\ ~Reached("sdp")'
    BY <1>2, <1>10, <2>2, Places DEF Reached
  <2>4. /\ {"required_100_rel", "required_timer"} \subseteq DOMAIN fields'
        /\ fields'.required_100_rel = ("100rel" \in values)
        /\ fields'.required_timer = ("timer" \in values)
    BY <1>10, <2>1, StepList
  <2>5. ("100rel" \in values <=> "100rel" \in Items("Require")) /\ ("timer" \in values <=> "timer" \in Items("Require"))
    BY <1>3, <1>4, <1>10
  <2>6. RequireTaken'
    BY <1>5, <2>4, <2>5 DEF RequireTaken
  <2>7. LengthTaken' /\ TypeTaken' /\ SupportedTaken'
    <3>1. /\ {"content_length", "has_content"} \cap members = {}
          /\ {"supported_100_rel", "supported_timer"} \cap members = {}
      BY <2>1
    <3> QED BY <1>6, <2>3, <3>1 DEF FieldInv
  <2> QED BY <1>7, <2>3, <2>6, <2>7 DEF FieldInv
<1>11. CASE pc = "Allow"
  <2>1. members = {"update_allowed"}
    BY <1>11 DEF ListMembers
  <2>2. pc' = IF status' = "OK" THEN "parse_session_expire" ELSE "returned"
    BY <1>1, <1>11 DEF After
  <2>3. /\ Reached("parse_content") /\ Reached("Content-Type") /\ Reached("Supported") /\ Reached("Require")
        /\ ~Reached("sdp")'
    BY <1>2, <1>11, <2>2, Places DEF Reached
  <2>4. "update_allowed" \in DOMAIN fields' /\ fields'.update_allowed = ("UPDATE" \in values)
    BY <1>11, <2>1, StepList
  <2>5. "UPDATE" \in values <=> "UPDATE" \in Items("Allow")
    BY <1>3, <1>4, <1>11
  <2>6. AllowTaken'
    BY <1>5, <2>4, <2>5 DEF AllowTaken
  <2>7. LengthTaken' /\ TypeTaken' /\ SupportedTaken' /\ RequireTaken'
    <3>1. /\ {"content_length", "has_content"} \cap members = {}
          /\ {"supported_100_rel", "supported_timer"} \cap members = {}
          /\ {"required_100_rel", "required_timer"} \cap members = {}
      BY <2>1
    <3> QED BY <1>6, <2>3, <3>1 DEF FieldInv
  <2> QED BY <1>7, <2>3, <2>6, <2>7 DEF FieldInv
<1> QED BY <1>1, <1>8, <1>9, <1>10, <1>11 DEF ListHeader

LEMMA SdpField ==
  ASSUME ShapeInv, FieldInv, ParseSdp
  PROVE  FieldInv'
<1>1. /\ Stepped("sdp", "derived", {"LENGTH_REQUIRED"}, {})
      /\ status' = "OK" => ~fields.has_content \/ fields.content_length = msg.body
      /\ status' = "LENGTH_REQUIRED" => fields.has_content /\ fields.content_length # msg.body
  BY StepSdp
<1>2. /\ pc = "sdp" /\ pc' = (IF status' = "OK" THEN "derived" ELSE "returned")
      /\ status' \in {"OK", "LENGTH_REQUIRED"} /\ msg' = msg
      /\ DOMAIN fields \subseteq DOMAIN fields' /\ \A f \in DOMAIN fields \ {} : fields'[f] = fields[f]
  BY <1>1 DEF Stepped
<1>3. status = "OK"
  BY <1>2 DEF ShapeInv
<1>4. /\ Reached("parse_content") /\ Reached("Content-Type") /\ Reached("Supported")
      /\ Reached("Require") /\ Reached("Allow")
  BY <1>2, <1>3, Places DEF Reached
<1>5. LengthTaken /\ TypeTaken /\ SupportedTaken /\ RequireTaken /\ AllowTaken
  BY <1>4 DEF FieldInv
<1>6. /\ LengthTaken' /\ TypeTaken' /\ SupportedTaken' /\ RequireTaken' /\ AllowTaken'
      /\ BodyTaken => BodyTaken'
  <2> DEFINE members == {}
  <2>1. /\ {"content_length", "has_content"} \cap members = {}
        /\ {"supported_100_rel", "supported_timer"} \cap members = {}
        /\ {"required_100_rel", "required_timer"} \cap members = {}
        /\ {"update_allowed"} \cap members = {}
        /\ \A f \in DOMAIN fields \ members : fields'[f] = fields[f]
    BY <1>2
  <2> HIDE DEF members
  <2> QED BY <1>2, <1>5, <2>1, TakenKept
<1>7. status' = "OK" => BodyTaken'
  <2>1. status' = "OK" => BodyTaken
    BY <1>1 DEF BodyTaken
  <2> QED BY <1>6, <2>1
<1>8. LengthRefused'
  <2>1. get_header("Content-Length")' = get_header("Content-Length")
    BY <1>2, SameMessage
  <2> QED BY <1>1, <1>2, <1>5, <2>1 DEF LengthRefused, LengthTaken
<1>9. Reached("sdp")' => status' = "OK"
  BY DEF Reached
<1> QED BY <1>6, <1>7, <1>8, <1>9 DEF FieldInv

LEMMA FieldInit == Init => FieldInv
<1> SUFFICES ASSUME Init PROVE FieldInv
  OBVIOUS
<1>1. \A step \in Tracked : ~Reached(step)
  <2>1. pc \in {"is_response", "SIPMessage"}
    BY DEF Init
  <2> QED BY <2>1, Places DEF Reached, Tracked
<1>2. LengthRefused
  BY DEF Init, LengthRefused
<1> QED BY <1>1, <1>2 DEF FieldInv, Tracked

LEMMA FieldNext == ShapeInv /\ FieldInv /\ [Next]_vars => FieldInv'
<1> SUFFICES ASSUME ShapeInv, FieldInv, [Next]_vars PROVE FieldInv'
  OBVIOUS
<1>0. msg \in Message /\ TypeOK
  BY DEF ShapeInv
<1>1. CASE ChooseClass \/ Throw \/ TakeItem \/ UNCHANGED vars
  <2> DEFINE members == {}
  <2>1. /\ msg' = msg /\ fields' = fields /\ status' = status
        /\ \/ pc' = pc
           \/ pc = "is_response" /\ pc' = "SIPMessage"
           \/ pc = "SIPMessage" /\ pc' = "thrown"
    BY <1>1 DEF ChooseClass, Throw, TakeItem, vars
  <2>2. Watched \cap members = {} /\ \A f \in DOMAIN fields \ members : fields'[f] = fields[f]
    BY <2>1
  <2>3. \A step \in Tracked : Reached(step)' => Reached(step)
    BY <2>1, Places DEF Reached, Tracked
  <2> HIDE DEF members
  <2> QED BY <1>0, <2>1, <2>2, <2>3, FieldKept
<1>2. CASE ParseMessage
  <2>1. \A step \in Tracked : Place("parse_from") > Place(step) => Place("SIPMessage") > Place(step)
    BY Places DEF Tracked
  <2>2. Watched \cap {"call_id"} = {}
    BY DEF Watched
  <2> QED BY <1>2, <2>1, <2>2, StepMessage, SteppedField
<1>3. CASE ParseFrom
  <2>1. \A step \in Tracked : Place("parse_to") > Place(step) => Place("parse_from") > Place(step)
    BY Places DEF Tracked
  <2>2. Watched \cap FromMembers = {}
    BY DEF Watched, FromMembers
  <2> QED BY <1>0, <1>3, <2>1, <2>2, StepFrom, SteppedField
<1>4. CASE ParseTo
  <2>1. \A step \in Tracked : Place("parse_cseq") > Place(step) => Place("parse_to") > Place(step)
    BY Places DEF Tracked
  <2>2. Watched \cap ToMembers = {}
    BY DEF Watched, ToMembers
  <2> QED BY <1>0, <1>4, <2>1, <2>2, StepTo, SteppedField
<1>5. CASE ParseCSeq
  <2>1. \A step \in Tracked : Place("parse_via") > Place(step) => Place("parse_cseq") > Place(step)
    BY Places DEF Tracked
  <2>2. Watched \cap CSeqMembers = {}
    BY DEF Watched, CSeqMembers
  <2> QED BY <1>0, <1>5, <2>1, <2>2, StepCSeq, SteppedField
<1>6. CASE ParseVia
  <2>1. \A step \in Tracked : Place("parse_contact") > Place(step) => Place("parse_via") > Place(step)
    BY Places DEF Tracked
  <2>2. Watched \cap {"via_list"} = {}
    BY DEF Watched
  <2> QED BY <1>0, <1>6, <2>1, <2>2, StepVia, SteppedField
<1>7. CASE ParseContact
  <2>1. \A step \in Tracked : Place("parse_content") > Place(step) => Place("parse_contact") > Place(step)
    BY Places DEF Tracked
  <2>2. Watched \cap ContactMembers = {}
    BY DEF Watched, ContactMembers
  <2> QED BY <1>0, <1>7, <2>1, <2>2, StepContact, SteppedField
<1>8. CASE ParseContent
  BY <1>8, ContentField
<1>9. CASE EndOfList
  BY <1>9, ListField
<1>10. CASE ParseSessionExpire
  <2>1. \A step \in Tracked : Place("sdp") > Place(step) => Place("parse_session_expire") > Place(step)
    BY Places DEF Tracked
  <2>2. Watched \cap TimerMembers = {}
    BY DEF Watched, TimerMembers
  <2> QED BY <1>10, <2>1, <2>2, StepSessionExpire, SteppedField
<1>11. CASE ParseSdp
  BY <1>11, SdpField
<1>12. CASE ParseDerived
  <2>1. \A next \in {"returned", "parse_pai"} : \A step \in Tracked :
          Place(next) > Place(step) => Place("derived") > Place(step)
    BY Places DEF Tracked
  <2>2. Watched \cap LineMembers = {}
    BY DEF Watched, LineMembers
  <2>3. PICK next \in {"returned", "parse_pai"} : Stepped("derived", next, {"BAD_REQUEST"}, LineMembers)
    BY <1>0, <1>12, StepDerived
  <2> QED BY <2>1, <2>2, <2>3, SteppedField
<1>13. CASE ParsePai
  <2>1. \A step \in Tracked : Place("parse_ppi") > Place(step) => Place("parse_pai") > Place(step)
    BY Places DEF Tracked
  <2>2. Watched \cap {"pai_list"} = {}
    BY DEF Watched
  <2> QED BY <1>0, <1>13, <2>1, <2>2, StepPai, SteppedField
<1>14. CASE ParsePpi
  <2>1. \A step \in Tracked : Place("returned") > Place(step) => Place("parse_ppi") > Place(step)
    BY Places DEF Tracked
  <2>2. Watched \cap {"ppi_list"} = {}
    BY DEF Watched
  <2> QED BY <1>0, <1>14, <2>1, <2>2, StepPpi, SteppedField
<1> QED
  BY <1>1, <1>2, <1>3, <1>4, <1>5, <1>6, <1>7, <1>8, <1>9, <1>10, <1>11, <1>12, <1>13, <1>14
  DEF Next, parse_message, Returned

(* An accepted message has got past all of these steps.                    *)
LEMMA AcceptedReached ==
  ASSUME Accepted
  PROVE  \A step \in Tracked : Reached(step)
BY Places DEF Accepted, Reached, Tracked

(* The flags of an accepted message say what is listed in the header they  *)
(* are named for, in whatever lines and between whatever blanks.           *)
THEOREM FlagsCorrect == Spec => []FlagsExact
<1>1. FieldInv => FlagsExact
  <2> SUFFICES ASSUME FieldInv, Accepted
               PROVE  SupportedTaken /\ RequireTaken /\ AllowTaken
    BY DEF FlagsExact, SupportedTaken, RequireTaken, AllowTaken
  <2> QED BY AcceptedReached DEF FieldInv, Tracked
<1> QED BY ShapeInit, ShapeNext, FieldInit, FieldNext, <1>1, PTL DEF Spec

(* What is accepted announces nothing in a uint16_t, or the length of its  *)
(* body in it and a type that is supported; and what announces the length  *)
(* of its body is refused for it only if that does not fit.                *)
THEOREM ContentCorrect == Spec => []ContentAgrees
<1> DEFINE lengths   == get_header("Content-Length")
           announced == stoi(lengths[1])
<1>1. ShapeInv /\ FieldInv => ContentAgrees
  <2> SUFFICES ASSUME ShapeInv, FieldInv PROVE ContentAgrees
    OBVIOUS
  <2>1. ASSUME Accepted
        PROVE  /\ Len(lengths) = 1 /\ announced # NotANumber
               /\ uint16(announced) # 0 => /\ msg.body = uint16(announced)
                                           /\ "application/sdp" \in Items("Content-Type")
    <3>1. LengthTaken /\ TypeTaken /\ BodyTaken
      BY <2>1, AcceptedReached DEF FieldInv, Tracked
    <3> QED BY <3>1 DEF LengthTaken, TypeTaken, BodyTaken
  <2>2. ASSUME status = "LENGTH_REQUIRED", Len(lengths) = 1, announced = msg.body
        PROVE  msg.body >= Word /\ uint16(msg.body) # 0
    <3>1. msg.body \in Nat /\ Word \in Nat /\ Word # 0
      BY MessageParts, SIPParserAssumption DEF ShapeInv
    <3>2. uint16(msg.body) # msg.body /\ uint16(msg.body) # 0
      BY <2>2 DEF FieldInv, LengthRefused
    <3>3. msg.body < Word => msg.body % Word = msg.body
      BY <3>1
    <3> QED BY <3>1, <3>2, <3>3 DEF uint16
  <2> QED BY <2>1, <2>2 DEF ContentAgrees
<1> QED BY ShapeInit, ShapeNext, FieldInit, FieldNext, <1>1, PTL DEF Spec

-----------------------------------------------------------------------------
(* The parsing goes forward *)

LEMMA SteppedAdvances ==
  ASSUME ShapeInv, NEW here \in Steps, NEW next \in Steps, NEW codes, NEW members,
         Stepped(here, next, codes, members), Place(next) > Place(here), Place("returned") > Place(here)
  PROVE  Advances
<1>1. pc = here /\ pc' = IF status' = "OK" THEN next ELSE "returned"
  BY DEF Stepped
<1>2. Place(pc') > Place(pc)
  BY <1>1
<1> QED BY <1>2 DEF Advances

(* Without a blank at the end of a list every step goes forward: to a      *)
(* later step, a later line or a later item.                               *)
THEOREM GoesForward == Spec => ParsingAdvances
<1>1. ShapeInv /\ [Next]_vars => [NoBlankEnd => Advances]_vars
  <2> SUFFICES ASSUME ShapeInv, Next, vars' # vars, NoBlankEnd PROVE Advances
    OBVIOUS
  <2> USE DEF Steps
  <2>0. msg \in Message
    BY DEF ShapeInv
  <2>1. CASE ChooseClass
    BY <2>1, Places DEF ChooseClass, Advances
  <2>2. CASE Throw
    BY <2>2, Places DEF Throw, Advances
  <2>3. CASE ParseMessage
    BY <2>3, StepMessage, SteppedAdvances, Places
  <2>4. CASE ParseFrom
    BY <2>0, <2>4, StepFrom, SteppedAdvances, Places
  <2>5. CASE ParseTo
    BY <2>0, <2>5, StepTo, SteppedAdvances, Places
  <2>6. CASE ParseCSeq
    BY <2>0, <2>6, StepCSeq, SteppedAdvances, Places
  <2>7. CASE ParseVia
    BY <2>0, <2>7, StepVia, SteppedAdvances, Places
  <2>8. CASE ParseContact
    BY <2>0, <2>8, StepContact, SteppedAdvances, Places
  <2>9. CASE ParseContent
    <3>1. \E next \in {"Content-Type", "Supported"} :
            Stepped("parse_content", next, {"LENGTH_REQUIRED", "BAD_REQUEST"}, {"content_length", "has_content"})
      BY <2>9, StepContent
    <3> QED BY <3>1, SteppedAdvances, Places
  <2>10. CASE TakeItem
    <3> DEFINE items == get_header(pc)[at[1]]
               next  == NextItem(items, at[2])
    <3>1. /\ pc \in ListHeader /\ at[1] <= Len(get_header(pc)) /\ pc' = pc
          /\ at' = IF next = 0 THEN <<at[1] + 1, 1>> ELSE <<at[1], next>>
      BY <2>10 DEF TakeItem
    <3>2. at[1] \in Nat /\ at[1] >= 1 /\ at[2] \in DOMAIN items
      <4>1. at[1] \in Nat /\ at[1] >= 1
        BY DEF ShapeInv
      <4>2. pc \in ListHeader /\ at[1] <= Len(get_header(pc)) => at[2] \in DOMAIN items
        BY DEF ShapeInv, TypeOK
      <4> QED BY <3>1, <4>1, <4>2
    <3>3. at[1] \in DOMAIN get_header(pc)
      BY <3>1, <3>2, HeaderLines
    <3>4. Len(items) \in Nat /\ DOMAIN items = 1 .. Len(items)
      BY <2>0, <3>1, <3>3, ListPositions
    <3>5. items[Len(items)] # Blank
      <4>1. PICK i \in DOMAIN msg.lines : Found(i, pc) /\ items = msg.lines[i].value
        BY <2>0, <3>3, HeaderLines
      <4>2. msg.lines[i].name = pc
        BY <4>1 DEF Found
      <4> QED BY <3>1, <4>1, <4>2 DEF NoBlankEnd
    <3>6. next = 0 \/ (next = at[2] + 1 /\ at[2] \in Nat)
      BY <3>2, <3>4, <3>5 DEF NextItem
    <3> HIDE DEF next
    <3> QED BY <3>1, <3>2, <3>6 DEF Advances
  <2>11. CASE EndOfList
    <3>1. pc \in ListHeader /\ pc' = IF status' = "OK" THEN After(pc) ELSE "returned"
      BY <2>11, StepList
    <3>2. Place(pc') > Place(pc)
      BY <3>1, Places DEF ListHeader, After
    <3> QED BY <3>2 DEF Advances
  <2>12. CASE ParseSessionExpire
    BY <2>12, StepSessionExpire, SteppedAdvances, Places
  <2>13. CASE ParseSdp
    BY <2>13, StepSdp, SteppedAdvances, Places
  <2>14. CASE ParseDerived
    <3>1. \E next \in {"returned", "parse_pai"} : Stepped("derived", next, {"BAD_REQUEST"}, LineMembers)
      BY <2>0, <2>14, StepDerived
    <3> QED BY <3>1, SteppedAdvances, Places
  <2>15. CASE ParsePai
    BY <2>0, <2>15, StepPai, SteppedAdvances, Places
  <2>16. CASE ParsePpi
    BY <2>0, <2>16, StepPpi, SteppedAdvances, Places
  <2>17. CASE Returned
    BY <2>17 DEF Returned
  <2> QED
    BY <2>1, <2>2, <2>3, <2>4, <2>5, <2>6, <2>7, <2>8, <2>9, <2>10, <2>11, <2>12, <2>13, <2>14,
       <2>15, <2>16, <2>17 DEF Next, parse_message
<1> QED BY ShapeInit, ShapeNext, <1>1, PTL DEF Spec, ParsingAdvances

-----------------------------------------------------------------------------
(* The fields are the parts the values were written from *)

LEMMA SameValue == msg' = msg => \A name : the_value(name)' = the_value(name)
BY DEF the_value

(* The steps that cut members out of values, what the functions they call  *)
(* answer, and the members.                                                *)
Cutting == {"parse_from", "parse_to", "parse_cseq", "parse_via", "parse_contact",
            "parse_session_expire", "derived"}

Answer(step) ==
  CASE step = "parse_from"           -> parse_from(the_value("From"))
    [] step = "parse_to"             -> parse_to(the_value("To"))
    [] step = "parse_cseq"           -> parse_cseq(the_value("CSeq"))
    [] step = "parse_via"            -> parse_via(get_header("Via"))
    [] step = "parse_contact"        -> parse_contact(get_header("Contact"))
    [] step = "parse_session_expire" -> session_expires(get_header("Session-Expires"))
    [] step = "derived"              -> parse_request_line(msg.line)

Members(step) ==
  CASE step = "parse_from"           -> FromMembers
    [] step = "parse_to"             -> ToMembers
    [] step = "parse_cseq"           -> CSeqMembers
    [] step = "parse_via"            -> {"via_list"}
    [] step = "parse_contact"        -> ContactMembers
    [] step = "parse_session_expire" -> TimerMembers
    [] step = "derived"              -> LineMembers

(* The members have the values of this answer.                             *)
Taken(answer) ==
  /\ answer.status = "OK"
  /\ DOMAIN answer.fields \subseteq DOMAIN fields
  /\ \A f \in DOMAIN answer.fields : fields[f] = answer.fields[f]

(* Of a response, the last of these steps is another one.                  *)
TakenAt(step) ==
  Reached(step) /\ (step = "derived" => cls = "SIPRequest") => Taken(Answer(step))

PaiTaken ==
  LET found == identities(get_header("P-Asserted-Identity"))
  IN  "pai_list" \in DOMAIN fields => found.status = "OK" /\ fields.pai_list = found.list

(* The inductive invariant: the answer each step has got is in the members *)
(* still.                                                                  *)
AnswerInv == (\A step \in Cutting : TakenAt(step)) /\ PaiTaken

LEMMA SameAnswer ==
  ASSUME msg' = msg, NEW step \in Cutting
  PROVE  Answer(step)' = Answer(step)
<1>1. /\ \A name : the_value(name)' = the_value(name)
      /\ \A name : get_header(name)' = get_header(name)
  BY SameValue, SameMessage
<1>2. /\ parse_from(the_value("From"))' = parse_from(the_value("From"))
      /\ parse_to(the_value("To"))' = parse_to(the_value("To"))
      /\ parse_cseq(the_value("CSeq"))' = parse_cseq(the_value("CSeq"))
      /\ parse_via(get_header("Via"))' = parse_via(get_header("Via"))
      /\ parse_contact(get_header("Contact"))' = parse_contact(get_header("Contact"))
      /\ session_expires(get_header("Session-Expires"))' = session_expires(get_header("Session-Expires"))
      /\ parse_request_line(msg.line)' = parse_request_line(msg.line)
  BY <1>1
<1> QED BY <1>2 DEF Answer, Cutting

(* An answer assigns the members of its step, no others.                   *)
LEMMA AnswerMembers ==
  ASSUME msg \in Message, NEW step \in Cutting
  PROVE  DOMAIN Answer(step).fields \subseteq Members(step)
<1>1. CASE step = "parse_from"
  BY <1>1, LastValue, FromSound, Zenon DEF Answer, Members, Sound, FromMembers
<1>2. CASE step = "parse_to"
  BY <1>2, LastValue, ToSound, Zenon DEF Answer, Members, Sound, ToMembers
<1>3. CASE step = "parse_cseq"
  BY <1>3, LastValue, CSeqSound, Zenon DEF Answer, Members, Sound, CSeqMembers
<1>4. CASE step = "parse_via"
  <2>1. \A i \in DOMAIN get_header("Via") : IsValue(get_header("Via")[i])
    BY HeaderValues
  <2> QED BY <1>4, <2>1, ViaSound DEF Answer, Members
<1>5. CASE step = "parse_contact"
  BY <1>5, ContactAnswer, Zenon DEF Answer, Members, Sound
<1>6. CASE step = "parse_session_expire"
  BY <1>6, SessionAnswer DEF Answer, Members, TimerMembers
<1>7. CASE step = "derived"
  BY <1>7, MessageParts, RequestLineSound DEF Answer, Members, Sound, LineMembers
<1> QED BY <1>1, <1>2, <1>3, <1>4, <1>5, <1>6, <1>7 DEF Cutting

(* A step that assigns other members keeps them.                           *)
LEMMA AnswerKept ==
  ASSUME msg \in Message, NEW step \in Cutting, TakenAt(step), NEW members, msg' = msg,
         step = "derived" => cls' = cls,
         DOMAIN fields \subseteq DOMAIN fields',
         \A f \in DOMAIN fields \ members : fields'[f] = fields[f],
         members \cap Members(step) = {}, Reached(step)' => Reached(step)
  PROVE  TakenAt(step)'
<1> SUFFICES ASSUME Reached(step)', step = "derived" => cls' = "SIPRequest"
             PROVE  Taken(Answer(step))'
  BY DEF TakenAt
<1> DEFINE answer == Answer(step)
<1>1. Taken(answer) /\ answer' = answer /\ DOMAIN answer.fields \subseteq Members(step)
  BY SameAnswer, AnswerMembers DEF TakenAt
<1> HIDE DEF answer
<1>2. Taken(answer)'
  BY <1>1 DEF Taken
<1> QED BY <1>2 DEF answer

LEMMA PaiKept ==
  ASSUME PaiTaken, NEW members, msg' = msg, "pai_list" \notin members,
         DOMAIN fields \subseteq DOMAIN fields', DOMAIN fields' \subseteq DOMAIN fields \cup members,
         \A f \in DOMAIN fields \ members : fields'[f] = fields[f]
  PROVE  PaiTaken'
<1> DEFINE list == get_header("P-Asserted-Identity")
           found == identities(list)
<1>1. list' = list
  BY SameMessage
<1>2. found' = found
  BY <1>1
<1>3. "pai_list" \in DOMAIN fields' => "pai_list" \in DOMAIN fields /\ fields'.pai_list = fields.pai_list
  OBVIOUS
<1>4. "pai_list" \in DOMAIN fields => found.status = "OK" /\ fields.pai_list = found.list
  BY DEF PaiTaken
<1> HIDE DEF found
<1>5. "pai_list" \in DOMAIN fields' => found'.status = "OK" /\ fields'.pai_list = found'.list
  BY <1>2, <1>3, <1>4
<1> QED BY <1>5 DEF PaiTaken, found

(* A step that ends with an answer has taken it over.                      *)
LEMMA AnswerTaken ==
  ASSUME NEW here, NEW STATE next, NEW STATE answer, Ends(here, answer, next)
  PROVE  status' = "OK" => /\ answer.status = "OK" /\ DOMAIN answer.fields \subseteq DOMAIN fields'
                           /\ \A f \in DOMAIN answer.fields : fields'[f] = answer.fields[f]
<1> DEFINE new == answer.fields
<1>1. status' = answer.status /\ fields' = Assigned(new, fields)
  BY DEF Ends
<1> HIDE DEF new
<1>2. DOMAIN new \subseteq DOMAIN fields' /\ \A f \in DOMAIN new : fields'[f] = new[f]
  BY <1>1 DEF Assigned
<1> QED BY <1>1, <1>2 DEF new

(* A step of the constructors: it may leave its own answer, and it leaves  *)
(* those of the others.                                                    *)
LEMMA SteppedAnswer ==
  ASSUME ShapeInv, AnswerInv, NEW here \in Steps \ {"returned", "thrown"}, NEW next, NEW codes, NEW members,
         Stepped(here, next, codes, members),
         \A step \in Cutting \ {here} :
           /\ members \cap Members(step) = {}
           /\ Place(next) > Place(step) => Place(here) > Place(step),
         here \in Cutting => (status' = "OK" => TakenAt(here)'),
         "pai_list" \notin members
  PROVE  AnswerInv'
<1>1. /\ pc = here /\ pc' = (IF status' = "OK" THEN next ELSE "returned")
      /\ msg' = msg /\ cls' = cls
      /\ DOMAIN fields \subseteq DOMAIN fields' /\ DOMAIN fields' \subseteq DOMAIN fields \cup members
      /\ \A f \in DOMAIN fields \ members : fields'[f] = fields[f]
  BY DEF Stepped
<1>2. status = "OK" /\ msg \in Message
  BY <1>1 DEF ShapeInv
<1>3. ASSUME NEW step \in Cutting PROVE TakenAt(step)'
  <2>1. CASE status' # "OK"
    BY <2>1 DEF TakenAt, Reached
  <2>2. CASE status' = "OK" /\ step = here
    BY <2>2
  <2>3. CASE status' = "OK" /\ step # here
    <3>1. Reached(step)' => Reached(step)
      BY <1>1, <1>2, <2>3 DEF Reached
    <3>2. TakenAt(step) /\ members \cap Members(step) = {}
      BY <2>3 DEF AnswerInv
    <3> QED BY <1>1, <1>2, <3>1, <3>2, AnswerKept
  <2> QED BY <2>1, <2>2, <2>3
<1>4. PaiTaken'
  BY <1>1, PaiKept DEF AnswerInv
<1> QED BY <1>3, <1>4 DEF AnswerInv

LEMMA OtherMembers ==
  ASSUME NEW here \in Cutting, NEW step \in Cutting, step # here
  PROVE  Members(here) \cap Members(step) = {}
BY DEF Cutting, Members, FromMembers, ToMembers, CSeqMembers, ContactMembers, TimerMembers, LineMembers

AnswerMember == UNION {Members(step) : step \in Cutting}

LEMMA AnswerMemberIs ==
  AnswerMember = FromMembers \cup ToMembers \cup CSeqMembers \cup {"via_list"} \cup ContactMembers
                   \cup TimerMembers \cup LineMembers
<1>1. /\ Members("parse_from") = FromMembers /\ Members("parse_to") = ToMembers
      /\ Members("parse_cseq") = CSeqMembers /\ Members("parse_via") = {"via_list"}
      /\ Members("parse_contact") = ContactMembers
      /\ Members("parse_session_expire") = TimerMembers /\ Members("derived") = LineMembers
  BY DEF Members
<1>2. \A f : f \in AnswerMember <=> \E step \in Cutting : f \in Members(step)
  BY DEF AnswerMember
<1>3. \A f : f \in AnswerMember <=>
        f \in FromMembers \cup ToMembers \cup CSeqMembers \cup {"via_list"} \cup ContactMembers
                   \cup TimerMembers \cup LineMembers
  BY <1>1, <1>2 DEF Cutting
<1> QED BY <1>3

(* A step of the constructors that is none of these.                       *)
LEMMA SteppedOther ==
  ASSUME ShapeInv, AnswerInv, NEW here \in Steps \ {"returned", "thrown"}, here \notin Cutting,
         NEW next, NEW codes, NEW members, Stepped(here, next, codes, members),
         AnswerMember \cap members = {}, "pai_list" \notin members,
         \A step \in Cutting : Place(next) > Place(step) => Place(here) > Place(step)
  PROVE  AnswerInv'
<1>1. \A step \in Cutting : members \cap Members(step) = {}
  BY DEF AnswerMember
<1> QED BY <1>1, SteppedAnswer

(* One of these, with the answer it takes over.                            *)
LEMMA SteppedCutting ==
  ASSUME ShapeInv, AnswerInv, NEW here \in Cutting, NEW next, NEW codes,
         Stepped(here, next, codes, Members(here)),
         \A step \in Cutting \ {here} : Place(next) > Place(step) => Place(here) > Place(step),
         status' = "OK" /\ (here = "derived" => cls = "SIPRequest") => Taken(Answer(here))'
  PROVE  AnswerInv'
<1>1. here \in Steps \ {"returned", "thrown"}
  BY DEF Cutting, Steps
<1>2. \A step \in Cutting \ {here} : Members(here) \cap Members(step) = {}
  BY OtherMembers
<1>3. "pai_list" \notin Members(here)
  BY DEF Cutting, Members, FromMembers, ToMembers, CSeqMembers, ContactMembers, TimerMembers, LineMembers
<1>4. status' = "OK" => TakenAt(here)'
  BY DEF TakenAt, Stepped
<1> QED BY <1>1, <1>2, <1>3, <1>4, SteppedAnswer

LEMMA AnswerInit == Init => AnswerInv
<1> SUFFICES ASSUME Init PROVE AnswerInv
  OBVIOUS
<1>1. \A step \in Cutting : ~Reached(step)
  <2>1. pc \in {"is_response", "SIPMessage"}
    BY DEF Init
  <2> QED BY <2>1, Places DEF Reached, Cutting
<1>2. PaiTaken
  <2>1. DOMAIN fields = {}
    BY DEF Init
  <2> QED BY <2>1 DEF PaiTaken
<1> QED BY <1>1, <1>2 DEF AnswerInv, TakenAt

(* The answer is the whole of what the step at "here" ends with.           *)
LEMMA CuttingEnds ==
  ASSUME msg \in Message, NEW here \in Cutting, NEW STATE next, Ends(here, Answer(here), next)
  PROVE  status' = "OK" => Taken(Answer(here))'
<1>1. Answer(here)' = Answer(here)
  BY SameAnswer DEF Ends
<1> DEFINE answer == Answer(here)
<1>2. Ends(here, answer, next) /\ answer' = answer
  BY <1>1
<1> HIDE DEF answer
<1>3. status' = "OK" => Taken(answer)'
  <2>1. status' = "OK" => /\ answer.status = "OK" /\ DOMAIN answer.fields \subseteq DOMAIN fields'
                          /\ \A f \in DOMAIN answer.fields : fields'[f] = answer.fields[f]
    BY <1>2, AnswerTaken
  <2> QED BY <1>2, <2>1 DEF Taken
<1> QED BY <1>3 DEF answer

LEMMA SessionTaken ==
  ASSUME msg \in Message, ParseSessionExpire
  PROVE  status' = "OK" => Taken(Answer("parse_session_expire"))'
<1> DEFINE first  == min_se(get_header("Min-SE"))
           second == session_expires(get_header("Session-Expires"))
           result == IF first.status # "OK" THEN first
                     ELSE [second EXCEPT !.fields = Assigned(@, first.fields)]
           answer == Answer("parse_session_expire")
<1>1. Ends("parse_session_expire", result, "sdp")
  BY DEF ParseSessionExpire
<1>2. second = [status |-> second.status, fields |-> second.fields]
  BY SessionAnswer
<1>3. answer = second
  BY DEF Answer
<1>4. answer' = answer
  <2>1. msg' = msg
    BY <1>1 DEF Ends
  <2> QED BY <2>1, SameAnswer DEF Cutting
<1> HIDE DEF answer, second, first
<1>5. CASE first.status # "OK"
  <2>1. status' # "OK"
    BY <1>1, <1>5 DEF Ends
  <2> QED BY <2>1 DEF answer
<1>6. CASE first.status = "OK"
  <2>1. result = [second EXCEPT !.fields = Assigned(@, first.fields)]
    BY <1>6
  <2>2. result.status = second.status /\ result.fields = Assigned(second.fields, first.fields)
    BY <1>2, <2>1
  <2> HIDE DEF result
  <2>3. /\ DOMAIN second.fields \subseteq DOMAIN result.fields
        /\ \A f \in DOMAIN second.fields : result.fields[f] = second.fields[f]
    <3> DEFINE new == second.fields
    <3>1. result.fields = Assigned(new, first.fields)
      BY <2>2
    <3> HIDE DEF new
    <3>2. DOMAIN new \subseteq DOMAIN result.fields /\ \A f \in DOMAIN new : result.fields[f] = new[f]
      BY <3>1 DEF Assigned
    <3> QED BY <3>2 DEF new
  <2>4. status' = "OK" => /\ second.status = "OK" /\ DOMAIN second.fields \subseteq DOMAIN fields'
                          /\ \A f \in DOMAIN second.fields : fields'[f] = second.fields[f]
    <3> DEFINE new == result.fields
    <3>1. status' = second.status /\ fields' = Assigned(new, fields)
      BY <1>1, <2>2 DEF Ends
    <3>2. DOMAIN second.fields \subseteq DOMAIN new /\ \A f \in DOMAIN second.fields : new[f] = second.fields[f]
      BY <2>3
    <3> HIDE DEF new
    <3>3. DOMAIN new \subseteq DOMAIN fields' /\ \A f \in DOMAIN new : fields'[f] = new[f]
      BY <3>1 DEF Assigned
    <3> QED BY <3>1, <3>2, <3>3
  <2>5. status' = "OK" => Taken(answer)'
    BY <1>3, <1>4, <2>4 DEF Taken
  <2> QED BY <2>5 DEF answer
<1> QED BY <1>5, <1>6

LEMMA PaiDone ==
  ASSUME msg \in Message, PaiTaken, ParsePai
  PROVE  PaiTaken'
<1> DEFINE list == get_header("P-Asserted-Identity")
           found == identities(list)
           result == IF found.status = "OK" THEN Accept([pai_list |-> found.list]) ELSE Reject(found.status)
<1>1. Ends("parse_pai", result, "parse_ppi")
  BY DEF ParsePai
<1>2. found' = found
  <2>1. list' = list
    BY <1>1, SameMessage DEF Ends
  <2> QED BY <2>1
<1>3. "pai_list" \in DOMAIN fields => found.status = "OK" /\ fields.pai_list = found.list
  BY DEF PaiTaken
<1> HIDE DEF found
<1>4. fields' = Assigned(result.fields, fields)
  BY <1>1 DEF Ends
<1>5. CASE found.status = "OK"
  <2> DEFINE new == [pai_list |-> found.list]
  <2>1. fields' = Assigned(new, fields)
    BY <1>4, <1>5 DEF Accept
  <2>2. "pai_list" \in DOMAIN new /\ new.pai_list = found.list
    OBVIOUS
  <2> HIDE DEF new
  <2>3. fields'.pai_list = found.list
    BY <2>1, <2>2 DEF Assigned
  <2>4. "pai_list" \in DOMAIN fields' => found'.status = "OK" /\ fields'.pai_list = found'.list
    BY <1>2, <1>5, <2>3
  <2> QED BY <2>4 DEF PaiTaken, found
<1>6. CASE found.status # "OK"
  <2> DEFINE new == <<>>
  <2>1. fields' = Assigned(new, fields)
    BY <1>4, <1>6 DEF Reject
  <2>2. DOMAIN new = {}
    OBVIOUS
  <2> HIDE DEF new
  <2>3. DOMAIN fields' = DOMAIN fields /\ \A f \in DOMAIN fields : fields'[f] = fields[f]
    BY <2>1, <2>2 DEF Assigned
  <2>4. "pai_list" \in DOMAIN fields' => found'.status = "OK" /\ fields'.pai_list = found'.list
    BY <1>2, <1>3, <2>3
  <2> QED BY <2>4 DEF PaiTaken, found
<1> QED BY <1>5, <1>6

(* The identities are not among what these steps cut, nor the other way.   *)
LEMMA PaiStep ==
  ASSUME ShapeInv, AnswerInv, ParsePai
  PROVE  AnswerInv'
<1>1. Stepped("parse_pai", "parse_ppi", {"UNSUPPORTED_URI_SCHEME"}, {"pai_list"}) /\ msg \in Message
  BY StepPai DEF ShapeInv
<1>2. /\ pc = "parse_pai" /\ msg' = msg /\ cls' = cls /\ DOMAIN fields \subseteq DOMAIN fields'
      /\ \A f \in DOMAIN fields \ {"pai_list"} : fields'[f] = fields[f]
  BY <1>1 DEF Stepped
<1>3. ASSUME NEW step \in Cutting PROVE TakenAt(step)'
  <2>1. {"pai_list"} \cap Members(step) = {}
    BY DEF Cutting, Members, FromMembers, ToMembers, CSeqMembers, ContactMembers, TimerMembers, LineMembers
  <2>2. status = "OK" /\ Reached(step)
    BY <1>2, Places DEF ShapeInv, Reached, Cutting
  <2>3. TakenAt(step)
    BY DEF AnswerInv
  <2> QED BY <1>1, <1>2, <2>1, <2>2, <2>3, AnswerKept
<1>4. PaiTaken'
  BY <1>1, PaiDone DEF AnswerInv
<1> QED BY <1>3, <1>4 DEF AnswerInv

LEMMA AnswerNext == ShapeInv /\ AnswerInv /\ [Next]_vars => AnswerInv'
<1> SUFFICES ASSUME ShapeInv, AnswerInv, [Next]_vars PROVE AnswerInv'
  OBVIOUS
<1>0. msg \in Message /\ (pc # "returned" => status = "OK")
  BY DEF ShapeInv
<1>1. CASE ChooseClass \/ Throw \/ TakeItem \/ UNCHANGED vars
  <2> DEFINE members == {}
  <2>1. /\ msg' = msg /\ fields' = fields /\ status' = status
        /\ \/ pc' = pc /\ cls' = cls
           \/ pc = "is_response" /\ pc' = "SIPMessage"
           \/ pc = "SIPMessage" /\ pc' = "thrown"
    BY <1>1 DEF ChooseClass, Throw, TakeItem, vars
  <2>2. \A step \in Cutting : Reached(step)' => Reached(step) /\ cls' = cls
    BY <2>1, Places DEF Reached, Cutting
  <2>3. ASSUME NEW step \in Cutting PROVE TakenAt(step)'
    <3>1. CASE Reached(step)'
      <4>1. TakenAt(step) /\ cls' = cls /\ Reached(step)
        BY <2>2, <3>1 DEF AnswerInv
      <4>2. members \cap Members(step) = {} /\ \A f \in DOMAIN fields \ members : fields'[f] = fields[f]
        BY <2>1
      <4> HIDE DEF members
      <4> QED BY <1>0, <2>1, <4>1, <4>2, AnswerKept
    <3>2. CASE ~Reached(step)'
      BY <3>2 DEF TakenAt
    <3> QED BY <3>1, <3>2
  <2>4. PaiTaken'
    <3>1. /\ "pai_list" \notin members /\ DOMAIN fields \subseteq DOMAIN fields'
          /\ DOMAIN fields' \subseteq DOMAIN fields \cup members
          /\ \A f \in DOMAIN fields \ members : fields'[f] = fields[f]
      BY <2>1
    <3> HIDE DEF members
    <3> QED BY <2>1, <3>1, PaiKept DEF AnswerInv
  <2> QED BY <2>3, <2>4 DEF AnswerInv
<1>2. CASE ParseMessage
  <2>1. \A step \in Cutting : Place("parse_from") > Place(step) => Place("SIPMessage") > Place(step)
    BY Places DEF Cutting
  <2>2. AnswerMember \cap {"call_id"} = {} /\ "pai_list" \notin {"call_id"}
    BY AnswerMemberIs DEF FromMembers, ToMembers, CSeqMembers, ContactMembers, TimerMembers, LineMembers
  <2>3. Stepped("SIPMessage", "parse_from", {"BAD_REQUEST"}, {"call_id"})
    BY <1>0, <1>2, StepMessage
  <2>4. "SIPMessage" \in Steps \ {"returned", "thrown"} /\ "SIPMessage" \notin Cutting
    BY DEF Steps, Cutting
  <2> QED BY <2>1, <2>2, <2>3, <2>4, SteppedOther
<1>3. CASE ParseFrom
  <2>1. \A step \in Cutting \ {"parse_from"} : Place("parse_to") > Place(step) => Place("parse_from") > Place(step)
    BY Places DEF Cutting
  <2>2. "parse_from" \in Cutting /\ Members("parse_from") = FromMembers
    BY DEF Cutting, Members
  <2>3. Stepped("parse_from", "parse_to", {"BAD_REQUEST"}, Members("parse_from"))
    BY <1>0, <1>3, <2>2, StepFrom
  <2>4. status' = "OK" => Taken(Answer("parse_from"))'
    <3>1. Ends("parse_from", Answer("parse_from"), "parse_to")
      BY <1>3, Zenon DEF ParseFrom, Answer
    <3> QED BY <1>0, <2>2, <3>1, CuttingEnds
  <2> QED BY <2>1, <2>2, <2>3, <2>4, SteppedCutting
<1>4. CASE ParseTo
  <2>1. \A step \in Cutting \ {"parse_to"} : Place("parse_cseq") > Place(step) => Place("parse_to") > Place(step)
    BY Places DEF Cutting
  <2>2. "parse_to" \in Cutting /\ Members("parse_to") = ToMembers
    BY DEF Cutting, Members
  <2>3. Stepped("parse_to", "parse_cseq", {"BAD_REQUEST"}, Members("parse_to"))
    BY <1>0, <1>4, <2>2, StepTo
  <2>4. status' = "OK" => Taken(Answer("parse_to"))'
    <3>1. Ends("parse_to", Answer("parse_to"), "parse_cseq")
      BY <1>4, Zenon DEF ParseTo, Answer
    <3> QED BY <1>0, <2>2, <3>1, CuttingEnds
  <2> QED BY <2>1, <2>2, <2>3, <2>4, SteppedCutting
<1>5. CASE ParseCSeq
  <2>1. \A step \in Cutting \ {"parse_cseq"} : Place("parse_via") > Place(step) => Place("parse_cseq") > Place(step)
    BY Places DEF Cutting
  <2>2. "parse_cseq" \in Cutting /\ Members("parse_cseq") = CSeqMembers
    BY DEF Cutting, Members
  <2>3. Stepped("parse_cseq", "parse_via", {"BAD_REQUEST"}, Members("parse_cseq"))
    BY <1>0, <1>5, <2>2, StepCSeq
  <2>4. status' = "OK" => Taken(Answer("parse_cseq"))'
    <3>1. Ends("parse_cseq", Answer("parse_cseq"), "parse_via")
      BY <1>5, Zenon DEF ParseCSeq, Answer
    <3> QED BY <1>0, <2>2, <3>1, CuttingEnds
  <2> QED BY <2>1, <2>2, <2>3, <2>4, SteppedCutting
<1>6. CASE ParseVia
  <2>1. \A step \in Cutting \ {"parse_via"} : Place("parse_contact") > Place(step) => Place("parse_via") > Place(step)
    BY Places DEF Cutting
  <2>2. "parse_via" \in Cutting /\ Members("parse_via") = {"via_list"}
    BY DEF Cutting, Members
  <2>3. Stepped("parse_via", "parse_contact", {"BAD_REQUEST"}, Members("parse_via"))
    BY <1>0, <1>6, <2>2, StepVia
  <2>4. status' = "OK" => Taken(Answer("parse_via"))'
    <3>1. Ends("parse_via", Answer("parse_via"), "parse_contact")
      BY <1>6, Zenon DEF ParseVia, Answer
    <3> QED BY <1>0, <2>2, <3>1, CuttingEnds
  <2> QED BY <2>1, <2>2, <2>3, <2>4, SteppedCutting
<1>7. CASE ParseContact
  <2>1. \A step \in Cutting \ {"parse_contact"} : Place("parse_content") > Place(step) => Place("parse_contact") > Place(step)
    BY Places DEF Cutting
  <2>2. "parse_contact" \in Cutting /\ Members("parse_contact") = ContactMembers
    BY DEF Cutting, Members
  <2>3. Stepped("parse_contact", "parse_content", {"BAD_REQUEST"}, Members("parse_contact"))
    BY <1>0, <1>7, <2>2, StepContact
  <2>4. status' = "OK" => Taken(Answer("parse_contact"))'
    <3>1. Ends("parse_contact", Answer("parse_contact"), "parse_content")
      BY <1>7, Zenon DEF ParseContact, Answer
    <3> QED BY <1>0, <2>2, <3>1, CuttingEnds
  <2> QED BY <2>1, <2>2, <2>3, <2>4, SteppedCutting
<1>8. CASE ParseContent
  <2> DEFINE members == {"content_length", "has_content"}
  <2>1. \A next \in {"Content-Type", "Supported"} : \A step \in Cutting :
          Place(next) > Place(step) => Place("parse_content") > Place(step)
    BY Places DEF Cutting
  <2>2. AnswerMember \cap members = {} /\ "pai_list" \notin members
    BY AnswerMemberIs DEF FromMembers, ToMembers, CSeqMembers, ContactMembers, TimerMembers, LineMembers
  <2>3. PICK next \in {"Content-Type", "Supported"} :
          Stepped("parse_content", next, {"LENGTH_REQUIRED", "BAD_REQUEST"}, members)
    BY <1>8, StepContent
  <2>4. "parse_content" \in Steps \ {"returned", "thrown"} /\ "parse_content" \notin Cutting
    BY DEF Steps, Cutting
  <2> HIDE DEF members
  <2> QED BY <2>1, <2>2, <2>3, <2>4, SteppedOther
<1>9. CASE EndOfList
  <2> DEFINE members == ListMembers(pc)
  <2>1. /\ pc \in ListHeader /\ msg' = msg /\ cls' = cls
        /\ pc' = (IF status' = "OK" THEN After(pc) ELSE "returned")
        /\ DOMAIN fields \subseteq DOMAIN fields' /\ DOMAIN fields' \subseteq DOMAIN fields \cup members
        /\ \A f \in DOMAIN fields \ members : fields'[f] = fields[f]
    BY <1>9, StepList
  <2>2. AnswerMember \cap members = {} /\ "pai_list" \notin members
    BY <2>1, AnswerMemberIs
    DEF ListHeader, ListMembers, FromMembers, ToMembers, CSeqMembers, ContactMembers, TimerMembers, LineMembers
  <2>3. \A step \in Cutting : Reached(step)' => Reached(step)
    <3>1. \A step \in Cutting : Place(After(pc)) > Place(step) => Place(pc) > Place(step)
      BY <2>1, Places DEF ListHeader, After, Cutting
    <3>2. status = "OK" /\ pc # "thrown"
      BY <1>0, <2>1 DEF ListHeader
    <3> QED BY <2>1, <3>1, <3>2 DEF Reached
  <2> HIDE DEF members
  <2>4. ASSUME NEW step \in Cutting PROVE TakenAt(step)'
    <3>1. members \cap Members(step) = {}
      BY <2>2 DEF AnswerMember
    <3>2. TakenAt(step)
      BY DEF AnswerInv
    <3> QED BY <1>0, <2>1, <2>3, <3>1, <3>2, AnswerKept
  <2>5. PaiTaken'
    BY <2>1, <2>2, PaiKept DEF AnswerInv
  <2> QED BY <2>4, <2>5 DEF AnswerInv
<1>10. CASE ParseSessionExpire
  <2>1. \A step \in Cutting \ {"parse_session_expire"} : Place("sdp") > Place(step) => Place("parse_session_expire") > Place(step)
    BY Places DEF Cutting
  <2>2. "parse_session_expire" \in Cutting /\ Members("parse_session_expire") = TimerMembers
    BY DEF Cutting, Members
  <2>3. Stepped("parse_session_expire", "sdp", {"BAD_REQUEST"}, Members("parse_session_expire"))
    BY <1>0, <1>10, <2>2, StepSessionExpire
  <2>4. status' = "OK" => Taken(Answer("parse_session_expire"))'
    BY <1>0, <1>10, SessionTaken
  <2> QED BY <2>1, <2>2, <2>3, <2>4, SteppedCutting
<1>11. CASE ParseSdp
  <2>1. \A step \in Cutting : Place("derived") > Place(step) => Place("sdp") > Place(step)
    BY Places DEF Cutting
  <2>2. AnswerMember \cap {} = {} /\ "pai_list" \notin {}
    BY AnswerMemberIs DEF FromMembers, ToMembers, CSeqMembers, ContactMembers, TimerMembers, LineMembers
  <2>3. Stepped("sdp", "derived", {"LENGTH_REQUIRED"}, {})
    BY <1>0, <1>11, StepSdp
  <2>4. "sdp" \in Steps \ {"returned", "thrown"} /\ "sdp" \notin Cutting
    BY DEF Steps, Cutting
  <2> QED BY <2>1, <2>2, <2>3, <2>4, SteppedOther
<1>12. CASE ParseDerived
  <2>1. \A next \in {"returned", "parse_pai"} : \A step \in Cutting \ {"derived"} :
          Place(next) > Place(step) => Place("derived") > Place(step)
    BY Places DEF Cutting
  <2>2. "derived" \in Cutting /\ Members("derived") = LineMembers
    BY DEF Cutting, Members
  <2>3. PICK next \in {"returned", "parse_pai"} : Stepped("derived", next, {"BAD_REQUEST"}, Members("derived"))
    BY <1>0, <1>12, <2>2, StepDerived
  <2>4. status' = "OK" /\ cls = "SIPRequest" => Taken(Answer("derived"))'
    <3> SUFFICES ASSUME cls = "SIPRequest" PROVE status' = "OK" => Taken(Answer("derived"))'
      OBVIOUS
    <3> DEFINE result == parse_request_line(msg.line)
               to == IF result.status = "OK" /\ parse_method_enum(result.fields.method) = "INVITE"
                       THEN "parse_pai" ELSE "returned"
    <3>1. Ends("derived", result, to)
      BY <1>12 DEF ParseDerived
    <3>2. result = Answer("derived")
      BY DEF Answer
    <3> HIDE DEF result, to
    <3> QED BY <1>0, <2>2, <3>1, <3>2, CuttingEnds
  <2> QED BY <2>1, <2>2, <2>3, <2>4, SteppedCutting
<1>13. CASE ParsePai
  BY <1>13, PaiStep
<1>14. CASE ParsePpi
  <2>1. \A step \in Cutting : Place("returned") > Place(step) => Place("parse_ppi") > Place(step)
    BY Places DEF Cutting
  <2>2. AnswerMember \cap {"ppi_list"} = {} /\ "pai_list" \notin {"ppi_list"}
    BY AnswerMemberIs DEF FromMembers, ToMembers, CSeqMembers, ContactMembers, TimerMembers, LineMembers
  <2>3. Stepped("parse_ppi", "returned", {"UNSUPPORTED_URI_SCHEME"}, {"ppi_list"})
    BY <1>0, <1>14, StepPpi
  <2>4. "parse_ppi" \in Steps \ {"returned", "thrown"} /\ "parse_ppi" \notin Cutting
    BY DEF Steps, Cutting
  <2> QED BY <2>1, <2>2, <2>3, <2>4, SteppedOther
<1> QED
  BY <1>1, <1>2, <1>3, <1>4, <1>5, <1>6, <1>7, <1>8, <1>9, <1>10, <1>11, <1>12, <1>13, <1>14
  DEF Next, parse_message, Returned

-----------------------------------------------------------------------------
(* Accepted messages *)

(* A text is made of tokens none of which is a separator.                  *)
LEMMA Texts ==
  ASSUME NEW text \in Text
  PROVE  text \in Seq(Token) /\ Free(text, Literal)
<1>1. text \in Seq(STRING) /\ \A i \in DOMAIN text : text[i] \notin Literal
  BY SIPParserAssumption
<1>2. text \in Seq(Token)
  BY <1>1, Strings
<1> QED BY <1>1, <1>2 DEF Free

(* A host with a parameter behind it, as it may stand in brackets.         *)
HostParam(h, p) == h \o <<Semicolon>> \o p

LEMMA HostParamTokens ==
  ASSUME NEW h \in Text, NEW p \in Text
  PROVE  HostParam(h, p) \in Seq(Token) /\ Free(HostParam(h, p), Literal \ {Semicolon})
<1> DEFINE s == h \o <<Semicolon>>
           L == Literal \ {Semicolon}
<1>1. /\ h \in Seq(Token) /\ Len(h) \in Nat /\ DOMAIN h = 1 .. Len(h)
      /\ p \in Seq(Token) /\ Len(p) \in Nat /\ DOMAIN p = 1 .. Len(p)
  BY Texts
<1>2. \A i \in DOMAIN h : h[i] \notin L
  BY Texts DEF Free
<1>3. \A i \in DOMAIN p : p[i] \notin L
  BY Texts DEF Free
<1>4. Semicolon \in Token /\ Semicolon \notin L
  BY Separators, LiteralMembers
<1> HIDE DEF L
<1>5. s \in Seq(Token) /\ Len(s) = Len(h) + 1 /\ DOMAIN s = 1 .. Len(s)
  BY <1>1, <1>4
<1>6. \A i \in DOMAIN s : s[i] \notin L
  <2> TAKE i \in DOMAIN s
  <2>1. CASE i \in DOMAIN h
    <3>1. s[i] = h[i]
      BY <1>1, <1>4, <2>1
    <3> QED BY <1>2, <2>1, <3>1
  <2>2. CASE i = Len(h) + 1
    <3>1. s[i] = Semicolon
      BY <1>1, <1>4, <2>2
    <3> QED BY <1>4, <3>1
  <2> QED BY <1>1, <1>5, <2>1, <2>2
<1> HIDE DEF s
<1>7. s \o p \in Seq(Token) /\ DOMAIN (s \o p) = 1 .. Len(s) + Len(p)
  BY <1>1, <1>5
<1>8. \A i \in DOMAIN (s \o p) : (s \o p)[i] \notin L
  <2> TAKE i \in DOMAIN (s \o p)
  <2>1. CASE i \in DOMAIN s
    <3>1. (s \o p)[i] = s[i]
      BY <1>1, <1>5, <2>1
    <3> QED BY <1>6, <2>1, <3>1
  <2>2. CASE i \notin DOMAIN s
    <3>1. i - Len(s) \in DOMAIN p /\ (s \o p)[i] = p[i - Len(s)]
      BY <1>1, <1>5, <1>7, <2>2
    <3> QED BY <1>3, <3>1
  <2> QED BY <2>1, <2>2
<1> QED BY <1>7, <1>8 DEF HostParam, Free, s, L

(* The last line of a name is the one its value is taken from.             *)
LEMMA LastIs ==
  ASSUME msg \in Message, NEW name, NEW i \in DOMAIN msg.lines, LastOf(name, i)
  PROVE  the_value(name) = msg.lines[i].value /\ IsValue(msg.lines[i].value)
<1> DEFINE at_ == {j \in DOMAIN msg.lines : msg.lines[j].colon /\ msg.lines[j].name = name}
<1>1. the_value(name) = IF at_ = {} THEN <<>> ELSE msg.lines[Max(at_)].value
  BY DEF the_value
<1>2. i \in at_ /\ \A j \in at_ : ~(j > i)
  BY DEF LastOf
<1>3. Len(msg.lines) \in Nat /\ at_ \in SUBSET (1 .. Len(msg.lines))
  BY MessageParts
<1> HIDE DEF at_
<1>4. Max(at_) \in at_ /\ \A k \in at_ : k <= Max(at_)
  BY <1>2, <1>3, Greatest
<1>5. Max(at_) = i
  <2>1. i \in Int /\ Max(at_) \in Int /\ i <= Max(at_) /\ ~(Max(at_) > i)
    BY <1>2, <1>3, <1>4
  <2> QED BY <2>1
<1> QED BY <1>1, <1>2, <1>5, MessageParts

(* An accepted message has got past all of these steps.                    *)
LEMMA AcceptedAnswers ==
  ASSUME AnswerInv, Accepted, NEW step \in Cutting, step = "derived" => cls = "SIPRequest"
  PROVE  Taken(Answer(step))
<1>1. Reached(step)
  BY Places DEF Accepted, Reached, Cutting
<1> QED BY <1>1 DEF AnswerInv, TakenAt

LEMMA FromWritten ==
  ASSUME msg \in Message, AnswerInv, Accepted, NEW i \in DOMAIN msg.lines, LastOf("From", i),
         NEW u \in Text, NEW h \in Seq(Token), NEW p \in Text, NEW a \in Seq(Token),
         NEW o \in {0, 1}, AddressIs(a, u, h, o), msg.lines[i].value = WithParam(a, p)
  PROVE  <<fields.from_uri, fields.from_host, fields.from_tag>> = <<u, h, p>>
<1>1. Answer("parse_from") = parse_from(msg.lines[i].value)
  BY LastIs DEF Answer
<1>2. parse_from(msg.lines[i].value) = Accept([from_uri |-> u, from_host |-> h, from_tag |-> p])
  BY LastIs, Texts, FromExact
<1>3. Taken(Accept([from_uri |-> u, from_host |-> h, from_tag |-> p]))
  BY <1>1, <1>2, AcceptedAnswers DEF Cutting
<1> QED BY <1>3 DEF Taken, Accept

LEMMA ToWritten ==
  ASSUME msg \in Message, AnswerInv, Accepted, NEW i \in DOMAIN msg.lines, LastOf("To", i),
         NEW u \in Text, NEW h \in Seq(Token), NEW p \in Text, NEW a \in Seq(Token),
         NEW o \in {0, 1}, AddressIs(a, u, h, o)
  PROVE  LET to == <<fields.to_uri, fields.to_host, fields.to_tag>>
         IN  /\ msg.lines[i].value = WithParam(a, p) => to = <<u, h, p>>
             /\ msg.lines[i].value = Ended(a) => to = <<u, h, <<>>>>
<1>1. Answer("parse_to") = parse_to(msg.lines[i].value)
  BY LastIs DEF Answer
<1>2. Taken(Answer("parse_to"))
  BY AcceptedAnswers DEF Cutting
<1>3. ASSUME NEW tag, parse_to(msg.lines[i].value) = Accept([to_uri |-> u, to_host |-> h, to_tag |-> tag])
      PROVE  <<fields.to_uri, fields.to_host, fields.to_tag>> = <<u, h, tag>>
  BY <1>1, <1>2, <1>3 DEF Taken, Accept
<1>4. /\ u \in Seq(Token) /\ p \in Seq(Token) /\ Free(u, Literal) /\ Free(p, Literal)
      /\ IsValue(msg.lines[i].value)
  BY LastIs, Texts
<1>5. ASSUME msg.lines[i].value = WithParam(a, p)
      PROVE  parse_to(msg.lines[i].value) = Accept([to_uri |-> u, to_host |-> h, to_tag |-> p])
  BY <1>4, <1>5, ToExact
<1>6. ASSUME msg.lines[i].value = Ended(a)
      PROVE  parse_to(msg.lines[i].value) = Accept([to_uri |-> u, to_host |-> h, to_tag |-> <<>>])
  BY <1>4, <1>6, ToEndedExact
<1> QED BY <1>3, <1>5, <1>6

(* An address in brackets or without, of texts.                            *)
LEMMA AddressForms ==
  ASSUME NEW u \in Text, NEW h \in Text, NEW p \in Text
  PROVE  /\ Bracketed(u, h) \in Seq(Token) /\ AddressIs(Bracketed(u, h), u, h, 1)
         /\ Unbracketed(u, h) \in Seq(Token) /\ AddressIs(Unbracketed(u, h), u, h, 0)
         /\ Bracketed(u, HostParam(h, p)) \in Seq(Token)
         /\ AddressIs(Bracketed(u, HostParam(h, p)), u, HostParam(h, p), 1)
<1>1. /\ u \in Seq(Token) /\ h \in Seq(Token) /\ Free(h, Literal) /\ Free(h, Literal \ {Semicolon})
  BY Texts DEF Free
<1>2. HostParam(h, p) \in Seq(Token) /\ Free(HostParam(h, p), Literal \ {Semicolon})
  BY HostParamTokens
<1>3. {"<", "sip", ":", "@", ">"} \subseteq Token
  BY Separators DEF Literal
<1>4. ASSUME NEW host \in Seq(Token) PROVE Bracketed(u, host) \in Seq(Token) /\ Unbracketed(u, host) \in Seq(Token)
  <2>1. <<"<", "sip", ":">> \in Seq(Token) /\ <<"sip", ":">> \in Seq(Token) /\ <<"@">> \in Seq(Token) /\ <<">">> \in Seq(Token)
    BY <1>3
  <2> QED BY <1>1, <2>1 DEF Bracketed, Unbracketed
<1> QED BY <1>1, <1>2, <1>4 DEF AddressIs

LEMMA AddressesWritten ==
  ASSUME msg \in Message, AnswerInv
  PROVE  AddressesExact
<1> SUFFICES ASSUME Accepted, NEW i \in DOMAIN msg.lines, NEW u \in Text, NEW h \in Text, NEW p \in Text
             PROVE  LET value  == msg.lines[i].value
                        inside == HostParam(h, p)
                        from   == <<fields.from_uri, fields.from_host, fields.from_tag>>
                        to     == <<fields.to_uri, fields.to_host, fields.to_tag>>
                    IN  /\ LastOf("From", i) =>
                             /\ value \in {WithParam(Bracketed(u, h), p), WithParam(Unbracketed(u, h), p)}
                                  => from = <<u, h, p>>
                             /\ value = WithParam(Bracketed(u, inside), p) => from = <<u, inside, p>>
                        /\ LastOf("To", i) =>
                             /\ value \in {WithParam(Bracketed(u, h), p), WithParam(Unbracketed(u, h), p)}
                                  => to = <<u, h, p>>
                             /\ value \in {Ended(Bracketed(u, h)), Ended(Unbracketed(u, h))}
                                  => to = <<u, h, <<>>>>
                             /\ value = Ended(Bracketed(u, inside)) => to = <<u, inside, <<>>>>
  BY Zenon DEF AddressesExact, HostParam, Semicolon, Ended
<1> DEFINE value  == msg.lines[i].value
           inside == HostParam(h, p)
           from   == <<fields.from_uri, fields.from_host, fields.from_tag>>
           to     == <<fields.to_uri, fields.to_host, fields.to_tag>>
<1>1. /\ Bracketed(u, h) \in Seq(Token) /\ AddressIs(Bracketed(u, h), u, h, 1)
      /\ Unbracketed(u, h) \in Seq(Token) /\ AddressIs(Unbracketed(u, h), u, h, 0)
      /\ Bracketed(u, inside) \in Seq(Token) /\ AddressIs(Bracketed(u, inside), u, inside, 1)
      /\ h \in Seq(Token) /\ inside \in Seq(Token) /\ 0 \in {0, 1} /\ 1 \in {0, 1}
  BY AddressForms, Texts, HostParamTokens
<1> HIDE DEF value, inside, from, to
<1>2. ASSUME LastOf("From", i), NEW host \in Seq(Token), NEW a \in Seq(Token), NEW o \in {0, 1},
             AddressIs(a, u, host, o), value = WithParam(a, p)
      PROVE  from = <<u, host, p>>
  BY <1>2, FromWritten DEF value, from
<1>3. ASSUME LastOf("To", i), NEW host \in Seq(Token), NEW a \in Seq(Token), NEW o \in {0, 1},
             AddressIs(a, u, host, o)
      PROVE  /\ value = WithParam(a, p) => to = <<u, host, p>>
             /\ value = Ended(a) => to = <<u, host, <<>>>>
  BY <1>3, ToWritten DEF value, to
<1>4. ASSUME LastOf("From", i)
      PROVE  /\ value \in {WithParam(Bracketed(u, h), p), WithParam(Unbracketed(u, h), p)} => from = <<u, h, p>>
             /\ value = WithParam(Bracketed(u, inside), p) => from = <<u, inside, p>>
  BY <1>1, <1>2, <1>4
<1>5. ASSUME LastOf("To", i)
      PROVE  /\ value \in {WithParam(Bracketed(u, h), p), WithParam(Unbracketed(u, h), p)} => to = <<u, h, p>>
             /\ value \in {Ended(Bracketed(u, h)), Ended(Unbracketed(u, h))} => to = <<u, h, <<>>>>
             /\ value = Ended(Bracketed(u, inside)) => to = <<u, inside, <<>>>>
  BY <1>1, <1>3, <1>5
<1> QED BY <1>4, <1>5, Zenon DEF value, inside, from, to

LEMMA ViaWritten ==
  ASSUME msg \in Message, AnswerInv, Accepted, NEW i \in DOMAIN get_header("Via"),
         NEW u \in Text, NEW h \in Text, NEW p \in Text, NEW q \in Text, get_header("Via")[i] = Via(u, h, p, q)
  PROVE  fields.via_list[i] = [transport |-> u, uri |-> h, port |-> p, branch |-> q]
<1> DEFINE vias == get_header("Via")
           list == [k \in DOMAIN vias |-> via_header(vias[k]).fields]
<1>1. Taken(parse_via(vias))
  BY AcceptedAnswers DEF Cutting, Answer
<1>2. IsValue(vias[i])
  BY HeaderValues
<1>3. via_header(vias[i]) = Accept([transport |-> u, uri |-> h, port |-> p, branch |-> q])
  BY <1>2, Texts, ViaExact
<1>4. list[i] = [transport |-> u, uri |-> h, port |-> p, branch |-> q]
  BY <1>3 DEF Accept
<1>5. parse_via(vias) = Accept([via_list |-> list])
  <2>1. parse_via(vias).status = "OK"
    BY <1>1 DEF Taken
  <2>2. parse_via(vias) = Reject("BAD_REQUEST") \/ parse_via(vias) = Accept([via_list |-> list])
    BY DEF parse_via
  <2>3. Reject("BAD_REQUEST").status # "OK"
    BY DEF Reject
  <2> QED BY <2>1, <2>2, <2>3
<1> HIDE DEF list
<1>6. fields.via_list = list
  BY <1>1, <1>5 DEF Taken, Accept
<1> QED BY <1>4, <1>6

LEMMA ContactWritten ==
  ASSUME msg \in Message, AnswerInv, Accepted,
         NEW u \in Text, NEW h \in Text, NEW p \in Text, NEW q \in Text,
         NEW v, get_header("Contact") = <<v>>, v = Contact(u, h, p, q, u)
  PROVE  <<fields.contact_uri, fields.contact_host, fields.contact_port,
           fields.contact_transport, fields.contact_param>> = <<u, h, p, q, u>>
<1>1. Taken(parse_contact(<<v>>))
  BY AcceptedAnswers DEF Cutting, Answer
<1>2. IsValue(v)
  <2>1. 1 \in DOMAIN get_header("Contact") /\ get_header("Contact")[1] = v
    OBVIOUS
  <2> QED BY <2>1, HeaderValues
<1> DEFINE answer == parse_contact(<<v>>)
<1>3. answer = Accept([contact_uri |-> u, contact_host |-> h, contact_port |-> p, contact_transport |-> q,
                       contact_param |-> u])
  <2>1. /\ u \in Seq(Token) /\ h \in Seq(Token) /\ p \in Seq(Token) /\ q \in Seq(Token)
        /\ Free(u, Literal) /\ Free(h, Literal) /\ Free(p, Literal) /\ Free(q, Literal)
    BY Texts
  <2>2. parse_contact(<<v>>) = Accept([contact_uri |-> u, contact_host |-> h, contact_port |-> p, contact_transport |-> q,
                       contact_param |-> u])
    BY <1>2, <2>1, ContactExact
  <2> QED BY <2>2
<1> HIDE DEF answer
<1>4. Taken(answer)
  BY <1>1 DEF answer
<1> QED BY <1>3, <1>4 DEF Taken, Accept

LEMMA CSeqWritten ==
  ASSUME msg \in Message, AnswerInv, Accepted, NEW i \in DOMAIN msg.lines, LastOf("CSeq", i),
         NEW u \in Text, NEW h \in Text, msg.lines[i].value = CSeqForm(u, h)
  PROVE  <<fields.cseq_nr, fields.cseq_typ>> = <<u, h>>
<1>1. Answer("parse_cseq") = parse_cseq(msg.lines[i].value)
  BY LastIs DEF Answer
<1>2. parse_cseq(msg.lines[i].value) = Accept([cseq_nr |-> u, cseq_typ |-> h])
  BY LastIs, Texts, CSeqExact
<1>3. Taken(Accept([cseq_nr |-> u, cseq_typ |-> h]))
  BY <1>1, <1>2, AcceptedAnswers DEF Cutting
<1> QED BY <1>3 DEF Taken, Accept

LEMMA RequestWritten ==
  ASSUME msg \in Message, AnswerInv, Accepted, cls = "SIPRequest",
         NEW u \in Text, NEW h \in Text, NEW p \in Text, msg.line = RequestForm(u, h, p)
  PROVE  <<fields.method, fields.request_uri, fields.request_host>> = <<u, <<"sip", ":">> \o h, p>>
<1> DEFINE uri == <<"sip", ":">> \o h
<1>1. Taken(parse_request_line(msg.line))
  BY AcceptedAnswers DEF Cutting, Answer
<1>2. parse_request_line(msg.line) = Accept([method |-> u, request_uri |-> uri, request_host |-> p])
  BY MessageParts, Texts, RequestExact
<1> HIDE DEF uri
<1>3. <<fields.method, fields.request_uri, fields.request_host>> = <<u, uri, p>>
  BY <1>1, <1>2 DEF Taken, Accept
<1> QED BY <1>3 DEF uri

LEMMA IdentityWritten ==
  ASSUME msg \in Message, AnswerInv, Accepted, "pai_list" \in DOMAIN fields,
         NEW i \in DOMAIN get_header("P-Asserted-Identity"), NEW u \in Text, NEW h \in Text,
         \/ get_header("P-Asserted-Identity")[i] = Ended(Bracketed(u, h))
         \/ get_header("P-Asserted-Identity")[i] = Ended(Unbracketed(u, h))
  PROVE  fields.pai_list[i] = [uri |-> u, host |-> h]
<1> DEFINE pais == get_header("P-Asserted-Identity")
           found == identities(pais)
           list == [k \in DOMAIN pais |-> identity(pais[k]).fields]
<1>1. found.status = "OK" /\ fields.pai_list = found.list
  BY DEF AnswerInv, PaiTaken
<1>2. IsValue(pais[i])
  BY HeaderValues
<1>3. identity(pais[i]) = Accept([uri |-> u, host |-> h])
  <2>1. /\ u \in Seq(Token) /\ Free(u, Literal) /\ h \in Seq(Token)
        /\ Bracketed(u, h) \in Seq(Token) /\ AddressIs(Bracketed(u, h), u, h, 1)
        /\ Unbracketed(u, h) \in Seq(Token) /\ AddressIs(Unbracketed(u, h), u, h, 0)
        /\ 0 \in {0, 1} /\ 1 \in {0, 1}
    BY AddressForms, Texts
  <2> QED BY <1>2, <2>1, IdentityExact
<1>4. list[i] = [uri |-> u, host |-> h]
  BY <1>3 DEF Accept
<1>5. found.list = list
  <2>1. pais # <<>>
    OBVIOUS
  <2>2. found = [status |-> "UNSUPPORTED_URI_SCHEME", list |-> <<>>] \/ found = [status |-> "OK", list |-> list]
    BY <2>1 DEF identities
  <2> HIDE DEF found, list
  <2> QED BY <1>1, <2>2
<1> HIDE DEF list
<1> QED BY <1>1, <1>4, <1>5

LEMMA TimerWritten ==
  ASSUME msg \in Message, AnswerInv, Accepted, NEW n \in DOMAIN Numeral, NEW u \in Text,
         NEW v, get_header("Session-Expires") = <<v>>, v = RefresherForm(n, u)
  PROVE  fields.refresh_timer = uint16(Numeral[n]) /\ fields.refresher = u
<1> DEFINE list   == get_header("Session-Expires")
           parts  == [i \in DOMAIN list |-> session_value(list[i])]
           named  == {i \in DOMAIN parts : parts[i].named}
           bad    == \E i \in DOMAIN parts : parts[i].timer = NotANumber
           timer  == uint16(parts[Len(parts)].timer)
           who    == IF named = {} THEN <<>> ELSE parts[Max(named)].refresher
           answer == session_expires(list)
<1>1. DOMAIN list = {1} /\ list[1] = v /\ list # <<>>
  OBVIOUS
<1>2. IsValue(v)
  BY <1>1, HeaderValues
<1>3. session_value(v) = [timer |-> Numeral[n], named |-> TRUE, refresher |-> u]
  BY <1>2, Texts, RefresherExact
<1>4. /\ DOMAIN parts = {1} /\ Len(parts) = 1 /\ parts[1].named
      /\ parts[1].timer = Numeral[n] /\ parts[1].refresher = u
  <2>1. parts = [i \in 1 .. 1 |-> session_value(list[i])]
    BY <1>1
  <2>2. DOMAIN parts = {1} /\ parts[1] = session_value(v)
    BY <1>1
  <2>3. Len(parts) = 1
    BY <2>1
  <2> HIDE DEF parts
  <2> QED BY <1>3, <2>2, <2>3
<1>5. Taken(answer)
  BY AcceptedAnswers DEF Cutting, Answer
<1>6. answer = IF list = <<>> THEN [status |-> "OK", fields |-> <<>>]
               ELSE IF bad THEN [status |-> "BAD_REQUEST", fields |-> <<>>]
               ELSE [status |-> "OK", fields |-> [refresh_timer |-> timer, refresher |-> who]]
  BY DEF session_expires, Accept, Reject
<1>7. answer.status = "OK"
  BY <1>5 DEF Taken
<1> HIDE DEF answer, bad, timer, who
<1>8. fields.refresh_timer = timer /\ fields.refresher = who
  <2>1. answer.fields = [refresh_timer |-> timer, refresher |-> who]
    BY <1>1, <1>6, <1>7
  <2> QED BY <1>5, <2>1 DEF Taken
<1>9. timer = uint16(Numeral[n])
  BY <1>4 DEF timer
<1>10. who = u
  <2> HIDE DEF parts
  <2>1. named = {1}
    BY <1>4
  <2>2. Max(named) = 1
    BY <2>1 DEF Max
  <2> HIDE DEF named
  <2> QED BY <1>4, <2>1, <2>2 DEF who
<1> QED BY <1>8, <1>9, <1>10

LEMMA RoutingWritten ==
  ASSUME msg \in Message, AnswerInv
  PROVE  RoutingExact
<1> DEFINE vias     == get_header("Via")
           contacts == get_header("Contact")
           pais     == get_header("P-Asserted-Identity")
           timers   == get_header("Session-Expires")
<1>1. ASSUME Accepted, NEW u \in Text, NEW h \in Text, NEW p \in Text, NEW q \in Text
      PROVE  /\ \A i \in DOMAIN vias :
                  vias[i] = Via(u, h, p, q)
                    => fields.via_list[i] = [transport |-> u, uri |-> h, port |-> p, branch |-> q]
             /\ contacts = <<Contact(u, h, p, q, u)>>
                  => <<fields.contact_uri, fields.contact_host, fields.contact_port,
                       fields.contact_transport, fields.contact_param>> = <<u, h, p, q, u>>
             /\ \A i \in DOMAIN msg.lines :
                  LastOf("CSeq", i) /\ msg.lines[i].value = CSeqForm(u, h)
                    => <<fields.cseq_nr, fields.cseq_typ>> = <<u, h>>
             /\ \A n \in DOMAIN Numeral :
                  timers = <<RefresherForm(n, u)>>
                    => fields.refresh_timer = uint16(Numeral[n]) /\ fields.refresher = u
             /\ cls = "SIPRequest" /\ msg.line = RequestForm(u, h, p)
                  => <<fields.method, fields.request_uri, fields.request_host>>
                       = <<u, <<"sip", ":">> \o h, p>>
             /\ "pai_list" \in DOMAIN fields => \A i \in DOMAIN pais :
                  pais[i] \in {Ended(Bracketed(u, h)), Ended(Unbracketed(u, h))}
                    => fields.pai_list[i] = [uri |-> u, host |-> h]
  <2>1. ASSUME NEW i \in DOMAIN vias, vias[i] = Via(u, h, p, q)
        PROVE  fields.via_list[i] = [transport |-> u, uri |-> h, port |-> p, branch |-> q]
    BY <1>1, <2>1, ViaWritten
  <2>2. ASSUME contacts = <<Contact(u, h, p, q, u)>>
        PROVE  <<fields.contact_uri, fields.contact_host, fields.contact_port,
                 fields.contact_transport, fields.contact_param>> = <<u, h, p, q, u>>
    BY <1>1, <2>2, ContactWritten
  <2>3. ASSUME NEW i \in DOMAIN msg.lines, LastOf("CSeq", i), msg.lines[i].value = CSeqForm(u, h)
        PROVE  <<fields.cseq_nr, fields.cseq_typ>> = <<u, h>>
    BY <1>1, <2>3, CSeqWritten
  <2>4. ASSUME NEW n \in DOMAIN Numeral, timers = <<RefresherForm(n, u)>>
        PROVE  fields.refresh_timer = uint16(Numeral[n]) /\ fields.refresher = u
    BY <1>1, <2>4, TimerWritten
  <2>5. ASSUME cls = "SIPRequest", msg.line = RequestForm(u, h, p)
        PROVE  <<fields.method, fields.request_uri, fields.request_host>> = <<u, <<"sip", ":">> \o h, p>>
    BY <1>1, <2>5, RequestWritten
  <2>6. ASSUME "pai_list" \in DOMAIN fields, NEW i \in DOMAIN pais,
               pais[i] \in {Ended(Bracketed(u, h)), Ended(Unbracketed(u, h))}
        PROVE  fields.pai_list[i] = [uri |-> u, host |-> h]
    BY <1>1, <2>6, IdentityWritten
  <2> QED BY <2>1, <2>2, <2>3, <2>4, <2>5, <2>6, Zenon
<1> QED BY <1>1, Zenon DEF RoutingExact, CSeqForm, RefresherForm, RequestForm, Ended, Semicolon, Space

(* What has one of these forms in an accepted message is found, in         *)
(* whatever message: the parts of addresses, of a Via with its port, of a  *)
(* Contact with all its parts, of CSeq, of the session timer, of the       *)
(* request line and of the identities.                                     *)
THEOREM FieldsCorrect == Spec => []FieldsExact
<1>1. ShapeInv /\ AnswerInv => FieldsExact
  <2>1. ShapeInv => msg \in Message
    BY DEF ShapeInv
  <2> QED BY <2>1, AddressesWritten, RoutingWritten DEF FieldsExact
<1> QED BY ShapeInit, ShapeNext, AnswerInit, AnswerNext, <1>1, PTL DEF Spec
-----------------------------------------------------------------------------
(* What is accepted has what each step requires *)

(* What a search finds is there, and not before where it began.            *)
LEMMA Located ==
  ASSUME NEW v, IsValue(v), NEW token, NEW from \in Nat, find(<<token>>, v, from) # npos
  PROVE  /\ At(v, find(<<token>>, v, from), token)
         /\ from <= find(<<token>>, v, from)
         /\ Plus(find(<<token>>, v, from), 1) = find(<<token>>, v, from) + 1
         /\ find(<<token>>, v, from) + 1 \in Nat
<1> DEFINE what == <<token>>
           there == {i \in from .. Len(v) - Len(what) : SubSeq(v, i + 1, i + Len(what)) = what}
           k == find(what, v, from)
<1>1. Len(what) = 1 /\ what[1] = token
  OBVIOUS
<1>2. v \in Seq(STRING) /\ Len(v) \in Nat
  BY DEF IsValue
<1>3. k = IF there = {} THEN npos ELSE Min(there)
  BY DEF find
<1>4. there \in SUBSET Nat /\ there # {}
  BY <1>1, <1>2, <1>3
<1>5. k \in there
  BY <1>3, <1>4, Least
<1>6. k \in Nat /\ from <= k /\ k + 1 <= Len(v) /\ SubSeq(v, k + 1, k + 1) = what
  BY <1>1, <1>2, <1>5
<1> HIDE DEF what, k
<1>7. v[k + 1] = token
  BY <1>1, <1>2, <1>6
<1>8. Plus(k, 1) = k + 1
  BY <1>6, NextIs
<1> QED BY <1>6, <1>7, <1>8 DEF At, k, what

LEMMA LocatedPair ==
  ASSUME NEW v, IsValue(v), NEW a, NEW b, NEW from \in Nat, find(<<a, b>>, v, from) # npos
  PROVE  /\ At(v, find(<<a, b>>, v, from), a) /\ At(v, find(<<a, b>>, v, from) + 1, b)
         /\ from <= find(<<a, b>>, v, from)
         /\ Plus(find(<<a, b>>, v, from), 2) = find(<<a, b>>, v, from) + 2
         /\ find(<<a, b>>, v, from) + 2 \in Nat
<1> DEFINE what == <<a, b>>
           there == {i \in from .. Len(v) - Len(what) : SubSeq(v, i + 1, i + Len(what)) = what}
           k == find(what, v, from)
<1>1. Len(what) = 2 /\ what[1] = a /\ what[2] = b
  OBVIOUS
<1>2. v \in Seq(STRING) /\ Len(v) \in Nat
  BY DEF IsValue
<1>3. k = IF there = {} THEN npos ELSE Min(there)
  BY DEF find
<1>4. there \in SUBSET Nat /\ there # {}
  BY <1>1, <1>2, <1>3
<1>5. k \in there
  BY <1>3, <1>4, Least
<1>6. k \in Nat /\ from <= k /\ k + 2 <= Len(v) /\ SubSeq(v, k + 1, k + 2) = what
  BY <1>1, <1>2, <1>5
<1> HIDE DEF what, k
<1>7. v[k + 1] = a /\ v[(k + 1) + 1] = b
  BY <1>1, <1>2, <1>6
<1>8. Plus(k, 2) = k + 2
  BY <1>6, NextIs
<1> QED BY <1>2, <1>6, <1>7, <1>8 DEF At, k, what

LEMMA InOrderOne ==
  ASSUME NEW v, IsValue(v), NEW i, NEW a, At(v, i, a)
  PROVE  InOrder(v, <<a>>)
<1> DEFINE p == [k \in 1 .. 1 |-> i + 1]
<1>1. DOMAIN v = 1 .. Len(v) /\ Len(v) \in Nat /\ DOMAIN <<a>> = 1 .. 1
  BY DEF IsValue
<1>2. p \in [DOMAIN <<a>> -> DOMAIN v]
  BY <1>1 DEF At
<1>3. \A k \in DOMAIN <<a>> : v[p[k]] = <<a>>[k] /\ (k > 1 => p[k - 1] < p[k])
  BY <1>1 DEF At
<1> QED BY <1>2, <1>3 DEF InOrder

LEMMA InOrderTwo ==
  ASSUME NEW v, IsValue(v), NEW i, NEW j, NEW a, NEW b, At(v, i, a), At(v, j, b), i < j
  PROVE  InOrder(v, <<a, b>>)
<1> DEFINE p == [k \in 1 .. 2 |-> IF k = 1 THEN i + 1 ELSE j + 1]
<1>1. DOMAIN v = 1 .. Len(v) /\ Len(v) \in Nat /\ DOMAIN <<a, b>> = 1 .. 2
  BY DEF IsValue
<1>2. p \in [DOMAIN <<a, b>> -> DOMAIN v]
  BY <1>1 DEF At
<1>3. \A k \in DOMAIN <<a, b>> : v[p[k]] = <<a, b>>[k] /\ (k > 1 => p[k - 1] < p[k])
  BY <1>1 DEF At
<1> QED BY <1>2, <1>3 DEF InOrder

LEMMA InOrderThree ==
  ASSUME NEW v, IsValue(v), NEW i, NEW j, NEW l, NEW a, NEW b, NEW c,
         At(v, i, a), At(v, j, b), At(v, l, c), i < j, j < l
  PROVE  InOrder(v, <<a, b, c>>)
<1> DEFINE p == [k \in 1 .. 3 |-> IF k = 1 THEN i + 1 ELSE IF k = 2 THEN j + 1 ELSE l + 1]
<1>1. DOMAIN v = 1 .. Len(v) /\ Len(v) \in Nat /\ DOMAIN <<a, b, c>> = 1 .. 3
  BY DEF IsValue
<1>2. p \in [DOMAIN <<a, b, c>> -> DOMAIN v]
  BY <1>1 DEF At
<1>3. \A k \in DOMAIN <<a, b, c>> : v[p[k]] = <<a, b, c>>[k] /\ (k > 1 => p[k - 1] < p[k])
  BY <1>1 DEF At
<1> QED BY <1>2, <1>3 DEF InOrder

LEMMA InOrderFour ==
  ASSUME NEW v, IsValue(v), NEW i, NEW j, NEW l, NEW m, NEW a, NEW b, NEW c, NEW d,
         At(v, i, a), At(v, j, b), At(v, l, c), At(v, m, d), i < j, j < l, l < m
  PROVE  InOrder(v, <<a, b, c, d>>)
<1> DEFINE p == [k \in 1 .. 4 |-> IF k = 1 THEN i + 1 ELSE IF k = 2 THEN j + 1 ELSE IF k = 3 THEN l + 1 ELSE m + 1]
<1>1. DOMAIN v = 1 .. Len(v) /\ Len(v) \in Nat /\ DOMAIN <<a, b, c, d>> = 1 .. 4
  BY DEF IsValue
<1>2. p \in [DOMAIN <<a, b, c, d>> -> DOMAIN v]
  BY <1>1 DEF At
<1>3. \A k \in DOMAIN <<a, b, c, d>> : v[p[k]] = <<a, b, c, d>>[k] /\ (k > 1 => p[k - 1] < p[k])
  BY <1>1 DEF At
<1> QED BY <1>2, <1>3 DEF InOrder

LEMMA FromRequires ==
  ASSUME NEW v, IsValue(v), parse_from(v).status = "OK"
  PROVE  InOrder(v, <<"sip", "@", Semicolon, "\r">>)
<1> DEFINE first_sep == find(<<"sip">>, v, 0)
           host_sep  == find(<<"@">>, v, Plus(first_sep, 1))
           end_brack == find(<<">">>, v, Plus(host_sep, 1))
           after     == AfterAddress(host_sep, end_brack)
           last_sep  == find(<<Semicolon>>, v, after)
           line_end  == find(<<"\r">>, v, Plus(last_sep, 1))
<1>1. npos \notin {first_sep, host_sep, last_sep, line_end}
  BY DEF parse_from, Reject, Semicolon
<1>2. At(v, first_sep, "sip") /\ Plus(first_sep, 1) = first_sep + 1 /\ first_sep + 1 \in Nat
  BY <1>1, Located
<1> HIDE DEF first_sep
<1>3. /\ At(v, host_sep, "@") /\ first_sep + 1 <= host_sep
      /\ Plus(host_sep, 1) = host_sep + 1 /\ host_sep + 1 \in Nat
  BY <1>1, <1>2, Located
<1> HIDE DEF host_sep
<1>4. after \in Nat /\ host_sep + 1 <= after
  <2>1. CASE end_brack = npos
    BY <1>3, <2>1 DEF AfterAddress
  <2>2. CASE end_brack # npos
    <3>1. host_sep + 1 <= end_brack /\ Plus(end_brack, 1) = end_brack + 1 /\ end_brack + 1 \in Nat /\ At(v, end_brack, ">")
      BY <1>3, <2>2, Located
    <3> HIDE DEF end_brack
    <3> QED BY <1>3, <2>2, <3>1 DEF AfterAddress, At
  <2> QED BY <2>1, <2>2
<1> HIDE DEF after
<1>5. /\ At(v, last_sep, Semicolon) /\ after <= last_sep
      /\ Plus(last_sep, 1) = last_sep + 1 /\ last_sep + 1 \in Nat
  BY <1>1, <1>4, Located
<1> HIDE DEF last_sep
<1>6. At(v, line_end, "\r") /\ last_sep + 1 <= line_end
  BY <1>1, <1>5, Located
<1> HIDE DEF line_end
<1>7. first_sep < host_sep /\ host_sep < last_sep /\ last_sep < line_end
  BY <1>2, <1>3, <1>4, <1>5, <1>6 DEF At
<1> QED BY <1>2, <1>3, <1>5, <1>6, <1>7, InOrderFour

LEMMA ToRequires ==
  ASSUME NEW v, IsValue(v), parse_to(v).status = "OK"
  PROVE  InOrder(v, <<"sip", "@", "\r">>)
<1> DEFINE first_sep == find(<<"sip">>, v, 0)
           host_sep  == find(<<"@">>, v, Plus(first_sep, 1))
           line_end  == find(<<"\r">>, v, Plus(host_sep, 1))
<1>1. npos \notin {first_sep, host_sep, line_end}
  BY DEF parse_to, Reject
<1>2. At(v, first_sep, "sip") /\ Plus(first_sep, 1) = first_sep + 1 /\ first_sep + 1 \in Nat
  BY <1>1, Located
<1> HIDE DEF first_sep
<1>3. /\ At(v, host_sep, "@") /\ first_sep + 1 <= host_sep
      /\ Plus(host_sep, 1) = host_sep + 1 /\ host_sep + 1 \in Nat
  BY <1>1, <1>2, Located
<1> HIDE DEF host_sep
<1>4. At(v, line_end, "\r") /\ host_sep + 1 <= line_end
  BY <1>1, <1>3, Located
<1> HIDE DEF line_end
<1>5. first_sep < host_sep /\ host_sep < line_end
  BY <1>2, <1>3, <1>4 DEF At
<1> QED BY <1>2, <1>3, <1>4, <1>5, InOrderThree

LEMMA CSeqRequires ==
  ASSUME NEW v, IsValue(v), parse_cseq(v).status = "OK"
  PROVE  InOrder(v, <<Space>>) /\ InOrder(v, <<"\r">>)
<1> DEFINE first_space == find(<<Space>>, v, 0)
           line_end    == find(<<"\r">>, v, 0)
<1>1. npos \notin {first_space, line_end}
  BY DEF parse_cseq, Reject, Space
<1>2. At(v, first_space, Space) /\ At(v, line_end, "\r")
  BY <1>1, Located
<1> QED BY <1>2, InOrderOne

LEMMA ViaRequires ==
  ASSUME NEW v, IsValue(v), via_header(v).status = "OK"
  PROVE  InOrder(v, <<"SIP/2.0/", Space, ":">>) /\ InOrder(v, <<"branch=", "\r">>)
<1> DEFINE transport_begin == find(<<"SIP/2.0/">>, v, 0)
           uri_begin    == find(<<Space>>, v, Plus(transport_begin, 1))
           port_sep     == find(<<":">>, v, Plus(uri_begin, 1))
           branch_begin == find(<<"branch=">>, v, 0)
           line_end     == find(<<"\r">>, v, branch_begin)
<1>1. npos \notin {transport_begin, uri_begin, port_sep, branch_begin, line_end}
  BY DEF via_header, Reject, Space
<1>2. /\ At(v, transport_begin, "SIP/2.0/") /\ Plus(transport_begin, 1) = transport_begin + 1
      /\ transport_begin + 1 \in Nat
  BY <1>1, Located
<1> HIDE DEF transport_begin
<1>3. /\ At(v, uri_begin, Space) /\ transport_begin + 1 <= uri_begin
      /\ Plus(uri_begin, 1) = uri_begin + 1 /\ uri_begin + 1 \in Nat
  BY <1>1, <1>2, Located
<1> HIDE DEF uri_begin
<1>4. At(v, port_sep, ":") /\ uri_begin + 1 <= port_sep
  BY <1>1, <1>3, Located
<1> HIDE DEF port_sep
<1>5. At(v, branch_begin, "branch=")
  BY <1>1, Located
<1> HIDE DEF branch_begin
<1>6. At(v, line_end, "\r") /\ branch_begin <= line_end
  <2>1. branch_begin \in Nat
    BY <1>5 DEF At
  <2> QED BY <1>1, <2>1, Located
<1> HIDE DEF line_end
<1>7. transport_begin < uri_begin /\ uri_begin < port_sep
  BY <1>2, <1>3, <1>4 DEF At
<1>8. branch_begin < line_end
  <2>1. "branch=" # "\r"
    OBVIOUS
  <2> QED BY <1>5, <1>6, <2>1 DEF At
<1>9. InOrder(v, <<"SIP/2.0/", Space, ":">>)
  BY <1>2, <1>3, <1>4, <1>7, InOrderThree
<1> QED BY <1>5, <1>6, <1>8, <1>9, InOrderTwo

LEMMA RequestRequires ==
  ASSUME NEW v, IsValue(v), parse_request_line(v).status = "OK"
  PROVE  InOrder(v, <<Space, Space>>)
<1> DEFINE first_space  == find(<<Space>>, v, 0)
           second_space == find(<<Space>>, v, Plus(first_space, 1))
<1>1. npos \notin {first_space, second_space}
  BY DEF parse_request_line, Reject, Space
<1>2. At(v, first_space, Space) /\ Plus(first_space, 1) = first_space + 1 /\ first_space + 1 \in Nat
  BY <1>1, Located
<1> HIDE DEF first_space
<1>3. At(v, second_space, Space) /\ first_space + 1 <= second_space
  BY <1>1, <1>2, Located
<1> HIDE DEF second_space
<1>4. first_space < second_space
  BY <1>2, <1>3 DEF At
<1> QED BY <1>2, <1>3, <1>4, InOrderTwo

LEMMA StatusRequires ==
  ASSUME NEW v, IsValue(v), parse_status_line(v).status = "OK"
  PROVE  InOrder(v, <<"SIP/2.0", Space>>)
<1> DEFINE code_start == find(<<"SIP/2.0">>, v, 0)
           code_sep   == find(<<Space>>, v, Plus(code_start, 2))
<1>1. npos \notin {code_start, code_sep}
  BY DEF parse_status_line, Reject, Space
<1>2. At(v, code_start, "SIP/2.0")
  BY <1>1, Located
<1> HIDE DEF code_start
<1>3. Plus(code_start, 2) = code_start + 2 /\ code_start + 2 \in Nat
  BY <1>2, NextIs DEF At
<1>4. At(v, code_sep, Space) /\ code_start + 2 <= code_sep
  BY <1>1, <1>3, Located
<1> HIDE DEF code_sep
<1>5. code_start < code_sep
  BY <1>2, <1>4 DEF At
<1> QED BY <1>2, <1>4, <1>5, InOrderTwo

LEMMA IdentityRequires ==
  ASSUME NEW v, IsValue(v), identity(v).status = "OK"
  PROVE  InOrder(v, <<"sip", ":", "@">>)
<1> DEFINE uri_begin == find(<<"sip", ":">>, v, 0)
           host_sep  == find(<<"@">>, v, Plus(uri_begin, 2))
<1>1. npos \notin {uri_begin, host_sep}
  BY DEF identity, Reject
<1>2. /\ At(v, uri_begin, "sip") /\ At(v, uri_begin + 1, ":")
      /\ Plus(uri_begin, 2) = uri_begin + 2 /\ uri_begin + 2 \in Nat
  BY <1>1, LocatedPair
<1> HIDE DEF uri_begin
<1>3. At(v, host_sep, "@") /\ uri_begin + 2 <= host_sep
  BY <1>1, <1>2, Located
<1> HIDE DEF host_sep
<1>4. uri_begin < uri_begin + 1 /\ uri_begin + 1 < host_sep
  BY <1>2, <1>3 DEF At
<1> QED BY <1>2, <1>3, <1>4, InOrderThree

HeaderSound == Required("SIPMessage")
StatusSound == parse_status_line(msg.line).status = "OK"
Named(header) == identities(get_header(header)).status = "OK"
Invites == parse_method_enum(parse_request_line(msg.line).fields.method) = "INVITE"

(* The inductive invariant, besides AnswerInv: what the steps without a    *)
(* place in it have found out.                                             *)
SoundInv ==
  /\ cls = "undecided" => pc = "is_response"
  /\ Reached("SIPMessage") => HeaderSound
  /\ Reached("derived") /\ cls = "SIPResponse" => StatusSound
  /\ pc = "parse_ppi" => Named("P-Asserted-Identity")
  /\ Accepted /\ cls = "SIPRequest" /\ Invites =>
       Named("P-Asserted-Identity") /\ Named("p-preferred-identity")

(* It is about the message, which does not change.                         *)
LEMMA SameSound ==
  ASSUME msg' = msg
  PROVE  /\ HeaderSound' <=> HeaderSound
         /\ StatusSound' <=> StatusSound
         /\ \A header : Named(header)' <=> Named(header)
         /\ Invites' <=> Invites
<1>1. HeaderSound' <=> HeaderSound
  BY DEF HeaderSound, Required
<1>2. StatusSound' <=> StatusSound
  BY DEF StatusSound
<1>3. \A header : Named(header)' <=> Named(header)
  BY SameMessage DEF Named
<1>4. Invites' <=> Invites
  BY DEF Invites
<1> QED BY <1>1, <1>2, <1>3, <1>4

LEMMA SoundKept ==
  ASSUME SoundInv, msg' = msg, cls' = cls, cls' = "undecided" => pc' = "is_response",
         Reached("SIPMessage")' => Reached("SIPMessage") \/ HeaderSound',
         Reached("derived")' => Reached("derived") \/ (cls' = "SIPResponse" => StatusSound'),
         pc' = "parse_ppi" => pc = "parse_ppi" \/ Named("P-Asserted-Identity")',
         Accepted' => \/ Accepted
                      \/ cls' = "SIPRequest" /\ Invites' =>
                           Named("P-Asserted-Identity")' /\ Named("p-preferred-identity")'
  PROVE  SoundInv'
BY SameSound DEF SoundInv

(* A step between the first and the last of them.                          *)
LEMMA SteppedSound ==
  ASSUME ShapeInv, SoundInv, NEW here \in Steps, Place(here) > 2, Place(here) < 15, NEW next \in Steps,
         Place(next) <= 15, msg' = msg, cls' = cls, pc = here, pc' = IF status' = "OK" THEN next ELSE "returned"
  PROVE  SoundInv'
<1>1. status = "OK" /\ pc # "thrown" /\ pc # "is_response"
  BY Places DEF ShapeInv
<1>2. Reached("SIPMessage")
  BY <1>1, Places DEF Reached
<1>3. Place(here) \in Int /\ Place(next) \in Int /\ Place("derived") = 15
  BY PlaceRange, Places
<1>4. ~Reached("derived")'
  BY <1>3 DEF Reached
<1>5. pc' # "parse_ppi" /\ ~Accepted'
  BY Places DEF Accepted
<1>6. cls' # "undecided"
  BY <1>1 DEF SoundInv
<1> QED BY <1>2, <1>4, <1>5, <1>6, SoundKept

LEMMA SoundInit == Init => SoundInv
<1> SUFFICES ASSUME Init PROVE SoundInv
  OBVIOUS
<1>1. pc \in {"is_response", "SIPMessage"} /\ (cls = "undecided" => pc = "is_response")
  BY DEF Init
<1>2. ~Reached("SIPMessage") /\ ~Reached("derived") /\ ~Accepted
  BY <1>1, Places DEF Reached, Accepted
<1> QED BY <1>1, <1>2 DEF SoundInv

LEMMA HeaderStep ==
  ASSUME SoundInv, ParseMessage
  PROVE  SoundInv'
<1> DEFINE good == /\ is_value_ascii(msg.line)
                   /\ \A i \in DOMAIN msg.lines : msg.lines[i].colon =>
                        is_header_ascii(msg.lines[i].name) /\ is_value_ascii(msg.lines[i].value)
           result == IF good THEN Accept([call_id |-> the_value("Call-ID")]) ELSE Reject("BAD_REQUEST")
<1>1. Ends("SIPMessage", result, "parse_from") /\ msg.terminated
  BY DEF ParseMessage
<1>2. result.status = "OK" <=> good
  BY DEF Accept, Reject
<1> HIDE DEF result
<1>3. /\ pc = "SIPMessage" /\ msg' = msg /\ cls' = cls
      /\ status' = result.status
      /\ pc' = IF status' = "OK" THEN "parse_from" ELSE "returned"
  BY <1>1 DEF Ends
<1>4. status' = "OK" => HeaderSound
  <2>1. good /\ msg.terminated => HeaderSound
    BY DEF HeaderSound, Required, is_value_ascii, is_header_ascii
  <2> QED BY <1>1, <1>2, <1>3, <2>1
<1>5. Reached("SIPMessage")' => HeaderSound'
  BY <1>3, <1>4, SameSound DEF Reached
<1>6. ~Reached("derived")' /\ ~Accepted' /\ pc' # "parse_ppi"
  BY <1>3, Places DEF Reached, Accepted
<1>7. cls' # "undecided"
  BY <1>3 DEF SoundInv
<1> QED BY <1>3, <1>5, <1>6, <1>7, SoundKept

LEMMA DerivedStep ==
  ASSUME ShapeInv, SoundInv, ParseDerived
  PROVE  SoundInv'
<1> DEFINE result == parse_request_line(msg.line)
           next == IF result.status = "OK" /\ parse_method_enum(result.fields.method) = "INVITE"
                     THEN "parse_pai" ELSE "returned"
<1>1. \/ cls = "SIPResponse" /\ Ends("derived", parse_status_line(msg.line), "returned")
      \/ cls = "SIPRequest" /\ Ends("derived", result, next)
  BY DEF ParseDerived
<1>2. /\ pc = "derived" /\ msg' = msg /\ cls' = cls
      /\ cls \in {"SIPRequest", "SIPResponse"}
      /\ cls = "SIPResponse" /\ status' = "OK" => StatusSound
      /\ cls = "SIPRequest" => /\ status' = result.status
                               /\ pc' = IF status' = "OK" THEN next ELSE "returned"
      /\ pc' \in {"returned", "parse_pai"}
  BY <1>1 DEF Ends, StatusSound
<1>3. Reached("SIPMessage")
  <2>1. status = "OK"
    BY <1>2 DEF ShapeInv
  <2> QED BY <1>2, <2>1, Places DEF Reached
<1>4. Reached("derived")' => (cls' = "SIPResponse" => StatusSound')
  BY <1>2, SameSound DEF Reached
<1>5. ASSUME Accepted', cls' = "SIPRequest" PROVE ~Invites'
  <2>1. cls = "SIPRequest" /\ status' = "OK" /\ pc' = "returned"
    BY <1>2, <1>5 DEF Accepted
  <2>2. next # "parse_pai" /\ result.status = "OK"
    BY <1>2, <2>1
  <2>3. ~Invites
    BY <2>2 DEF Invites
  <2> QED BY <1>2, <2>3, SameSound
<1>6. cls' # "undecided" /\ pc' # "parse_ppi"
  BY <1>2
<1> QED BY <1>2, <1>3, <1>4, <1>5, <1>6, SoundKept

(* The two steps that look at the identities of an INVITE.                 *)
LEMMA IdentityStep ==
  ASSUME ShapeInv, SoundInv,
         NEW here \in {"parse_pai", "parse_ppi"}, NEW next, NEW name, NEW STATE list,
         here = "parse_pai" => next = "parse_ppi" /\ name = "P-Asserted-Identity",
         here = "parse_ppi" => next = "returned" /\ name = "p-preferred-identity",
         LET found == identities(get_header(name))
         IN  Ends(here, IF found.status = "OK" THEN Accept(list) ELSE Reject(found.status), next)
  PROVE  SoundInv'
<1> DEFINE found == identities(get_header(name))
           result == IF found.status = "OK" THEN Accept(list) ELSE Reject(found.status)
<1>1. Ends(here, result, next)
  OBVIOUS
<1>2. result.status = "OK" <=> Named(name)
  BY DEF Accept, Reject, Named
<1> HIDE DEF result
<1>3. /\ pc = here /\ msg' = msg /\ cls' = cls /\ status' = result.status
      /\ pc' = IF status' = "OK" THEN next ELSE "returned"
  BY <1>1 DEF Ends
<1>4. Reached("SIPMessage") /\ Reached("derived")
  <2>1. status = "OK"
    BY <1>3 DEF ShapeInv
  <2> QED BY <1>3, <2>1, Places DEF Reached
<1>5. status' = "OK" => Named(name)'
  BY <1>2, <1>3, SameSound
<1>6. pc' = "parse_ppi" => Named("P-Asserted-Identity")'
  BY <1>3, <1>5
<1>7. Accepted' => Named("P-Asserted-Identity")' /\ Named("p-preferred-identity")'
  <2> SUFFICES ASSUME Accepted' PROVE Named("P-Asserted-Identity")' /\ Named("p-preferred-identity")'
    OBVIOUS
  <2>1. status' = "OK" /\ here = "parse_ppi"
    BY <1>3 DEF Accepted
  <2>2. Named("P-Asserted-Identity")
    BY <1>3, <2>1 DEF SoundInv
  <2> QED BY <1>3, <1>5, <2>1, <2>2, SameSound
<1>8. cls' # "undecided"
  BY <1>3 DEF SoundInv
<1> QED BY <1>3, <1>4, <1>6, <1>7, <1>8, SoundKept

LEMMA SoundNext == ShapeInv /\ SoundInv /\ [Next]_vars => SoundInv'
<1> SUFFICES ASSUME ShapeInv, SoundInv, [Next]_vars PROVE SoundInv'
  OBVIOUS
<1> USE Places DEF Steps
<1>0. msg \in Message
  BY DEF ShapeInv
<1>1. CASE ChooseClass
  <2>1. /\ msg' = msg /\ cls' # "undecided" /\ pc = "is_response" /\ pc' = "SIPMessage"
    BY <1>1 DEF ChooseClass
  <2>2. ~Reached("SIPMessage")' /\ ~Reached("derived")' /\ ~Accepted'
    BY <2>1 DEF Reached, Accepted
  <2> QED BY <2>1, <2>2 DEF SoundInv
<1>2. CASE Throw
  <2>1. /\ msg' = msg /\ cls' = cls /\ pc = "SIPMessage" /\ pc' = "thrown"
    BY <1>2 DEF Throw
  <2>2. ~Reached("SIPMessage")' /\ ~Reached("derived")' /\ ~Accepted'
    BY <2>1 DEF Reached, Accepted
  <2> QED BY <2>1, <2>2 DEF SoundInv
<1>3. CASE ParseMessage
  BY <1>3, HeaderStep
<1>4. CASE ParseFrom
  BY <1>0, <1>4, StepFrom, SteppedSound DEF Stepped
<1>5. CASE ParseTo
  BY <1>0, <1>5, StepTo, SteppedSound DEF Stepped
<1>6. CASE ParseCSeq
  BY <1>0, <1>6, StepCSeq, SteppedSound DEF Stepped
<1>7. CASE ParseVia
  BY <1>0, <1>7, StepVia, SteppedSound DEF Stepped
<1>8. CASE ParseContact
  BY <1>0, <1>8, StepContact, SteppedSound DEF Stepped
<1>9. CASE ParseContent
  <2>1. PICK next \in {"Content-Type", "Supported"} :
          Stepped("parse_content", next, {"LENGTH_REQUIRED", "BAD_REQUEST"}, {"content_length", "has_content"})
    BY <1>9, StepContent
  <2> QED BY <2>1, SteppedSound DEF Stepped
<1>10. CASE TakeItem
  <2>1. msg' = msg /\ cls' = cls /\ pc' = pc /\ status' = status
    BY <1>10 DEF TakeItem
  <2> QED BY <2>1, SoundKept DEF Reached, Accepted, SoundInv
<1>11. CASE EndOfList
  <2>1. /\ pc \in ListHeader /\ msg' = msg /\ cls' = cls
        /\ pc' = IF status' = "OK" THEN After(pc) ELSE "returned"
    BY <1>11, StepList
  <2>2. /\ pc \in Steps /\ After(pc) \in Steps /\ Place(pc) > 2 /\ Place(pc) < 15 /\ Place(After(pc)) <= 15
    BY <2>1 DEF ListHeader, After
  <2> QED BY <2>1, <2>2, SteppedSound
<1>12. CASE ParseSessionExpire
  BY <1>12, StepSessionExpire, SteppedSound DEF Stepped
<1>13. CASE ParseSdp
  BY <1>13, StepSdp, SteppedSound DEF Stepped
<1>14. CASE ParseDerived
  BY <1>14, DerivedStep
<1>15. CASE ParsePai
  <2> DEFINE found == identities(get_header("P-Asserted-Identity"))
             list == [pai_list |-> found.list]
  <2>1. Ends("parse_pai", IF found.status = "OK" THEN Accept(list) ELSE Reject(found.status), "parse_ppi")
    BY <1>15 DEF ParsePai
  <2> HIDE DEF list
  <2> QED BY <2>1, IdentityStep
<1>16. CASE ParsePpi
  <2> DEFINE found == identities(get_header("p-preferred-identity"))
             list == [ppi_list |-> found.list]
  <2>1. Ends("parse_ppi", IF found.status = "OK" THEN Accept(list) ELSE Reject(found.status), "returned")
    BY <1>16 DEF ParsePpi
  <2> HIDE DEF list
  <2> QED BY <2>1, IdentityStep
<1>17. CASE UNCHANGED vars
  <2>1. msg' = msg /\ cls' = cls /\ pc' = pc /\ status' = status
    BY <1>17 DEF vars
  <2> QED BY <2>1, SoundKept DEF Reached, Accepted, SoundInv
<1> QED
  BY <1>1, <1>2, <1>3, <1>4, <1>5, <1>6, <1>7, <1>8, <1>9, <1>10, <1>11, <1>12, <1>13, <1>14,
     <1>15, <1>16, <1>17 DEF Next, parse_message, Returned

(* What the answers that are OK say of the values they were read from.     *)
LEMMA AnswerRequires ==
  ASSUME msg \in Message
  PROVE  /\ Answer("parse_from").status = "OK" => Required("parse_from")
         /\ Answer("parse_to").status = "OK" => Required("parse_to")
         /\ Answer("parse_cseq").status = "OK" => Required("parse_cseq")
         /\ Answer("parse_via").status = "OK" => Required("parse_via")
         /\ Answer("parse_contact").status = "OK" => Required("parse_contact")
<1>1. ASSUME Answer("parse_from").status = "OK" PROVE Required("parse_from")
  <2>1. InOrder(the_value("From"), <<"sip", "@", Semicolon, "\r">>)
    BY <1>1, LastValue, FromRequires DEF Answer
  <2> QED BY <2>1, Zenon DEF Required, Semicolon
<1>2. ASSUME Answer("parse_to").status = "OK" PROVE Required("parse_to")
  <2>1. InOrder(the_value("To"), <<"sip", "@", "\r">>)
    BY <1>2, LastValue, ToRequires DEF Answer
  <2> QED BY <2>1, Zenon DEF Required
<1>3. ASSUME Answer("parse_cseq").status = "OK" PROVE Required("parse_cseq")
  <2>1. InOrder(the_value("CSeq"), <<Space>>) /\ InOrder(the_value("CSeq"), <<"\r">>)
    BY <1>3, LastValue, CSeqRequires DEF Answer
  <2> QED BY <2>1, Zenon DEF Required, Space
<1>4. ASSUME Answer("parse_via").status = "OK" PROVE Required("parse_via")
  <2> DEFINE vias == get_header("Via")
  <2>1. parse_via(vias).status = "OK"
    BY <1>4 DEF Answer
  <2>2. vias # <<>> /\ \A i \in DOMAIN vias : via_header(vias[i]).status = "OK"
    BY <2>1 DEF parse_via, Reject
  <2>3. ASSUME NEW i \in DOMAIN vias
        PROVE  InOrder(vias[i], <<"SIP/2.0/", Space, ":">>) /\ InOrder(vias[i], <<"branch=", "\r">>)
    BY <2>2, HeaderValues, ViaRequires
  <2> QED BY <2>2, <2>3, Zenon DEF Required, Space
<1>5. ASSUME Answer("parse_contact").status = "OK" PROVE Required("parse_contact")
  <2> DEFINE contacts == get_header("Contact")
  <2>1. parse_contact(contacts).status = "OK"
    BY <1>5 DEF Answer
  <2>2. Len(contacts) \in Nat /\ DOMAIN contacts = 1 .. Len(contacts)
    BY HeaderLines
  <2>3. contacts = <<>> \/ ~(Len(contacts) > 1)
    BY <2>1 DEF parse_contact, Reject
  <2>4. Len(contacts) <= 1
    BY <2>2, <2>3
  <2> QED BY <2>4, Zenon DEF Required
<1> QED BY <1>1, <1>2, <1>3, <1>4, <1>5

LEMMA NamedRequires ==
  ASSUME msg \in Message
  PROVE  /\ Named("P-Asserted-Identity") => Required("parse_pai")
         /\ Named("p-preferred-identity") => Required("parse_ppi")
<1>1. ASSUME NEW name, Named(name)
      PROVE  \A i \in DOMAIN get_header(name) : InOrder(get_header(name)[i], <<"sip", ":", "@">>)
  <2> DEFINE list == get_header(name)
  <2>1. identities(list).status = "OK"
    BY <1>1 DEF Named
  <2>2. ASSUME NEW i \in DOMAIN list PROVE identity(list[i]).status = "OK"
    <3>1. list # <<>>
      OBVIOUS
    <3> HIDE DEF list
    <3> QED BY <2>1, <3>1 DEF identities
  <2> QED BY <2>2, HeaderValues, IdentityRequires
<1>2. ASSUME Named("P-Asserted-Identity") PROVE Required("parse_pai")
  <2>1. \A i \in DOMAIN get_header("P-Asserted-Identity") :
          InOrder(get_header("P-Asserted-Identity")[i], <<"sip", ":", "@">>)
    BY <1>1, <1>2
  <2> QED BY <2>1, Zenon DEF Required
<1>3. ASSUME Named("p-preferred-identity") PROVE Required("parse_ppi")
  <2>1. \A i \in DOMAIN get_header("p-preferred-identity") :
          InOrder(get_header("p-preferred-identity")[i], <<"sip", ":", "@">>)
    BY <1>1, <1>3
  <2> QED BY <2>1, Zenon DEF Required
<1> QED BY <1>2, <1>3

(* A message whose status is OK has what every step it has been through    *)
(* requires: no later success hides a defect.                              *)
THEOREM AcceptedSound == Spec => []AcceptedIsSound
<1>1. ShapeInv /\ AnswerInv /\ SoundInv => AcceptedIsSound
  <2> SUFFICES ASSUME ShapeInv, AnswerInv, SoundInv, Accepted
               PROVE  /\ \A step \in {"SIPMessage", "parse_from", "parse_to", "parse_cseq", "parse_via",
                                      "parse_contact", "derived"} : Required(step)
                      /\ cls = "SIPRequest" /\ parse_method_enum(fields.method) = "INVITE"
                           => Required("parse_pai") /\ Required("parse_ppi")
    BY DEF AcceptedIsSound
  <2>1. msg \in Message /\ IsValue(msg.line)
    BY MessageParts DEF ShapeInv
  <2>2. \A step \in Cutting : step # "derived" => Answer(step).status = "OK"
    BY AcceptedAnswers DEF Taken
  <2>3. /\ Required("parse_from") /\ Required("parse_to") /\ Required("parse_cseq")
        /\ Required("parse_via") /\ Required("parse_contact")
    BY <2>1, <2>2, AnswerRequires DEF Cutting
  <2>4. Reached("SIPMessage") /\ Reached("derived") /\ cls \in {"SIPRequest", "SIPResponse"}
    <3>1. pc = "returned" /\ status = "OK"
      BY DEF Accepted
    <3>2. Reached("SIPMessage") /\ Reached("derived")
      BY <3>1, Places DEF Reached
    <3>3. cls \in {"undecided", "SIPRequest", "SIPResponse"}
      BY DEF ShapeInv, TypeOK
    <3> QED BY <3>1, <3>2, <3>3 DEF SoundInv
  <2>5. Required("SIPMessage")
    BY <2>4 DEF SoundInv, HeaderSound
  <2>6. cls = "SIPRequest" => Taken(Answer("derived")) /\ Answer("derived") = parse_request_line(msg.line)
    BY AcceptedAnswers DEF Cutting, Answer
  <2>7. Required("derived")
    <3>1. CASE cls = "SIPRequest"
      <4>1. InOrder(msg.line, <<Space, Space>>)
        BY <2>1, <2>6, <3>1, RequestRequires DEF Taken
      <4> QED BY <3>1, <4>1, Zenon DEF Required, Space
    <3>2. CASE cls = "SIPResponse"
      <4>1. InOrder(msg.line, <<"SIP/2.0", Space>>)
        BY <2>1, <2>4, <3>2, StatusRequires DEF SoundInv, StatusSound
      <4>2. cls # "SIPRequest"
        BY <3>2
      <4> QED BY <4>1, <4>2, Zenon DEF Required, Space
    <3> QED BY <2>4, <3>1, <3>2
  <2>8. ASSUME cls = "SIPRequest", parse_method_enum(fields.method) = "INVITE"
        PROVE  Required("parse_pai") /\ Required("parse_ppi")
    <3> DEFINE result == parse_request_line(msg.line)
    <3>1. Taken(result)
      BY <2>6, <2>8
    <3>2. "method" \in DOMAIN result.fields
      <4>1. result.status = "OK"
        BY <3>1 DEF Taken
      <4> QED BY <4>1 DEF parse_request_line, Accept, Reject
    <3>3. fields.method = result.fields.method
      BY <3>1, <3>2 DEF Taken
    <3>4. Invites
      BY <2>8, <3>3 DEF Invites
    <3> QED BY <2>1, <2>8, <3>4, NamedRequires DEF SoundInv
  <2> QED BY <2>3, <2>5, <2>7, <2>8
<1> QED BY ShapeInit, ShapeNext, AnswerInit, AnswerNext, SoundInit, SoundNext, <1>1, PTL DEF Spec
=============================================================================

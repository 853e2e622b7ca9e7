------------------------- MODULE HeaderFieldsProofs -------------------------
(***************************************************************************)
(* The position arithmetic of HeaderFields goes past no end, for values of *)
(* every length. Each search answers a position inside the value or npos   *)
(* (Inside). Of a position inside, the next one is at most the length and  *)
(* the next of npos is 0, because the arithmetic wraps; so every substr of *)
(* every function begins at most at the end. What has a separator missing  *)
(* is either refused or cut out wrongly, but not out of range.             *)
(***************************************************************************)
EXTENDS HeaderFields, FiniteSetTheorems, WellFoundedInduction, TLAPS

(* Positions of size_t below its number of values are themselves.          *)
LEMMA ModSmall ==
  ASSUME NEW a \in Nat, a < SizeT
  PROVE  a % SizeT = a
BY HeaderFieldsAssumption

LEMMA ModRange ==
  ASSUME NEW a \in Int
  PROVE  a % SizeT \in Nat /\ a % SizeT < SizeT
BY HeaderFieldsAssumption

LEMMA ModWrap ==
  ASSUME NEW a \in Nat, a < SizeT
  PROVE  (SizeT + a) % SizeT = a
BY HeaderFieldsAssumption

(* Every set of natural numbers that is not empty has a least member.      *)
LEMMA Least ==
  ASSUME NEW A \in SUBSET Nat, A # {}
  PROVE  Min(A) \in A /\ \A k \in A : Min(A) <= k
<1> DEFINE T == {0 .. n : n \in A}
<1>1. T \subseteq FiniteSubsetsOf(Nat) /\ T # {}
  <2>1. ASSUME NEW n \in A PROVE IsFiniteSet(0 .. n) /\ 0 .. n \subseteq Nat
    <3>1. 0 \in Int /\ n \in Int
      OBVIOUS
    <3> QED BY <3>1, FS_Interval
  <2> QED BY <2>1 DEF FiniteSubsetsOf
<1>2. PICK x \in T : \A y \in T : <<y, x>> \notin StrictSubsetOrdering(Nat)
  BY <1>1, FS_StrictSubsetOrderingWellFounded, WFMin
<1>3. PICK m \in A : x = 0 .. m
  BY <1>2
<1>4. ASSUME NEW k \in A, k < m PROVE FALSE
  <2>1. 0 .. k \in T /\ 0 .. k \subseteq 0 .. m /\ 0 .. k # 0 .. m /\ 0 .. m \subseteq Nat
    BY <1>4
  <2>2. <<0 .. k, 0 .. m>> \in StrictSubsetOrdering(Nat)
    BY <2>1 DEF StrictSubsetOrdering
  <2> QED BY <1>2, <1>3, <2>1, <2>2
<1>5. \A k \in A : m <= k
  BY <1>4
<1> QED BY <1>5 DEF Min

-----------------------------------------------------------------------------
(* Positions and what is cut between them *)

(* A search finds nothing, or the whole of what it looks for, not before   *)
(* the position it started from.                                           *)
LEMMA FindPosition ==
  ASSUME NEW what, Len(what) \in Nat, NEW value \in Seq(STRING), NEW from \in Nat
  PROVE  \/ find(what, value, from) = npos
         \/ /\ find(what, value, from) \in Nat
            /\ from <= find(what, value, from)
            /\ find(what, value, from) + Len(what) <= Len(value)
<1> DEFINE At == {i \in from .. Len(value) - Len(what) : SubSeq(value, i + 1, i + Len(what)) = what}
<1>1. Len(value) \in Nat /\ Len(what) \in Nat
  OBVIOUS
<1>2. At \in SUBSET Nat /\ \A i \in At : from <= i /\ i + Len(what) <= Len(value)
  BY <1>1
<1>3. find(what, value, from) = IF At = {} THEN npos ELSE Min(At)
  BY DEF find
<1>4. CASE At = {}
  BY <1>3, <1>4
<1>5. CASE At # {}
  <2>1. Min(At) \in At
    BY <1>2, <1>5, Least
  <2> QED BY <1>2, <1>3, <1>5, <2>1
<1> QED BY <1>4, <1>5

(* The same for a literal, which is a token or two, in a value: nothing is *)
(* mistaken for npos, and two more is still a position of size_t.          *)
LEMMA FindToken ==
  ASSUME NEW what, Len(what) \in Nat, Len(what) >= 1, NEW value, IsValue(value), NEW from \in Nat
  PROVE  \/ find(what, value, from) = npos
         \/ /\ find(what, value, from) \in Nat
            /\ find(what, value, from) # npos
            /\ from <= find(what, value, from)
            /\ find(what, value, from) + Len(what) <= Len(value)
            /\ find(what, value, from) + 2 < SizeT
<1>1. value \in Seq(STRING) /\ 2 * Len(value) < SizeT /\ Len(value) \in Nat /\ Len(what) \in Nat
  BY DEF IsValue
<1>2. SizeT \in Nat /\ SizeT > 63
  BY HeaderFieldsAssumption
<1> DEFINE r == find(what, value, from)
<1>3. CASE r = npos
  BY <1>3
<1>4. CASE r \in Nat /\ from <= r /\ r + Len(what) <= Len(value)
  <2> HIDE DEF r
  <2>1. r <= Len(value) - 1
    BY <1>1, <1>4
  <2>2. r + 2 < SizeT
    BY <1>1, <1>2, <1>4, <2>1
  <2>3. r # npos
    BY <1>2, <1>4, <2>2 DEF npos
  <2> QED BY <1>4, <2>2, <2>3 DEF r
<1> QED BY <1>1, <1>3, <1>4, FindPosition

LEMMA PlusSmall ==
  ASSUME NEW a \in Nat, NEW n \in Nat, a + n < SizeT
  PROVE  Plus(a, n) = a + n
BY ModSmall DEF Plus

LEMMA PlusNpos ==
  ASSUME NEW n \in Nat, 1 <= n, n <= 8
  PROVE  Plus(npos, n) = n - 1
<1>1. SizeT \in Nat /\ SizeT > 63
  BY HeaderFieldsAssumption
<1>2. npos + n = SizeT + (n - 1) /\ n - 1 \in Nat /\ n - 1 < SizeT
  BY <1>1 DEF npos
<1> QED BY <1>2, ModWrap DEF Plus

LEMMA MinusNat ==
  ASSUME NEW a \in Int, NEW n \in Int
  PROVE  Minus(a, n) \in Nat
BY ModRange DEF Minus

(* What begins inside the value can be cut out of it.                      *)
LEMMA SubstrInside ==
  ASSUME NEW value, IsValue(value), NEW pos \in Nat, pos <= Len(value), NEW n \in Nat
  PROVE  substr(value, pos, n) # OutOfRange
<1>1. value \in Seq(STRING) /\ Len(value) \in Nat /\ \A i \in DOMAIN value : value[i] # "out_of_range"
  BY DEF IsValue
<1> DEFINE end == Min({pos + n, Len(value)})
           cut == SubSeq(value, pos + 1, end)
<1>2. end \in Nat /\ end <= Len(value)
  <2>1. {pos + n, Len(value)} \in SUBSET Nat /\ {pos + n, Len(value)} # {}
    BY <1>1
  <2>2. end \in {pos + n, Len(value)} /\ end <= Len(value)
    BY <2>1, Least
  <2> QED BY <1>1, <2>2
<1>3. substr(value, pos, n) = cut
  <2>1. ~(pos > Len(value))
    BY <1>1
  <2> QED BY <2>1, Zenon DEF substr
<1> HIDE DEF end
<1>4. cut \in Seq(STRING) /\ Len(cut) = IF pos + 1 <= end THEN end - pos ELSE 0
  BY <1>1, <1>2
<1>5. ASSUME Len(cut) >= 1 PROVE cut[1] # "out_of_range"
  <2>1. pos + 1 <= end
    BY <1>2, <1>4, <1>5
  <2>2. cut[1] = value[pos + 1]
    BY <1>1, <1>2, <2>1
  <2>3. pos + 1 \in DOMAIN value
    BY <1>1, <1>2, <2>1
  <2> QED BY <1>1, <2>2, <2>3
<1> HIDE DEF cut
<1>6. cut # OutOfRange
  <2> SUFFICES ASSUME cut = OutOfRange PROVE FALSE
    OBVIOUS
  <2>1. Len(cut) = 1 /\ cut[1] = "out_of_range"
    BY DEF OutOfRange
  <2> QED BY <1>5, <2>1
<1> QED BY <1>3, <1>6

(* A position one may cut after: npos, which wraps around to the beginning,*)
(* or one inside the value.                                                *)
Inside(p, value) == p = npos \/ (p \in Nat /\ p + 1 <= Len(value) /\ p + 2 < SizeT)

LEMMA InsideNext ==
  ASSUME NEW value, IsValue(value), NEW p, Inside(p, value)
  PROVE  /\ p \in Nat
         /\ Plus(p, 1) \in Nat
         /\ Plus(p, 1) <= Len(value)
         /\ p # npos => Plus(p, 1) = p + 1
<1>1. SizeT \in Nat /\ SizeT > 63 /\ Len(value) \in Nat
  BY HeaderFieldsAssumption DEF IsValue
<1>2. CASE p = npos
  BY <1>1, <1>2, PlusNpos DEF npos
<1>3. CASE p \in Nat /\ p + 1 <= Len(value) /\ p + 2 < SizeT
  <2>1. Plus(p, 1) = p + 1
    BY <1>1, <1>3, PlusSmall
  <2> QED BY <1>1, <1>3, <2>1
<1> QED BY <1>2, <1>3 DEF Inside

(* Where a literal is found is inside, not before the search began.        *)
LEMMA FindInside ==
  ASSUME NEW what, Len(what) \in Nat, Len(what) >= 1, NEW value, IsValue(value), NEW from \in Nat
  PROVE  /\ Inside(find(what, value, from), value)
         /\ find(what, value, from) # npos =>
              /\ from <= find(what, value, from)
              /\ find(what, value, from) + Len(what) <= Len(value)
<1>1. Len(what) \in Nat /\ Len(value) \in Nat
  BY DEF IsValue
<1> QED BY <1>1, FindToken DEF Inside

LEMMA BetweenInside ==
  ASSUME NEW value, IsValue(value), NEW left, Inside(left, value), NEW right \in Nat
  PROVE  Between(value, left, right) # OutOfRange
<1>1. Plus(left, 1) \in Nat /\ Plus(left, 1) <= Len(value) /\ left \in Nat
  BY InsideNext
<1>2. Minus(right, left + 1) \in Nat
  <2>1. right \in Int /\ left + 1 \in Int
    BY <1>1
  <2> QED BY <2>1, MinusNat
<1> QED BY <1>1, <1>2, SubstrInside DEF Between

(* The literals are a token, or two: "sip" and what follows it.            *)
LEMMA FindOne ==
  ASSUME NEW token, NEW value, IsValue(value), NEW from \in Nat
  PROVE  /\ Inside(find(<<token>>, value, from), value)
         /\ find(<<token>>, value, from) \in Nat
         /\ find(<<token>>, value, from) # npos =>
              /\ from <= find(<<token>>, value, from)
              /\ find(<<token>>, value, from) + 1 <= Len(value)
<1> DEFINE what == <<token>>
<1>1. Len(what) = 1
  OBVIOUS
<1> HIDE DEF what
<1>2. /\ Inside(find(what, value, from), value)
      /\ find(what, value, from) # npos =>
           from <= find(what, value, from) /\ find(what, value, from) + Len(what) <= Len(value)
  <2>1. Len(what) \in Nat /\ Len(what) >= 1
    BY <1>1
  <2> QED BY <2>1, FindInside
<1>3. find(what, value, from) \in Nat
  BY <1>2, InsideNext
<1> QED BY <1>1, <1>2, <1>3 DEF what

LEMMA FindTwo ==
  ASSUME NEW a, NEW b, NEW value, IsValue(value), NEW from \in Nat
  PROVE  /\ Inside(find(<<a, b>>, value, from), value)
         /\ find(<<a, b>>, value, from) \in Nat
         /\ find(<<a, b>>, value, from) # npos =>
              /\ from <= find(<<a, b>>, value, from)
              /\ find(<<a, b>>, value, from) + 2 <= Len(value)
<1> DEFINE what == <<a, b>>
<1>1. Len(what) = 2
  OBVIOUS
<1> HIDE DEF what
<1>2. /\ Inside(find(what, value, from), value)
      /\ find(what, value, from) # npos =>
           from <= find(what, value, from) /\ find(what, value, from) + 2 <= Len(value)
  <2>1. Len(what) \in Nat /\ Len(what) >= 1
    BY <1>1
  <2>2. /\ Inside(find(what, value, from), value)
        /\ find(what, value, from) # npos =>
             from <= find(what, value, from) /\ find(what, value, from) + Len(what) <= Len(value)
    BY <2>1, FindInside
  <2> QED BY <1>1, <2>2
<1>3. find(what, value, from) \in Nat
  BY <1>2, InsideNext
<1> QED BY <1>2, <1>3 DEF what

LEMMA Lengths ==
  ASSUME NEW value, IsValue(value)
  PROVE  Len(value) \in Nat /\ 2 * Len(value) < SizeT /\ SizeT \in Nat /\ npos \in Nat /\ npos > 2 * Len(value) - 1
BY HeaderFieldsAssumption DEF IsValue, npos

-----------------------------------------------------------------------------
(* What the functions answer *)

(* A result of a function that cuts these members out of a value: accepted *)
(* or refused with this code, and no substr began past the end.            *)
Sound(result, members, code) ==
  /\ result.status \in {"OK", code}
  /\ DOMAIN result.fields \subseteq members
  /\ \A f \in DOMAIN result.fields : result.fields[f] # OutOfRange

LEMMA RejectSound ==
  ASSUME NEW members, NEW code, code # "OK"
  PROVE  Sound(Reject(code), members, code)
BY DEF Sound, Reject

LEMMA FromSound ==
  ASSUME NEW value, IsValue(value)
  PROVE  Sound(parse_from(value), {"from_uri", "from_host", "from_tag"}, "BAD_REQUEST")
<1> DEFINE first_sep == find(<<"sip">>, value, 0)
           host_sep  == find(<<"@">>, value, Plus(first_sep, 1))
           end_brack == find(<<">">>, value, Plus(host_sep, 1))
           last_sep  == find(<<";">>, value, AfterAddress(host_sep, end_brack))
           line_end  == find(<<"\r">>, value, Plus(last_sep, 1))
           uri  == substr(value, first_sep + 2, Minus(host_sep, first_sep + 2))
           host == Between(value, host_sep, IF end_brack # npos THEN end_brack ELSE last_sep)
           tag  == Between(value, last_sep, line_end)
<1>1. parse_from(value) =
        IF npos \in {first_sep, host_sep, last_sep, line_end}
          THEN Reject("BAD_REQUEST")
          ELSE Accept([from_uri |-> uri, from_host |-> host, from_tag |-> tag])
  BY DEF parse_from
<1>2. Inside(first_sep, value) /\ first_sep \in Nat
  BY FindOne
<1> HIDE DEF first_sep
<1>3. /\ Inside(host_sep, value) /\ host_sep \in Nat
      /\ host_sep # npos => Plus(first_sep, 1) <= host_sep /\ host_sep + 1 <= Len(value)
  BY <1>2, FindOne, InsideNext
<1> HIDE DEF host_sep
<1>4. Inside(end_brack, value) /\ end_brack \in Nat
  BY <1>3, FindOne, InsideNext
<1> HIDE DEF end_brack
<1>5. Inside(last_sep, value) /\ last_sep \in Nat
  <2>1. AfterAddress(host_sep, end_brack) \in Nat
    BY <1>3, <1>4, InsideNext DEF AfterAddress
  <2> QED BY <2>1, FindOne
<1> HIDE DEF last_sep
<1>6. Inside(line_end, value) /\ line_end \in Nat
  BY <1>5, FindOne, InsideNext
<1> HIDE DEF line_end
<1>7. CASE npos \in {first_sep, host_sep, last_sep, line_end}
  BY <1>1, <1>7, RejectSound
<1>8. CASE npos \notin {first_sep, host_sep, last_sep, line_end}
  <2>1. uri # OutOfRange
    <3>1. first_sep + 2 \in Nat /\ first_sep + 2 <= Len(value)
      BY <1>2, <1>3, <1>8, InsideNext, Lengths
    <3>2. host_sep \in Int /\ first_sep + 2 \in Int
      BY <1>2, <1>3
    <3>3. Minus(host_sep, first_sep + 2) \in Nat
      BY <3>2, MinusNat
    <3> QED BY <3>1, <3>3, SubstrInside
  <2>2. host # OutOfRange
    BY <1>3, <1>4, <1>5, BetweenInside
  <2>3. tag # OutOfRange
    BY <1>5, <1>6, BetweenInside
  <2> HIDE DEF uri, host, tag
  <2>4. parse_from(value) = [status |-> "OK", fields |-> [from_uri |-> uri, from_host |-> host, from_tag |-> tag]]
    BY <1>1, <1>8 DEF Accept
  <2> QED BY <2>1, <2>2, <2>3, <2>4 DEF Sound
<1> QED BY <1>7, <1>8

LEMMA ToSound ==
  ASSUME NEW value, IsValue(value)
  PROVE  Sound(parse_to(value), {"to_uri", "to_host", "to_tag"}, "BAD_REQUEST")
<1> DEFINE first_sep == find(<<"sip">>, value, 0)
           host_sep  == find(<<"@">>, value, Plus(first_sep, 1))
           line_end  == find(<<"\r">>, value, Plus(host_sep, 1))
           end_brack == find(<<">">>, value, Plus(host_sep, 1))
           last_sep  == find(<<";">>, value, AfterAddress(host_sep, end_brack))
           host_end  == IF end_brack # npos THEN end_brack
                        ELSE IF last_sep # npos THEN last_sep ELSE line_end
           uri  == substr(value, first_sep + 2, Minus(host_sep, first_sep + 2))
           host == Between(value, host_sep, host_end)
           tag  == IF last_sep = npos THEN <<>> ELSE Between(value, last_sep, line_end)
<1>1. parse_to(value) =
        IF npos \in {first_sep, host_sep, line_end}
          THEN Reject("BAD_REQUEST")
          ELSE Accept([to_uri |-> uri, to_host |-> host, to_tag |-> tag])
  BY DEF parse_to
<1>2. Inside(first_sep, value) /\ first_sep \in Nat
  BY FindOne
<1> HIDE DEF first_sep
<1>3. /\ Inside(host_sep, value) /\ host_sep \in Nat
      /\ host_sep # npos => Plus(first_sep, 1) <= host_sep /\ host_sep + 1 <= Len(value)
  BY <1>2, FindOne, InsideNext
<1> HIDE DEF host_sep
<1>4. Inside(end_brack, value) /\ end_brack \in Nat /\ Inside(line_end, value) /\ line_end \in Nat
  BY <1>3, FindOne, InsideNext
<1> HIDE DEF end_brack, line_end
<1>5. Inside(last_sep, value) /\ last_sep \in Nat
  <2>1. AfterAddress(host_sep, end_brack) \in Nat
    BY <1>3, <1>4, InsideNext DEF AfterAddress
  <2> QED BY <2>1, FindOne
<1> HIDE DEF last_sep
<1>6. host_end \in Nat
  BY <1>4, <1>5
<1> HIDE DEF host_end
<1>7. CASE npos \in {first_sep, host_sep, line_end}
  BY <1>1, <1>7, RejectSound
<1>8. CASE npos \notin {first_sep, host_sep, line_end}
  <2>1. uri # OutOfRange
    <3>1. first_sep + 2 \in Nat /\ first_sep + 2 <= Len(value)
      BY <1>2, <1>3, <1>8, InsideNext, Lengths
    <3>2. host_sep \in Int /\ first_sep + 2 \in Int
      BY <1>2, <1>3
    <3>3. Minus(host_sep, first_sep + 2) \in Nat
      BY <3>2, MinusNat
    <3> QED BY <3>1, <3>3, SubstrInside
  <2>2. host # OutOfRange
    BY <1>3, <1>6, BetweenInside
  <2>3. tag # OutOfRange
    <3>1. <<>> # OutOfRange
      BY DEF OutOfRange
    <3> QED BY <1>4, <1>5, <3>1, BetweenInside
  <2> HIDE DEF uri, host, tag
  <2>4. parse_to(value) = [status |-> "OK", fields |-> [to_uri |-> uri, to_host |-> host, to_tag |-> tag]]
    BY <1>1, <1>8 DEF Accept
  <2> QED BY <2>1, <2>2, <2>3, <2>4 DEF Sound
<1> QED BY <1>7, <1>8

LEMMA CSeqSound ==
  ASSUME NEW value, IsValue(value)
  PROVE  Sound(parse_cseq(value), {"cseq_nr", "cseq_typ"}, "BAD_REQUEST")
<1> DEFINE first_space == find(<<" ">>, value, 0)
           line_end    == find(<<"\r">>, value, 0)
           nr  == substr(value, 0, first_space)
           typ == Between(value, first_space, line_end)
<1>1. parse_cseq(value) =
        IF npos \in {first_space, line_end}
          THEN Reject("BAD_REQUEST") ELSE Accept([cseq_nr |-> nr, cseq_typ |-> typ])
  BY DEF parse_cseq
<1>2. Inside(first_space, value) /\ first_space \in Nat /\ Inside(line_end, value) /\ line_end \in Nat
  BY FindOne
<1> HIDE DEF first_space, line_end
<1>3. nr # OutOfRange
  BY <1>2, SubstrInside, Lengths
<1>4. typ # OutOfRange
  BY <1>2, BetweenInside
<1> HIDE DEF nr, typ
<1>5. CASE npos \in {first_space, line_end}
  BY <1>1, <1>5, RejectSound
<1>6. CASE npos \notin {first_space, line_end}
  <2>1. parse_cseq(value) = [status |-> "OK", fields |-> [cseq_nr |-> nr, cseq_typ |-> typ]]
    BY <1>1, <1>6 DEF Accept
  <2> QED BY <1>3, <1>4, <2>1 DEF Sound
<1> QED BY <1>5, <1>6

LEMMA ViaHeaderSound ==
  ASSUME NEW value, IsValue(value)
  PROVE  Sound(via_header(value), {"transport", "uri", "port", "branch"}, "BAD_REQUEST")
<1> DEFINE transport_begin == find(<<"SIP/2.0/">>, value, 0)
           uri_begin    == find(<<" ">>, value, Plus(transport_begin, 1))
           port_sep     == find(<<":">>, value, Plus(uri_begin, 1))
           branch_begin == find(<<"branch=">>, value, 0)
           line_end     == find(<<"\r">>, value, branch_begin)
           transport == Between(value, transport_begin, uri_begin)
           uri       == Between(value, uri_begin, port_sep)
           port      == substr(value, port_sep + 1, PortLength(branch_begin, port_sep))
           branch    == Between(value, branch_begin, line_end)
<1>1. via_header(value) =
        IF npos \in {transport_begin, uri_begin, port_sep, branch_begin, line_end}
          THEN Reject("BAD_REQUEST")
          ELSE Accept([transport |-> transport, uri |-> uri, port |-> port, branch |-> branch])
  BY DEF via_header
<1>2. /\ Inside(transport_begin, value) /\ transport_begin \in Nat
      /\ Inside(branch_begin, value) /\ branch_begin \in Nat
  BY FindOne
<1> HIDE DEF transport_begin, branch_begin
<1>3. Inside(uri_begin, value) /\ uri_begin \in Nat
  BY <1>2, FindOne, InsideNext
<1> HIDE DEF uri_begin
<1>4. /\ Inside(port_sep, value) /\ port_sep \in Nat
      /\ port_sep # npos => port_sep + 1 <= Len(value)
  BY <1>3, FindOne, InsideNext
<1> HIDE DEF port_sep
<1>5. Inside(line_end, value) /\ line_end \in Nat
  BY <1>2, FindOne
<1> HIDE DEF line_end
<1>6. CASE npos \in {transport_begin, uri_begin, port_sep, branch_begin, line_end}
  BY <1>1, <1>6, RejectSound
<1>7. CASE npos \notin {transport_begin, uri_begin, port_sep, branch_begin, line_end}
  <2>1. transport # OutOfRange /\ uri # OutOfRange /\ branch # OutOfRange
    BY <1>2, <1>3, <1>4, <1>5, BetweenInside
  <2>2. port # OutOfRange
    <3>1. branch_begin \in Int /\ port_sep + 2 \in Int /\ port_sep + 1 \in Nat /\ port_sep + 1 <= Len(value)
      BY <1>2, <1>4, <1>7
    <3>2. PortLength(branch_begin, port_sep) \in Nat
      BY <3>1, MinusNat DEF PortLength
    <3> QED BY <3>1, <3>2, SubstrInside
  <2> HIDE DEF transport, uri, port, branch
  <2>3. via_header(value) =
          [status |-> "OK", fields |-> [transport |-> transport, uri |-> uri, port |-> port, branch |-> branch]]
    BY <1>1, <1>7 DEF Accept
  <2> QED BY <2>1, <2>2, <2>3 DEF Sound
<1> QED BY <1>6, <1>7

(* The list has one entry for each value.                                  *)
LEMMA ViaSound ==
  ASSUME NEW values, \A i \in DOMAIN values : IsValue(values[i])
  PROVE  LET result == parse_via(values)
         IN  /\ result.status \in {"OK", "BAD_REQUEST"}
             /\ DOMAIN result.fields \subseteq {"via_list"}
             /\ "via_list" \in DOMAIN result.fields =>
                  \A i \in DOMAIN result.fields.via_list :
                    OutOfRange \notin {result.fields.via_list[i][f] : f \in DOMAIN result.fields.via_list[i]}
<1> DEFINE list == [i \in DOMAIN values |-> via_header(values[i]).fields]
<1>1. CASE values = <<>> \/ \E i \in DOMAIN values : via_header(values[i]).status # "OK"
  <2>1. parse_via(values) = [status |-> "BAD_REQUEST", fields |-> <<>>]
    BY <1>1 DEF parse_via, Reject
  <2> QED BY <2>1
<1>2. CASE ~(values = <<>> \/ \E i \in DOMAIN values : via_header(values[i]).status # "OK")
  <2>1. parse_via(values) = [status |-> "OK", fields |-> [via_list |-> list]]
    BY <1>2 DEF parse_via, Accept
  <2>2. \A i \in DOMAIN list : OutOfRange \notin {list[i][f] : f \in DOMAIN list[i]}
    <3> TAKE i \in DOMAIN list
    <3>1. IsValue(values[i]) /\ list[i] = via_header(values[i]).fields
      OBVIOUS
    <3>2. \A f \in DOMAIN via_header(values[i]).fields : via_header(values[i]).fields[f] # OutOfRange
      BY <3>1, ViaHeaderSound DEF Sound
    <3> QED BY <3>1, <3>2
  <2> HIDE DEF list
  <2> QED BY <2>1, <2>2
<1> QED BY <1>1, <1>2

LEMMA ContactSound ==
  ASSUME NEW values, \A i \in DOMAIN values : IsValue(values[i]), values # <<>> => 1 \in DOMAIN values
  PROVE  Sound(parse_contact(values),
               {"contact_uri", "contact_host", "contact_port", "contact_transport", "contact_param"},
               "BAD_REQUEST")
<1> DEFINE value      == values[1]
           uri_begin  == find(<<"sip", ":">>, value, 0)
           host_sep   == find(<<"@">>, value, uri_begin)
           port_sep   == find(<<":">>, value, host_sep)
           param_sep  == find(<<";">>, value, port_sep)
           header_end == find(<<">">>, value, host_sep)
           line_end   == find(<<"\r">>, value, 0)
           uri   == substr(value, Plus(uri_begin, 2), Minus(host_sep, uri_begin + 2))
           host  == Between(value, host_sep, port_sep)
           port  == Between(value, port_sep, param_sep)
           transport == Between(value, param_sep, header_end)
           param == Between(value, header_end, line_end)
<1>1. CASE values = <<>>
  <2>1. parse_contact(values) = [status |-> "OK", fields |-> <<>>]
    BY <1>1 DEF parse_contact, Accept
  <2> QED BY <2>1 DEF Sound
<1>2. CASE values # <<>> /\ Len(values) > 1
  <2>1. parse_contact(values) = Reject("BAD_REQUEST")
    BY <1>2 DEF parse_contact
  <2> QED BY <2>1, RejectSound
<1>3. CASE values # <<>> /\ ~(Len(values) > 1)
  <2>1. parse_contact(values) =
          IF uri_begin = npos /\ host_sep = npos
            THEN Reject("BAD_REQUEST")
            ELSE Accept([contact_uri |-> uri, contact_host |-> host, contact_port |-> port,
                         contact_transport |-> transport, contact_param |-> param])
    BY <1>3 DEF parse_contact
  <2>2. IsValue(value)
    BY <1>3
  <2> HIDE DEF value
  <2>3. /\ Inside(uri_begin, value) /\ uri_begin \in Nat
        /\ uri_begin # npos => uri_begin + 2 <= Len(value)
        /\ Inside(line_end, value) /\ line_end \in Nat
    BY <2>2, FindOne, FindTwo
  <2> HIDE DEF uri_begin, line_end
  <2>4. /\ Inside(host_sep, value) /\ host_sep \in Nat
        /\ host_sep # npos => host_sep + 1 <= Len(value)
    BY <2>2, <2>3, FindOne
  <2> HIDE DEF host_sep
  <2>5. Inside(port_sep, value) /\ port_sep \in Nat /\ Inside(header_end, value) /\ header_end \in Nat
    BY <2>2, <2>4, FindOne
  <2> HIDE DEF port_sep, header_end
  <2>6. Inside(param_sep, value) /\ param_sep \in Nat
    BY <2>2, <2>5, FindOne
  <2> HIDE DEF param_sep
  <2>7. CASE uri_begin = npos /\ host_sep = npos
    BY <2>1, <2>7, RejectSound
  <2>8. CASE ~(uri_begin = npos /\ host_sep = npos)
    <3>1. host # OutOfRange /\ port # OutOfRange /\ transport # OutOfRange /\ param # OutOfRange
      BY <2>2, <2>3, <2>4, <2>5, <2>6, BetweenInside
    <3>2. uri # OutOfRange
      <4>1. Plus(uri_begin, 2) \in Nat /\ Plus(uri_begin, 2) <= Len(value)
        <5>1. CASE uri_begin = npos
          <6>1. Plus(uri_begin, 2) = 1
            BY <5>1, PlusNpos
          <6> QED BY <2>2, <2>4, <2>8, <5>1, <6>1, Lengths
        <5>2. CASE uri_begin # npos
          <6>1. uri_begin + 2 < SizeT
            BY <2>3, <5>2 DEF Inside
          <6> QED BY <2>3, <5>2, <6>1, PlusSmall
        <5> QED BY <5>1, <5>2
      <4>2. host_sep \in Int /\ uri_begin + 2 \in Int
        BY <2>3, <2>4
      <4>3. Minus(host_sep, uri_begin + 2) \in Nat
        BY <4>2, MinusNat
      <4> QED BY <2>2, <4>1, <4>3, SubstrInside
    <3> HIDE DEF uri, host, port, transport, param
    <3>3. parse_contact(values) =
            [status |-> "OK", fields |-> [contact_uri |-> uri, contact_host |-> host, contact_port |-> port,
                                          contact_transport |-> transport, contact_param |-> param]]
      BY <2>1, <2>8 DEF Accept
    <3> QED BY <3>1, <3>2, <3>3 DEF Sound
  <2> QED BY <2>7, <2>8
<1> QED BY <1>1, <1>2, <1>3

LEMMA RequestLineSound ==
  ASSUME NEW line, IsValue(line)
  PROVE  Sound(parse_request_line(line), {"method", "request_uri", "request_host"}, "BAD_REQUEST")
<1> DEFINE first_space    == find(<<" ">>, line, 0)
           second_space   == find(<<" ">>, line, Plus(first_space, 1))
           host_seperator == find(<<"@">>, line, Plus(first_space, 1))
           method == substr(line, 0, first_space)
           uri    == Between(line, first_space, host_seperator)
           host   == Between(line, host_seperator, second_space)
<1>1. parse_request_line(line) =
        IF npos \in {first_space, second_space}
          THEN Reject("BAD_REQUEST")
          ELSE Accept([method |-> method, request_uri |-> uri, request_host |-> host])
  BY DEF parse_request_line
<1>2. Inside(first_space, line) /\ first_space \in Nat
  BY FindOne
<1> HIDE DEF first_space
<1>3. /\ Inside(second_space, line) /\ second_space \in Nat
      /\ Inside(host_seperator, line) /\ host_seperator \in Nat
  BY <1>2, FindOne, InsideNext
<1> HIDE DEF second_space, host_seperator
<1>4. method # OutOfRange /\ uri # OutOfRange /\ host # OutOfRange
  BY <1>2, <1>3, SubstrInside, BetweenInside, Lengths
<1> HIDE DEF method, uri, host
<1>5. CASE npos \in {first_space, second_space}
  BY <1>1, <1>5, RejectSound
<1>6. CASE npos \notin {first_space, second_space}
  <2>1. parse_request_line(line) =
          [status |-> "OK", fields |-> [method |-> method, request_uri |-> uri, request_host |-> host]]
    BY <1>1, <1>6 DEF Accept
  <2> QED BY <1>4, <2>1 DEF Sound
<1> QED BY <1>5, <1>6

LEMMA StatusLineSound ==
  ASSUME NEW line, IsValue(line)
  PROVE  Sound(parse_status_line(line), {"response_code", "response_type"}, "BAD_REQUEST")
<1> DEFINE code_start == find(<<"SIP/2.0">>, line, 0)
           code_sep   == find(<<" ">>, line, Plus(code_start, 2))
           code       == substr(line, code_start + 2, Minus(code_sep, code_start + 2))
           type       == substr(line, code_sep + 1, npos)
<1>1. parse_status_line(line) =
        IF npos \in {code_start, code_sep} \/ stoi(code) = NotANumber
          THEN Reject("BAD_REQUEST")
          ELSE Accept([response_code |-> code, response_type |-> type])
  BY DEF parse_status_line
<1>2. Inside(code_start, line) /\ code_start \in Nat
  BY FindOne
<1> HIDE DEF code_start
<1>3. /\ Plus(code_start, 2) \in Nat
      /\ code_start # npos => Plus(code_start, 2) = code_start + 2
  <2>1. CASE code_start = npos
    BY <2>1, PlusNpos
  <2>2. CASE code_start # npos
    BY <1>2, <2>2, PlusSmall DEF Inside
  <2> QED BY <2>1, <2>2
<1>4. /\ code_sep \in Nat
      /\ code_sep # npos => Plus(code_start, 2) <= code_sep /\ code_sep + 1 <= Len(line)
  BY <1>3, FindOne
<1> HIDE DEF code_sep
<1>5. CASE npos \in {code_start, code_sep} \/ stoi(code) = NotANumber
  BY <1>1, <1>5, RejectSound
<1>6. CASE ~(npos \in {code_start, code_sep} \/ stoi(code) = NotANumber)
  <2>1. /\ code_start + 2 \in Nat /\ code_start + 2 <= Len(line)
        /\ code_sep + 1 \in Nat /\ code_sep + 1 <= Len(line)
        /\ code_sep \in Int /\ code_start + 2 \in Int
    BY <1>2, <1>3, <1>4, <1>6, Lengths
  <2>2. Minus(code_sep, code_start + 2) \in Nat /\ npos \in Nat
    BY <2>1, MinusNat, Lengths
  <2>3. code # OutOfRange /\ type # OutOfRange
    BY <2>1, <2>2, SubstrInside
  <2> HIDE DEF code, type
  <2>4. parse_status_line(line) = [status |-> "OK", fields |-> [response_code |-> code, response_type |-> type]]
    BY <1>1, <1>6 DEF Accept
  <2> QED BY <2>3, <2>4 DEF Sound
<1> QED BY <1>5, <1>6

LEMMA IdentitySound ==
  ASSUME NEW value, IsValue(value)
  PROVE  /\ Sound(identity(value), {"uri", "host"}, "UNSUPPORTED_URI_SCHEME")
         /\ identity(value).status = "OK" => DOMAIN identity(value).fields = {"uri", "host"}
<1> DEFINE uri_begin == find(<<"sip", ":">>, value, 0)
           host_sep  == find(<<"@">>, value, Plus(uri_begin, 2))
           bracket   == find(<<">">>, value, Plus(host_sep, 1))
           line_end  == IF bracket # npos THEN bracket ELSE find(<<"\r">>, value, 0)
           uri  == substr(value, uri_begin + 2, Minus(host_sep, uri_begin + 2))
           host == Between(value, host_sep, line_end)
<1>1. identity(value) =
        IF npos \in {uri_begin, host_sep}
          THEN Reject("UNSUPPORTED_URI_SCHEME") ELSE Accept([uri |-> uri, host |-> host])
  BY DEF identity
<1>2. /\ Inside(uri_begin, value) /\ uri_begin \in Nat
      /\ uri_begin # npos => uri_begin + 2 <= Len(value)
  BY FindTwo
<1> HIDE DEF uri_begin
<1>3. Plus(uri_begin, 2) \in Nat
  <2>1. CASE uri_begin = npos
    BY <2>1, PlusNpos
  <2>2. CASE uri_begin # npos
    BY <1>2, <2>2, PlusSmall DEF Inside
  <2> QED BY <2>1, <2>2
<1>4. Inside(host_sep, value) /\ host_sep \in Nat
  BY <1>3, FindOne
<1> HIDE DEF host_sep
<1>5. line_end \in Nat
  BY <1>4, FindOne, InsideNext
<1> HIDE DEF line_end
<1>6. CASE npos \in {uri_begin, host_sep}
  <2>1. identity(value) = Reject("UNSUPPORTED_URI_SCHEME")
    BY <1>1, <1>6
  <2> QED BY <2>1, RejectSound DEF Reject
<1>7. CASE npos \notin {uri_begin, host_sep}
  <2>1. host # OutOfRange
    BY <1>4, <1>5, BetweenInside
  <2>2. host_sep \in Int /\ uri_begin + 2 \in Int /\ uri_begin + 2 \in Nat /\ uri_begin + 2 <= Len(value)
    BY <1>2, <1>4, <1>7
  <2>3. Minus(host_sep, uri_begin + 2) \in Nat
    BY <2>2, MinusNat
  <2>4. uri # OutOfRange
    BY <2>2, <2>3, SubstrInside
  <2> HIDE DEF uri, host
  <2>5. identity(value) = [status |-> "OK", fields |-> [uri |-> uri, host |-> host]]
    BY <1>1, <1>7 DEF Accept
  <2> QED BY <2>1, <2>4, <2>5 DEF Sound
<1> QED BY <1>6, <1>7

LEMMA IdentitiesSound ==
  ASSUME NEW values, \A i \in DOMAIN values : IsValue(values[i])
  PROVE  LET found == identities(values)
         IN  /\ found.status \in {"OK", "UNSUPPORTED_URI_SCHEME"}
             /\ \A i \in DOMAIN found.list : OutOfRange \notin {found.list[i].uri, found.list[i].host}
<1> DEFINE list == [i \in DOMAIN values |-> identity(values[i]).fields]
<1>1. <<>> # OutOfRange
  BY DEF OutOfRange
<1>2. CASE values = <<>>
  <2>1. identities(values) = [status |-> "OK", list |-> << [uri |-> <<>>, host |-> <<>>] >>]
    BY <1>2 DEF identities
  <2> QED BY <1>1, <2>1
<1>3. CASE values # <<>> /\ \E i \in DOMAIN values : identity(values[i]).status # "OK"
  <2>1. identities(values) = [status |-> "UNSUPPORTED_URI_SCHEME", list |-> <<>>]
    BY <1>3 DEF identities
  <2> QED BY <2>1
<1>4. CASE values # <<>> /\ ~\E i \in DOMAIN values : identity(values[i]).status # "OK"
  <2>1. identities(values) = [status |-> "OK", list |-> list]
    BY <1>4 DEF identities
  <2>2. \A i \in DOMAIN list : OutOfRange \notin {list[i].uri, list[i].host}
    <3> TAKE i \in DOMAIN list
    <3>1. IsValue(values[i]) /\ list[i] = identity(values[i]).fields /\ identity(values[i]).status = "OK"
      BY <1>4
    <3>2. /\ DOMAIN identity(values[i]).fields = {"uri", "host"}
          /\ \A f \in DOMAIN identity(values[i]).fields : identity(values[i]).fields[f] # OutOfRange
      BY <3>1, IdentitySound DEF Sound
    <3> QED BY <3>1, <3>2
  <2> HIDE DEF list
  <2> QED BY <2>1, <2>2
<1> QED BY <1>2, <1>3, <1>4

(* Every set of numbers up to a bound that is not empty has a greatest.    *)
LEMMA Greatest ==
  ASSUME NEW N \in Nat, NEW A \in SUBSET (1 .. N), A # {}
  PROVE  Max(A) \in A /\ \A k \in A : k <= Max(A)
<1> DEFINE B == {N - i : i \in A}
<1>1. B \in SUBSET Nat /\ B # {}
  <2>1. \A i \in A : N - i \in Nat
    OBVIOUS
  <2> QED BY <2>1
<1>2. Min(B) \in B /\ \A k \in B : Min(B) <= k
  BY <1>1, Least
<1>3. PICK m \in A : Min(B) = N - m
  BY <1>2
<1>4. \A k \in A : k <= m
  <2> TAKE k \in A
  <2>1. N - k \in B /\ k \in Int /\ m \in Int
    OBVIOUS
  <2>2. N - m <= N - k
    BY <1>2, <1>3, <2>1
  <2> QED BY <2>1, <2>2
<1> QED BY <1>4 DEF Max
=============================================================================

------------------------- MODULE HeaderFormsProofs --------------------------
(***************************************************************************)
(* That the position arithmetic of HeaderFields finds the parts a value of *)
(* a well-formed header was written from, whatever the parts are and how   *)
(* long. A form is taken apart first: what stands where in it. Then each   *)
(* search is followed: it ends at the separator it is meant for, because   *)
(* what it passes over has none of the kind.                               *)
(***************************************************************************)
EXTENDS HeaderFieldsProofs

-----------------------------------------------------------------------------
(* What stands where in a value *)

(* Two of the separators, by name.                                         *)
Semicolon == ";"
Space == " "

(* The tokens of a form.                                                   *)
Token == STRING \cup Literal \cup {"<"}

(* The sequence s stands in v after k tokens.                              *)
Stands(v, k, s) == k + Len(s) <= Len(v) /\ \A n \in k + 1 .. k + Len(s) : v[n] = s[n - k]

(* No token from position i up to position j is one of X.                  *)
Clear(v, i, j, X) == \A n \in i + 1 .. j : v[n] \notin X

(* No token of s is one of X.                                              *)
Free(s, X) == \A n \in DOMAIN s : s[n] \notin X

LEMMA Strings == Seq(STRING) \subseteq Seq(Token)
BY DEF Token

LEMMA StandsWhole ==
  ASSUME NEW v \in Seq(Token)
  PROVE  Stands(v, 0, v)
BY DEF Stands

LEMMA Concatenated ==
  ASSUME NEW s \in Seq(Token), NEW t \in Seq(Token)
  PROVE  s \o t \in Seq(Token) /\ Len(s \o t) = Len(s) + Len(t) /\ Len(s) \in Nat /\ Len(t) \in Nat
OBVIOUS

(* What begins with s and goes on with t.                                  *)
LEMMA StandsPieces ==
  ASSUME NEW s \in Seq(Token), NEW t \in Seq(Token), NEW v \in Seq(Token), NEW k \in Nat, Stands(v, k, s \o t)
  PROVE  /\ Stands(v, k, s) /\ Stands(v, k + Len(s), t)
         /\ s \o t \in Seq(Token) /\ Len(s \o t) = Len(s) + Len(t)
<1>1. /\ s \o t \in Seq(Token) /\ Len(s \o t) = Len(s) + Len(t)
      /\ Len(s) \in Nat /\ Len(t) \in Nat /\ Len(v) \in Nat
  OBVIOUS
<1> DEFINE w == s \o t
<1>2. \A i \in 1 .. Len(s) : w[i] = s[i]
  OBVIOUS
<1>3. \A i \in Len(s) + 1 .. Len(s) + Len(t) : w[i] = t[i - Len(s)]
  OBVIOUS
<1>4. k + Len(w) <= Len(v) /\ \A n \in k + 1 .. k + Len(w) : v[n] = w[n - k]
  BY DEF Stands
<1>5. Len(w) = Len(s) + Len(t)
  BY <1>1
<1> HIDE DEF w
<1>6. \A n \in k + 1 .. k + Len(s) : v[n] = s[n - k]
  <2> TAKE n \in k + 1 .. k + Len(s)
  <2>1. n \in k + 1 .. k + Len(w) /\ n - k \in 1 .. Len(s)
    BY <1>1, <1>5
  <2> QED BY <1>2, <1>4, <2>1
<1>7. \A n \in k + Len(s) + 1 .. k + Len(s) + Len(t) : v[n] = t[n - (k + Len(s))]
  <2> TAKE n \in k + Len(s) + 1 .. k + Len(s) + Len(t)
  <2>1. n \in k + 1 .. k + Len(w) /\ n - k \in Len(s) + 1 .. Len(s) + Len(t) /\ n - k - Len(s) = n - (k + Len(s))
    BY <1>1, <1>5
  <2>2. v[n] = w[n - k] /\ w[n - k] = t[(n - k) - Len(s)]
    BY <1>3, <1>4, <2>1
  <2> QED BY <2>1, <2>2
<1> QED BY <1>1, <1>4, <1>5, <1>6, <1>7 DEF Stands

(* A piece that is a literal or two or three.                              *)
LEMMA StandsOne ==
  ASSUME NEW v \in Seq(Token), NEW k \in Nat, NEW a, Stands(v, k, <<a>>)
  PROVE  k + 1 <= Len(v) /\ v[k + 1] = a
<1> DEFINE s == <<a>>
<1>1. Len(s) = 1 /\ s[1] = a
  OBVIOUS
<1>2. k + Len(s) <= Len(v) /\ \A n \in k + 1 .. k + Len(s) : v[n] = s[n - k]
  BY DEF Stands
<1> HIDE DEF s
<1>3. k + 1 \in k + 1 .. k + Len(s) /\ (k + 1) - k = 1
  BY <1>1
<1> QED BY <1>1, <1>2, <1>3

LEMMA StandsTwo ==
  ASSUME NEW v \in Seq(Token), NEW k \in Nat, NEW a, NEW b, Stands(v, k, <<a, b>>)
  PROVE  k + 2 <= Len(v) /\ v[k + 1] = a /\ v[k + 2] = b
<1> DEFINE s == <<a, b>>
<1>1. Len(s) = 2 /\ s[1] = a /\ s[2] = b
  OBVIOUS
<1>2. k + Len(s) <= Len(v) /\ \A n \in k + 1 .. k + Len(s) : v[n] = s[n - k]
  BY DEF Stands
<1> HIDE DEF s
<1>3. /\ k + 1 \in k + 1 .. k + Len(s) /\ (k + 1) - k = 1
      /\ k + 2 \in k + 1 .. k + Len(s) /\ (k + 2) - k = 2
  BY <1>1
<1> QED BY <1>1, <1>2, <1>3

LEMMA StandsThree ==
  ASSUME NEW v \in Seq(Token), NEW k \in Nat, NEW a, NEW b, NEW c, Stands(v, k, <<a, b, c>>)
  PROVE  k + 3 <= Len(v) /\ v[k + 1] = a /\ v[k + 2] = b /\ v[k + 3] = c
<1> DEFINE s == <<a, b, c>>
<1>1. Len(s) = 3 /\ s[1] = a /\ s[2] = b /\ s[3] = c
  OBVIOUS
<1>2. k + Len(s) <= Len(v) /\ \A n \in k + 1 .. k + Len(s) : v[n] = s[n - k]
  BY DEF Stands
<1> HIDE DEF s
<1>3. /\ k + 1 \in k + 1 .. k + Len(s) /\ (k + 1) - k = 1
      /\ k + 2 \in k + 1 .. k + Len(s) /\ (k + 2) - k = 2
      /\ k + 3 \in k + 1 .. k + Len(s) /\ (k + 3) - k = 3
  BY <1>1
<1> QED BY <1>1, <1>2, <1>3

(* A text has no separator in it, so none is found where it stands.        *)
LEMMA StandsClear ==
  ASSUME NEW v \in Seq(Token), NEW k \in Nat, NEW s \in Seq(Token), NEW X, Stands(v, k, s), Free(s, X)
  PROVE  Clear(v, k, k + Len(s), X)
<1>1. Len(s) \in Nat /\ DOMAIN s = 1 .. Len(s)
  OBVIOUS
<1> SUFFICES ASSUME NEW n \in k + 1 .. k + Len(s) PROVE v[n] \notin X
  BY DEF Clear
<1>2. n - k \in DOMAIN s /\ v[n] = s[n - k]
  BY <1>1 DEF Stands
<1> QED BY <1>2 DEF Free

(* Intervals without a token, put together.                                *)
LEMMA ClearEmpty ==
  ASSUME NEW v, NEW i \in Int, NEW X
  PROVE  Clear(v, i, i, X)
BY DEF Clear

LEMMA ClearOver ==
  ASSUME NEW v, NEW i \in Int, NEW j \in Int, NEW k \in Int, NEW X, Clear(v, i, j, X), Clear(v, j, k, X)
  PROVE  Clear(v, i, k, X)
<1> SUFFICES ASSUME NEW n \in i + 1 .. k PROVE v[n] \notin X
  BY DEF Clear
<1>1. n \in i + 1 .. j \/ n \in j + 1 .. k
  OBVIOUS
<1> QED BY <1>1 DEF Clear

LEMMA ClearOne ==
  ASSUME NEW v, NEW i \in Int, NEW a, NEW b, v[i + 1] = a, a # b
  PROVE  Clear(v, i, i + 1, {b})
<1> SUFFICES ASSUME NEW n \in i + 1 .. i + 1 PROVE v[n] # b
  BY DEF Clear
<1>1. n = i + 1
  OBVIOUS
<1> QED BY <1>1

LEMMA LiteralMembers ==
  /\ "sip" \in Literal /\ ":" \in Literal /\ "@" \in Literal /\ ">" \in Literal /\ Semicolon \in Literal
  /\ Space \in Literal /\ "\r" \in Literal /\ "SIP/2.0/" \in Literal /\ "SIP/2.0" \in Literal
  /\ "branch=" \in Literal /\ "refresher=" \in Literal
BY Zenon DEF Literal, Semicolon, Space

(* No two separators are the same.                                         *)
LEMMA Distinct ==
  /\ \A a \in {"<", "sip", ":", "@", ">", "\r", "SIP/2.0/", "SIP/2.0", "branch=", "refresher="} :
       a # Semicolon /\ a # Space
  /\ Semicolon # Space
BY Zenon DEF Semicolon, Space

LEMMA ClearOf ==
  ASSUME NEW v, NEW i, NEW j, NEW X, Clear(v, i, j, X), NEW b, b \in X
  PROVE  Clear(v, i, j, {b})
<1> SUFFICES ASSUME NEW n \in i + 1 .. j PROVE v[n] # b
  BY DEF Clear
<1>1. v[n] \notin X
  BY DEF Clear
<1> QED BY <1>1

-----------------------------------------------------------------------------
(* What a search finds and what is cut out *)

(* The positions at which one token stands.                                *)
LEMMA Occurrences ==
  ASSUME NEW token, NEW v, IsValue(v), NEW from \in Nat
  PROVE  find(<<token>>, v, from) =
           LET At == {i \in from .. Len(v) - 1 : v[i + 1] = token} IN IF At = {} THEN npos ELSE Min(At)
<1> DEFINE what == <<token>>
           At == {i \in from .. Len(v) - 1 : v[i + 1] = token}
           Found_ == {i \in from .. Len(v) - Len(what) : SubSeq(v, i + 1, i + Len(what)) = what}
<1>1. Len(what) = 1 /\ what[1] = token /\ what = <<token>>
  OBVIOUS
<1>2. v \in Seq(STRING) /\ Len(v) \in Nat
  BY DEF IsValue
<1>3. ASSUME NEW i \in from .. Len(v) - 1
      PROVE  SubSeq(v, i + 1, i + 1) = <<token>> <=> v[i + 1] = token
  <2>1. i \in Nat /\ i + 1 <= Len(v) /\ i + 1 >= 1
    BY <1>2
  <2> DEFINE cut == SubSeq(v, i + 1, i + 1)
  <2>2. cut \in Seq(STRING) /\ Len(cut) = 1 /\ cut[1] = v[i + 1] /\ v[i + 1] \in STRING
    BY <1>2, <2>1
  <2> HIDE DEF cut
  <2>3. ASSUME v[i + 1] = token PROVE cut = what
    <3>1. what \in Seq(STRING)
      BY <2>2, <2>3
    <3> HIDE DEF what
    <3> QED BY <1>1, <2>2, <2>3, <3>1
  <2>4. cut = what => v[i + 1] = token
    BY <1>1, <2>2
  <2> QED BY <2>3, <2>4 DEF cut
<1> HIDE DEF what
<1>4. Found_ = At
  BY <1>1, <1>2, <1>3
<1>5. find(what, v, from) = IF Found_ = {} THEN npos ELSE Min(Found_)
  BY DEF find
<1> HIDE DEF At, Found_
<1>6. find(what, v, from) = IF At = {} THEN npos ELSE Min(At)
  BY <1>4, <1>5
<1> QED BY <1>6 DEF At, what

LEMMA LeastIs ==
  ASSUME NEW A \in SUBSET Nat, NEW k \in A, \A n \in A : k <= n
  PROVE  Min(A) = k
<1>1. Min(A) \in A /\ Min(A) <= k
  BY Least
<1> DEFINE m == Min(A)
<1>2. m \in A /\ m <= k
  BY <1>1
<1> HIDE DEF m
<1>3. m \in Nat /\ k \in Nat /\ k <= m
  BY <1>2
<1>4. m = k
  BY <1>2, <1>3
<1> QED BY <1>4 DEF m

LEMMA FindAt ==
  ASSUME NEW token, NEW v, IsValue(v), NEW from \in Nat, NEW k \in Nat, from <= k, k + 1 <= Len(v),
         v[k + 1] = token, Clear(v, from, k, {token})
  PROVE  find(<<token>>, v, from) = k /\ k # npos
<1> DEFINE At == {i \in from .. Len(v) - 1 : v[i + 1] = token}
<1>1. Len(v) \in Nat /\ npos \in Nat /\ SizeT \in Nat /\ 2 * Len(v) < SizeT
  BY Lengths
<1>2. At \in SUBSET Nat /\ k \in At
  BY <1>1
<1>3. \A n \in At : k <= n
  <2> SUFFICES ASSUME NEW n \in At, n < k PROVE FALSE
    BY <1>1
  <2>1. n \in Nat /\ n + 1 \in from + 1 .. k /\ v[n + 1] = token
    BY <1>1
  <2> QED BY <2>1 DEF Clear
<1>4. find(<<token>>, v, from) = IF At = {} THEN npos ELSE Min(At)
  BY Occurrences
<1>5. Min(At) = k
  <2> HIDE DEF At
  <2> QED BY <1>2, <1>3, LeastIs
<1>6. At # {}
  BY <1>2
<1>7. k # npos
  BY <1>1 DEF npos
<1> QED BY <1>4, <1>5, <1>6, <1>7

LEMMA FindNone ==
  ASSUME NEW token, NEW v, IsValue(v), NEW from \in Nat, Clear(v, from, Len(v), {token})
  PROVE  find(<<token>>, v, from) = npos
<1> DEFINE At == {i \in from .. Len(v) - 1 : v[i + 1] = token}
<1>1. Len(v) \in Nat
  BY Lengths
<1>2. At = {}
  <2> SUFFICES ASSUME NEW n \in At PROVE FALSE
    OBVIOUS
  <2>1. n \in Nat /\ n + 1 \in from + 1 .. Len(v) /\ v[n + 1] = token
    BY <1>1
  <2> QED BY <2>1 DEF Clear
<1>3. find(<<token>>, v, from) = IF At = {} THEN npos ELSE Min(At)
  BY Occurrences
<1> QED BY <1>2, <1>3

(* Two tokens, found where they are first next to each other.              *)
LEMMA FindPair ==
  ASSUME NEW a, NEW b, NEW v, IsValue(v), NEW k \in Nat, k + 2 <= Len(v),
         v[k + 1] = a, v[k + 2] = b, Clear(v, 0, k, {a})
  PROVE  find(<<a, b>>, v, 0) = k /\ k # npos
<1> DEFINE what == <<a, b>>
           At == {i \in 0 .. Len(v) - Len(what) : SubSeq(v, i + 1, i + Len(what)) = what}
<1>1. Len(v) \in Nat /\ npos \in Nat /\ SizeT \in Nat /\ 2 * Len(v) < SizeT /\ v \in Seq(STRING)
  BY Lengths DEF IsValue
<1>2. Len(what) = 2 /\ what[1] = a /\ what[2] = b
  OBVIOUS
<1>3. SubSeq(v, k + 1, k + 2) = what
  <2> DEFINE cut == SubSeq(v, k + 1, k + 2)
  <2>1. /\ cut \in Seq(STRING) /\ Len(cut) = 2 /\ cut[1] = v[k + 1] /\ cut[2] = v[k + 2]
        /\ v[k + 1] \in STRING /\ v[k + 2] \in STRING
    BY <1>1
  <2>2. what \in Seq(STRING)
    BY <2>1
  <2> HIDE DEF cut, what
  <2>3. cut = what
    BY <1>2, <2>1, <2>2
  <2> QED BY <2>3 DEF cut
<1>4. find(what, v, 0) = IF At = {} THEN npos ELSE Min(At)
  BY DEF find
<1> HIDE DEF what
<1>5. At \in SUBSET Nat /\ k \in At
  BY <1>1, <1>2, <1>3
<1>6. \A n \in At : k <= n
  <2> SUFFICES ASSUME NEW n \in At, n < k PROVE FALSE
    BY <1>1, <1>2
  <2>1. n \in Nat /\ n + 2 <= Len(v) /\ SubSeq(v, n + 1, n + 2) = what
    BY <1>1, <1>2
  <2>2. SubSeq(v, n + 1, n + 2)[1] = v[n + 1]
    BY <1>1, <2>1
  <2>3. n + 1 \in 0 + 1 .. k /\ v[n + 1] = a
    BY <1>2, <2>1, <2>2
  <2> QED BY <2>3 DEF Clear
<1>7. Min(At) = k /\ At # {}
  <2> HIDE DEF At
  <2> QED BY <1>5, <1>6, LeastIs
<1>8. k # npos
  BY <1>1 DEF npos
<1> QED BY <1>4, <1>7, <1>8 DEF what

LEMMA SubstrIs ==
  ASSUME NEW v, IsValue(v), NEW k \in Nat, NEW s \in Seq(Token), Stands(v, k, s)
  PROVE  substr(v, k, Len(s)) = s
<1>1. Len(v) \in Nat /\ v \in Seq(STRING) /\ Len(s) \in Nat
  BY DEF IsValue
<1>2. k + Len(s) <= Len(v) /\ \A n \in k + 1 .. k + Len(s) : v[n] = s[n - k]
  BY DEF Stands
<1>3. Min({k + Len(s), Len(v)}) = k + Len(s)
  BY <1>1, <1>2, LeastIs
<1>4. substr(v, k, Len(s)) = SubSeq(v, k + 1, k + Len(s))
  <2>1. ~(k > Len(v))
    BY <1>1, <1>2
  <2> QED BY <1>3, <2>1, Zenon DEF substr
<1> DEFINE cut == SubSeq(v, k + 1, k + Len(s))
<1>5. cut \in Seq(STRING) /\ Len(cut) = Len(s)
  BY <1>1, <1>2
<1>6. \A i \in 1 .. Len(s) : cut[i] = s[i]
  <2> TAKE i \in 1 .. Len(s)
  <2>1. cut[i] = v[k + i]
    BY <1>1, <1>2
  <2>2. k + i \in k + 1 .. k + Len(s) /\ (k + i) - k = i
    BY <1>1
  <2> QED BY <1>2, <2>1, <2>2
<1> HIDE DEF cut
<1>7. cut = s
  <2>1. cut \in Seq(Token)
    BY <1>5, Strings
  <2> QED BY <1>5, <1>6, <2>1
<1> QED BY <1>4, <1>7 DEF cut

(* Lengths of what is cut never wrap.                                      *)
LEMMA MinusIs ==
  ASSUME NEW v, IsValue(v), NEW a \in Nat, NEW n \in Nat, n <= a, a <= Len(v)
  PROVE  Minus(a, n) = a - n
<1>1. a - n \in Nat /\ a - n < SizeT
  BY Lengths
<1> QED BY <1>1, ModSmall DEF Minus

LEMMA BetweenIs ==
  ASSUME NEW v, IsValue(v), NEW left \in Nat, NEW right \in Nat, NEW s \in Seq(Token),
         Stands(v, left + 1, s), right = left + 1 + Len(s)
  PROVE  Between(v, left, right) = s
<1>1. right <= Len(v) /\ left + 1 <= right /\ Len(v) \in Nat /\ Len(s) \in Nat
  BY Lengths DEF Stands
<1>2. left + 1 < SizeT
  BY <1>1, Lengths
<1>3. Plus(left, 1) = left + 1
  BY <1>2, PlusSmall
<1>4. Minus(right, left + 1) = Len(s)
  <2>1. left + 1 \in Nat
    OBVIOUS
  <2>2. Minus(right, left + 1) = right - (left + 1)
    BY <1>1, <2>1, MinusIs
  <2> QED BY <1>1, <2>2
<1>5. left + 1 \in Nat
  OBVIOUS
<1> QED BY <1>3, <1>4, <1>5, SubstrIs DEF Between

(* The same where the code subtracts its way to the length.                *)
LEMMA CutIs ==
  ASSUME NEW v, IsValue(v), NEW k \in Nat, NEW right \in Nat, NEW s \in Seq(Token),
         Stands(v, k, s), right = k + Len(s)
  PROVE  substr(v, k, Minus(right, k)) = s
<1>1. right <= Len(v) /\ k <= right /\ Len(v) \in Nat /\ Len(s) \in Nat
  BY Lengths DEF Stands
<1>2. Minus(right, k) = Len(s)
  <2>1. Minus(right, k) = right - k
    BY <1>1, MinusIs
  <2> QED BY <1>1, <2>1
<1> QED BY <1>2, SubstrIs

(* The position after one that was found.                                  *)
LEMMA NextIs ==
  ASSUME NEW v, IsValue(v), NEW k \in Nat, k + 1 <= Len(v), NEW n \in 1 .. 2
  PROVE  Plus(k, n) = k + n
<1>1. k + n < SizeT /\ n \in Nat
  BY Lengths, HeaderFieldsAssumption
<1> QED BY <1>1, PlusSmall

-----------------------------------------------------------------------------
(* The parts of an address *)

LEMMA Literals ==
  /\ \A a \in Literal \cup {"<"} : <<a>> \in Seq(Token)
  /\ <<"sip", ":">> \in Seq(Token)
  /\ <<"<", "sip", ":">> \in Seq(Token)
  /\ <<Semicolon, "branch=">> \in Seq(Token)
  /\ <<Space, "SIP/2.0">> \in Seq(Token)
BY LiteralMembers DEF Token

(* The address begins after o tokens, which is none or the one bracket.    *)
Address(v, o, u, h) ==
  /\ o \in {0, 1} /\ (o = 1 => v[1] = "<")
  /\ v[o + 1] = "sip" /\ v[o + 2] = ":"
  /\ Stands(v, o + 2, u)
  /\ v[o + Len(u) + 3] = "@"
  /\ Stands(v, o + Len(u) + 3, h)

LEMMA UnbracketedParts ==
  ASSUME NEW v \in Seq(Token), NEW u \in Seq(Token), NEW h \in Seq(Token), NEW k \in Nat,
         Stands(v, k, Unbracketed(u, h))
  PROVE  /\ Unbracketed(u, h) \in Seq(Token) /\ Len(Unbracketed(u, h)) = Len(u) + Len(h) + 3
         /\ v[k + 1] = "sip" /\ v[k + 2] = ":" /\ Stands(v, k + 2, u)
         /\ v[k + Len(u) + 3] = "@" /\ Stands(v, k + Len(u) + 3, h)
         /\ k + Len(u) + Len(h) + 3 <= Len(v)
<1> DEFINE a == <<"sip", ":">>
           s1 == a \o u
           s2 == s1 \o <<"@">>
           s3 == s2 \o h
<1>1. s3 = Unbracketed(u, h) /\ Stands(v, k, s3)
  BY DEF Unbracketed
<1>2. a \in Seq(Token) /\ Len(a) = 2 /\ <<"@">> \in Seq(Token) /\ Len(<<"@">>) = 1
  BY Literals, LiteralMembers
<1>3. Len(u) \in Nat /\ Len(h) \in Nat /\ Len(v) \in Nat
  OBVIOUS
<1>4. s1 \in Seq(Token) /\ Len(s1) = 2 + Len(u)
  BY <1>2, <1>3
<1>5. s2 \in Seq(Token) /\ Len(s2) = 3 + Len(u)
  <2> HIDE DEF s1
  <2> QED BY <1>2, <1>3, <1>4
<1>6. Stands(v, k, s2) /\ Stands(v, k + Len(s2), h) /\ s3 \in Seq(Token) /\ Len(s3) = Len(s2) + Len(h)
  <2> HIDE DEF s2
  <2> QED BY <1>1, <1>5, StandsPieces
<1>7. Stands(v, k, s1) /\ Stands(v, k + Len(s1), <<"@">>)
  <2> HIDE DEF s1
  <2> QED BY <1>2, <1>4, <1>6, StandsPieces
<1>8. Stands(v, k, a) /\ Stands(v, k + Len(a), u)
  <2> HIDE DEF a
  <2> QED BY <1>2, <1>7, StandsPieces
<1>9. v[k + 1] = "sip" /\ v[k + 2] = ":"
  BY <1>8, StandsTwo
<1>10. v[k + Len(s1) + 1] = "@"
  <2> HIDE DEF s1
  <2>1. k + Len(s1) \in Nat
    BY <1>3, <1>4
  <2> QED BY <1>7, <2>1, StandsOne
<1>11. k + Len(u) + Len(h) + 3 <= Len(v)
  <2> HIDE DEF s2
  <2>1. k + Len(s2) + Len(h) <= Len(v)
    BY <1>6 DEF Stands
  <2> QED BY <1>3, <1>5, <2>1
<1> HIDE DEF a, s1, s2, s3
<1>12. k + Len(a) = k + 2 /\ k + Len(s1) + 1 = k + Len(u) + 3 /\ k + Len(s2) = k + Len(u) + 3
       /\ Len(s2) + Len(h) = Len(u) + Len(h) + 3
  BY <1>2, <1>3, <1>4, <1>5
<1> QED BY <1>1, <1>6, <1>8, <1>9, <1>10, <1>11, <1>12

LEMMA BracketedParts ==
  ASSUME NEW v \in Seq(Token), NEW u \in Seq(Token), NEW h \in Seq(Token), Stands(v, 0, Bracketed(u, h))
  PROVE  /\ Bracketed(u, h) \in Seq(Token) /\ Len(Bracketed(u, h)) = Len(u) + Len(h) + 5
         /\ Address(v, 1, u, h)
         /\ v[Len(u) + Len(h) + 5] = ">" /\ Len(u) + Len(h) + 5 <= Len(v)
<1> DEFINE a == <<"<", "sip", ":">>
           s1 == a \o u
           s2 == s1 \o <<"@">>
           s3 == s2 \o h
           s4 == s3 \o <<">">>
<1>1. s4 = Bracketed(u, h) /\ Stands(v, 0, s4)
  BY DEF Bracketed
<1>2. /\ a \in Seq(Token) /\ Len(a) = 3 /\ <<"@">> \in Seq(Token) /\ Len(<<"@">>) = 1
      /\ <<">">> \in Seq(Token) /\ Len(<<">">>) = 1
  BY Literals, LiteralMembers
<1>3. Len(u) \in Nat /\ Len(h) \in Nat /\ Len(v) \in Nat
  OBVIOUS
<1>4. s1 \in Seq(Token) /\ Len(s1) = 3 + Len(u)
  BY <1>2, <1>3
<1>5. s2 \in Seq(Token) /\ Len(s2) = 4 + Len(u)
  <2> HIDE DEF s1
  <2> QED BY <1>2, <1>3, <1>4
<1>6. s3 \in Seq(Token) /\ Len(s3) = 4 + Len(u) + Len(h)
  <2> HIDE DEF s2
  <2>1. s2 \o h \in Seq(Token) /\ Len(s2 \o h) = Len(s2) + Len(h)
    BY <1>5, Concatenated
  <2> QED BY <1>3, <1>5, <2>1
<1>7. Stands(v, 0, s3) /\ Stands(v, 0 + Len(s3), <<">">>) /\ s4 \in Seq(Token) /\ Len(s4) = Len(s3) + 1
  <2> HIDE DEF s3
  <2> QED BY <1>1, <1>2, <1>6, StandsPieces
<1>8. Stands(v, 0, s2) /\ Stands(v, 0 + Len(s2), h)
  <2> HIDE DEF s2
  <2> QED BY <1>5, <1>7, StandsPieces
<1>9. Stands(v, 0, s1) /\ Stands(v, 0 + Len(s1), <<"@">>)
  <2> HIDE DEF s1
  <2> QED BY <1>2, <1>4, <1>8, StandsPieces
<1>10. Stands(v, 0, a) /\ Stands(v, 0 + Len(a), u)
  <2> HIDE DEF a
  <2> QED BY <1>2, <1>9, StandsPieces
<1>11. v[1] = "<" /\ v[2] = "sip" /\ v[3] = ":"
  <2>1. v[0 + 1] = "<" /\ v[0 + 2] = "sip" /\ v[0 + 3] = ":"
    BY <1>10, StandsThree
  <2> QED BY <2>1
<1> HIDE DEF a, s1, s2, s3, s4
<1>12. v[Len(s1) + 1] = "@" /\ v[Len(s3) + 1] = ">" /\ Len(s3) + 1 <= Len(v)
  <2>1. 0 + Len(s1) = Len(s1) /\ 0 + Len(s3) = Len(s3) /\ Len(s1) \in Nat /\ Len(s3) \in Nat
    BY <1>3, <1>4, <1>6
  <2> QED BY <1>7, <1>9, <2>1, StandsOne
<1>13. /\ 0 + Len(a) = 1 + 2 /\ Len(s1) + 1 = 1 + Len(u) + 3 /\ 0 + Len(s2) = 1 + Len(u) + 3
       /\ Len(s3) + 1 = Len(u) + Len(h) + 5
  BY <1>2, <1>3, <1>4, <1>5, <1>6
<1>14. Address(v, 1, u, h)
  <2>1. Stands(v, 1 + 2, u) /\ Stands(v, 1 + Len(u) + 3, h) /\ v[1 + Len(u) + 3] = "@"
    BY <1>8, <1>10, <1>12, <1>13
  <2>2. v[1 + 1] = "sip" /\ v[1 + 2] = ":"
    BY <1>11
  <2> QED BY <1>11, <2>1, <2>2 DEF Address
<1> QED BY <1>1, <1>7, <1>12, <1>13, <1>14

(* What follows an address: a parameter and the end, or the end.           *)
ParamAt(v, k, p, r) ==
  /\ k \in Nat /\ p \in Seq(Token) /\ Free(p, Literal) /\ r \in Nat /\ r = k + Len(p) + 1
  /\ v[k + 1] = Semicolon /\ Stands(v, k + 1, p) /\ v[r + 1] = "\r" /\ Len(v) = r + 1

EndAt(v, k) == k \in Nat /\ v[k + 1] = "\r" /\ Len(v) = k + 1

LEMMA ParamParts ==
  ASSUME NEW v, IsValue(v), NEW a \in Seq(Token), NEW p \in Seq(Token), Free(p, Literal), v = WithParam(a, p)
  PROVE  Stands(v, 0, a) /\ ParamAt(v, Len(a), p, Len(a) + Len(p) + 1)
<1> DEFINE s1 == a \o <<Semicolon>>
           s2 == s1 \o p
           s3 == s2 \o <<"\r">>
<1>1. v \in Seq(Token)
  BY Strings DEF IsValue
<1>2. Stands(v, 0, s3) /\ s3 = v
  <2>1. s3 = v
    BY Zenon DEF WithParam, Semicolon
  <2> QED BY <1>1, <2>1, StandsWhole, Zenon
<1>3. /\ <<Semicolon>> \in Seq(Token) /\ Len(<<Semicolon>>) = 1
      /\ <<"\r">> \in Seq(Token) /\ Len(<<"\r">>) = 1
  BY Literals, LiteralMembers
<1>4. s1 \in Seq(Token) /\ Len(s1) = Len(a) + 1
  BY <1>3, Concatenated
<1>5. s2 \in Seq(Token) /\ Len(s2) = Len(s1) + Len(p)
  <2> HIDE DEF s1
  <2> QED BY <1>4, Concatenated
<1>6. Stands(v, 0, s2) /\ Stands(v, 0 + Len(s2), <<"\r">>) /\ Len(s3) = Len(s2) + 1
  <2> HIDE DEF s2
  <2> QED BY <1>1, <1>2, <1>3, <1>5, StandsPieces
<1>7. Stands(v, 0, s1) /\ Stands(v, 0 + Len(s1), p)
  <2> HIDE DEF s1
  <2> QED BY <1>1, <1>4, <1>6, StandsPieces
<1>8. Stands(v, 0, a) /\ Stands(v, 0 + Len(a), <<Semicolon>>)
  BY <1>1, <1>3, <1>7, StandsPieces
<1> HIDE DEF s1, s2, s3
<1>9. Len(a) \in Nat /\ Len(p) \in Nat
  OBVIOUS
<1>10. 0 + Len(s1) = Len(a) + 1 /\ 0 + Len(s2) = Len(a) + Len(p) + 1 /\ Len(s2) + 1 = Len(a) + Len(p) + 2
       /\ 0 + Len(a) = Len(a)
  BY <1>4, <1>5, <1>9
<1>11. v[Len(a) + 1] = Semicolon
  BY <1>1, <1>8, <1>9, <1>10, StandsOne
<1>12. v[Len(a) + Len(p) + 1 + 1] = "\r"
  <2>1. Len(a) + Len(p) + 1 \in Nat
    BY <1>9
  <2>2. Stands(v, Len(a) + Len(p) + 1, <<"\r">>)
    BY <1>6, <1>10, Zenon
  <2> QED BY <1>1, <2>1, <2>2, StandsOne
<1>13. Len(a) + Len(p) + 1 + 1 = Len(a) + Len(p) + 2 /\ Len(a) + Len(p) + 1 \in Nat
  BY <1>9
<1>14. Len(v) = Len(a) + Len(p) + 1 + 1
  BY <1>2, <1>6, <1>10, <1>13
<1> QED BY <1>7, <1>8, <1>9, <1>10, <1>11, <1>12, <1>13, <1>14 DEF ParamAt

Ended(a) == a \o <<"\r">>

LEMMA EndedParts ==
  ASSUME NEW v, IsValue(v), NEW a \in Seq(Token), v = Ended(a)
  PROVE  Stands(v, 0, a) /\ EndAt(v, Len(a))
<1>1. v \in Seq(Token)
  BY Strings DEF IsValue
<1>2. <<"\r">> \in Seq(Token) /\ Len(<<"\r">>) = 1
  BY Literals, LiteralMembers
<1>3. Stands(v, 0, a \o <<"\r">>)
  BY <1>1, StandsWhole DEF Ended
<1>4. Stands(v, 0, a) /\ Stands(v, 0 + Len(a), <<"\r">>) /\ Len(a) + 1 = Len(v)
  <2>1. v = a \o <<"\r">>
    BY DEF Ended
  <2> QED BY <1>1, <1>2, <1>3, <2>1, StandsPieces
<1>5. Len(a) \in Nat /\ 0 + Len(a) = Len(a)
  OBVIOUS
<1>6. v[Len(a) + 1] = "\r"
  BY <1>1, <1>4, <1>5, StandsOne
<1> QED BY <1>4, <1>5, <1>6 DEF EndAt

(* The searches of every function for the beginning of an address and for  *)
(* the end of its user part.                                               *)
LEMMA AddressFound ==
  ASSUME NEW v, IsValue(v), NEW u \in Seq(Token), NEW h \in Seq(Token), NEW o \in {0, 1}, Address(v, o, u, h),
         Free(u, Literal)
  PROVE  LET at_sign == o + Len(u) + 2
         IN  /\ find(<<"sip">>, v, 0) = o /\ find(<<"sip", ":">>, v, 0) = o /\ o # npos
             /\ find(<<"@">>, v, Plus(o, 1)) = at_sign /\ find(<<"@">>, v, Plus(o, 2)) = at_sign
             /\ find(<<"@">>, v, o) = at_sign
             /\ at_sign \in Nat /\ at_sign # npos /\ Plus(at_sign, 1) = at_sign + 1
             /\ Plus(o, 2) = o + 2
             /\ substr(v, o + 2, Minus(at_sign, o + 2)) = u
<1>1. v \in Seq(Token) /\ Len(v) \in Nat /\ Len(u) \in Nat /\ Len(h) \in Nat /\ o \in Nat
  BY Strings DEF IsValue
<1>2. /\ o = 1 => v[1] = "<"
      /\ v[o + 1] = "sip" /\ v[o + 2] = ":" /\ Stands(v, o + 2, u) /\ v[o + Len(u) + 3] = "@"
      /\ o + Len(u) + 3 + Len(h) <= Len(v)
  BY DEF Address, Stands
<1> DEFINE q == o + Len(u) + 2
<1>3. Clear(v, o + 2, o + 2 + Len(u), Literal)
  <2>1. o + 2 \in Nat
    BY <1>1
  <2> QED BY <1>1, <1>2, <2>1, StandsClear
<1>4. o + 2 <= Len(v) /\ q + 1 <= Len(v) /\ q \in Nat /\ v[q + 1] = "@"
  <2>1. q + 1 = o + Len(u) + 3
    BY <1>1
  <2> QED BY <1>1, <1>2, <2>1
<1>5. Clear(v, 0, o, {"sip"})
  BY <1>2 DEF Clear
<1>6. find(<<"sip">>, v, 0) = o /\ o # npos
  <2>1. o \in Nat /\ 0 \in Nat /\ 0 <= o /\ o + 1 <= Len(v)
    BY <1>1, <1>4
  <2>2. v[o + 1] = "sip"
    BY <1>2
  <2> QED BY <1>5, <2>1, <2>2, FindAt
<1>7. find(<<"sip", ":">>, v, 0) = o
  <2>1. o \in Nat /\ o + 2 <= Len(v)
    BY <1>1, <1>4
  <2>2. v[o + 1] = "sip" /\ v[o + 2] = ":"
    BY <1>2
  <2> QED BY <1>5, <2>1, <2>2, FindPair
<1>8. Plus(o, 1) = o + 1 /\ Plus(o, 2) = o + 2 /\ Plus(q, 1) = q + 1
  <2>1. o + 1 <= Len(v)
    BY <1>1, <1>4
  <2> HIDE DEF q
  <2> QED BY <1>1, <1>4, <2>1, NextIs
<1>9. Clear(v, o, q, {"@"})
  <2> SUFFICES ASSUME NEW n \in o + 1 .. q PROVE v[n] # "@"
    BY DEF Clear
  <2>1. CASE n \in o + 3 .. o + 2 + Len(u)
    <3>1. n \in o + 2 + 1 .. o + 2 + Len(u)
      BY <2>1
    <3>2. v[n] \notin Literal
      BY <1>3, <3>1 DEF Clear
    <3> QED BY <3>2 DEF Literal
  <2>2. CASE n = o + 1 \/ n = o + 2
    BY <1>2, <2>2
  <2> QED BY <1>1, <2>1, <2>2
<1>10. Clear(v, o + 1, q, {"@"}) /\ Clear(v, o + 2, q, {"@"})
  BY <1>1, <1>9 DEF Clear
<1>11. /\ find(<<"@">>, v, o) = q /\ find(<<"@">>, v, o + 1) = q /\ find(<<"@">>, v, o + 2) = q
       /\ q # npos
  <2>1. o <= q /\ o + 1 <= q /\ o + 2 <= q /\ o \in Nat /\ o + 1 \in Nat /\ o + 2 \in Nat
    BY <1>1
  <2> HIDE DEF q
  <2>2. find(<<"@">>, v, o) = q /\ q # npos
    BY <1>4, <1>9, <2>1, FindAt
  <2>3. find(<<"@">>, v, o + 1) = q
    BY <1>4, <1>10, <2>1, FindAt
  <2>4. find(<<"@">>, v, o + 2) = q
    BY <1>4, <1>10, <2>1, FindAt
  <2> QED BY <2>2, <2>3, <2>4
<1>12. substr(v, o + 2, Minus(q, o + 2)) = u
  <2>1. o + 2 \in Nat /\ q = o + 2 + Len(u)
    BY <1>1
  <2> HIDE DEF q
  <2> QED BY <1>1, <1>2, <1>4, <2>1, CutIs
<1> HIDE DEF q
<1>13. /\ find(<<"@">>, v, Plus(o, 1)) = q /\ find(<<"@">>, v, Plus(o, 2)) = q
  BY <1>8, <1>11
<1> QED BY <1>4, <1>6, <1>7, <1>8, <1>11, <1>12, <1>13 DEF q


-----------------------------------------------------------------------------
(* From, To and the identities *)

(* A parameter behind position k, and the end of the line behind it.       *)
LEMMA ParamIs ==
  ASSUME NEW v, IsValue(v), NEW k, NEW p, NEW r, ParamAt(v, k, p, r)
  PROVE  /\ v[k + 1] = Semicolon /\ k + 1 <= Len(v) /\ r \in Nat /\ v[r + 1] = "\r" /\ Len(v) = r + 1 /\ k + 1 <= r
         /\ Clear(v, k, Len(v), {">"}) /\ Clear(v, k, r, {"\r"})
         /\ Plus(k, 1) = k + 1 /\ find(<<"\r">>, v, Plus(k, 1)) = r
         /\ k # npos /\ r # npos
         /\ Between(v, k, r) = p
<1> DEFINE n == Len(p)
           l == Len(v)
<1>0. k \in Nat /\ r \in Nat /\ p \in Seq(Token) /\ Free(p, Literal)
  BY DEF ParamAt
<1>1. n \in Nat /\ l \in Nat /\ r = k + n + 1
  BY <1>0, Lengths DEF ParamAt
<1>2. v[k + 1] = Semicolon /\ Stands(v, k + 1, p) /\ v[r + 1] = "\r" /\ l = r + 1
  BY DEF ParamAt
<1>3. k + 1 \in Nat /\ r \in Nat /\ r = k + 1 + Len(p)
  BY <1>0, <1>1
<1>4. Clear(v, k + 1, r, Literal)
  <2>1. v \in Seq(Token)
    BY Strings DEF IsValue
  <2>2. Clear(v, k + 1, k + 1 + Len(p), Literal)
    BY <1>0, <1>2, <1>3, <2>1, StandsClear
  <2> QED BY <1>3, <2>2
<1>5. Between(v, k, r) = p
  BY <1>0, <1>2, <1>3, BetweenIs
<1> HIDE DEF n, l
<1>6. k \in Int /\ k + 1 \in Int /\ r \in Nat /\ r \in Int /\ l = r + 1 /\ k + 1 <= r /\ k + 1 <= l /\ v[r + 1] = "\r"
  <2>1. k + 1 <= r /\ k + 1 <= l
    BY <1>0, <1>1, <1>2
  <2> QED BY <1>0, <1>2, <1>3, <2>1
<1>7. Clear(v, k, l, {">"})
  <2>1. Clear(v, k, k + 1, {">"})
    BY <1>2, <1>6, Distinct, ClearOne
  <2>2. Clear(v, k + 1, r, {">"})
    BY <1>4, LiteralMembers, ClearOf
  <2>3. Clear(v, r, r + 1, {">"})
    BY <1>6, ClearOne
  <2>4. Clear(v, k, r, {">"})
    BY <1>6, <2>1, <2>2, ClearOver
  <2>5. l \in Int /\ l = r + 1
    BY <1>1, <1>6
  <2> QED BY <1>6, <2>3, <2>4, <2>5, ClearOver
<1>8. Clear(v, k + 1, r, {"\r"})
  BY <1>4, LiteralMembers, ClearOf
<1>9. Clear(v, k, r, {"\r"})
  <2>1. Clear(v, k, k + 1, {"\r"})
    BY <1>2, <1>6, Distinct, ClearOne
  <2> QED BY <1>6, <1>8, <2>1, ClearOver
<1>10. r + 1 <= Len(v) /\ k + 1 <= Len(v) /\ Len(v) = r + 1
  BY <1>1, <1>6 DEF l
<1>11. Plus(k, 1) = k + 1 /\ k # npos
  BY <1>0, <1>10, NextIs, Lengths
<1>12. find(<<"\r">>, v, k + 1) = r /\ r # npos
  BY <1>3, <1>6, <1>8, <1>10, FindAt
<1> QED BY <1>2, <1>5, <1>6, <1>7, <1>9, <1>10, <1>11, <1>12 DEF l

(* What may stand between the '@' and what ends the host: with brackets    *)
(* also parameters. o is the length of what is in front of "sip".          *)
AddressIs(a, u, h, o) ==
  \/ o = 1 /\ a = Bracketed(u, h) /\ Free(h, Literal \ {Semicolon})
  \/ o = 0 /\ a = Unbracketed(u, h) /\ Free(h, Literal)

(* The '@' is at position q, and the host ends at position e.              *)
HostAt(v, o, u, h, q, e) ==
  /\ q \in Nat /\ e \in Nat /\ o \in {0, 1} /\ u \in Seq(Token) /\ h \in Seq(Token) /\ q + 1 <= e
  /\ Address(v, o, u, h) /\ Free(u, Literal) /\ q = o + Len(u) + 2 /\ e = q + 1 + Len(h)
  /\ Free(h, Literal \ {Semicolon}) /\ (o = 0 => Free(h, Literal))
  /\ o = 1 => v[e + 1] = ">"

LEMMA AddressIsAt ==
  ASSUME NEW v, IsValue(v), NEW u \in Seq(Token), NEW h \in Seq(Token), NEW a, NEW o \in {0, 1},
         AddressIs(a, u, h, o), Free(u, Literal), Stands(v, 0, a)
  PROVE  a \in Seq(Token) /\ \E q, e : HostAt(v, o, u, h, q, e) /\ Len(a) = e + o
<1> DEFINE m == Len(u)
           n == Len(h)
           q == o + m + 2
           e == q + 1 + n
<1>1. v \in Seq(Token) /\ m \in Nat /\ n \in Nat /\ o \in {0, 1}
  BY Strings DEF IsValue
<1>2. q \in Nat /\ e \in Nat /\ e + 1 = m + n + 4 + o /\ q + 1 <= e
  <2> HIDE DEF m, n
  <2> QED BY <1>1
<1>3. CASE o = 1
  <2>0. o # 0
    BY <1>3
  <2>1. a = Bracketed(u, h) /\ Free(h, Literal \ {Semicolon})
    BY <2>0, Zenon DEF AddressIs
  <2>2. /\ a \in Seq(Token) /\ Len(a) = m + n + 5 /\ Address(v, 1, u, h)
        /\ v[m + n + 5] = ">"
    BY <1>1, <2>1, BracketedParts
  <2>3. e + 1 = m + n + 5
    <3> HIDE DEF m, n, e
    <3> QED BY <1>1, <1>2, <1>3
  <2>4. v[e + 1] = ">" /\ Len(a) = e + o
    BY <1>3, <2>2, <2>3
  <2>5. HostAt(v, o, u, h, q, e)
    BY <1>1, <1>2, <1>3, <2>0, <2>1, <2>2, <2>4 DEF HostAt
  <2> HIDE DEF q, e
  <2> QED BY <1>2, <2>2, <2>4, <2>5
<1>4. CASE o = 0
  <2>0. o # 1
    BY <1>4
  <2>1. a = Unbracketed(u, h) /\ Free(h, Literal)
    BY <2>0, Zenon DEF AddressIs
  <2>2. /\ a \in Seq(Token) /\ Len(a) = m + n + 3
        /\ v[0 + 1] = "sip" /\ v[0 + 2] = ":" /\ Stands(v, 0 + 2, u)
        /\ v[0 + m + 3] = "@" /\ Stands(v, 0 + m + 3, h)
    BY <1>1, <2>1, UnbracketedParts
  <2>3. Address(v, 0, u, h)
    BY <2>2 DEF Address
  <2>4. Free(h, Literal \ {Semicolon})
    BY <2>1 DEF Free
  <2>5. HostAt(v, o, u, h, q, e)
    BY <1>1, <1>2, <1>4, <2>0, <2>1, <2>3, <2>4 DEF HostAt
  <2>6. Len(a) = e + o
    <3> HIDE DEF m, n, e
    <3> QED BY <1>1, <1>2, <1>4, <2>2
  <2> HIDE DEF q, e
  <2> QED BY <1>2, <2>2, <2>5, <2>6
<1> QED BY <1>3, <1>4

(* The host ends at the bracket that closes, or, without brackets, where   *)
(* the address does.                                                       *)
LEMMA HostFound ==
  ASSUME NEW v, IsValue(v), NEW o, NEW u, NEW h, NEW q, NEW e, HostAt(v, o, u, h, q, e), e + o + 1 <= Len(v), Clear(v, e + o, Len(v), {">"})
  PROVE  /\ Clear(v, q + 1, e, Literal \ {Semicolon}) /\ (o = 0 => Clear(v, q + 1, e, Literal))
         /\ Plus(q, 1) = q + 1
         /\ find(<<">">>, v, q + 1) = IF o = 1 THEN e ELSE npos
         /\ o = 1 => e # npos /\ v[e + 1] = ">"
         /\ AfterAddress(q, IF o = 1 THEN e ELSE npos) = IF o = 1 THEN e + 1 ELSE q + 1
         /\ Between(v, q, e) = h
<1>0. /\ q \in Nat /\ e \in Nat /\ o \in {0, 1} /\ u \in Seq(Token) /\ h \in Seq(Token)
      /\ q + 1 <= e /\ Free(u, Literal)
  BY DEF HostAt
<1>1. Len(v) \in Nat /\ Len(u) \in Nat /\ Len(h) \in Nat /\ v \in Seq(Token) /\ q + 1 \in Nat /\ e + o \in Nat
  BY <1>0, Strings DEF IsValue
<1>2. /\ Address(v, o, u, h) /\ (o = 1 => v[e + 1] = ">") /\ e = q + 1 + Len(h)
      /\ Free(h, Literal \ {Semicolon}) /\ (o = 0 => Free(h, Literal))
  BY DEF HostAt
<1>3. q + 1 = o + Len(u) + 3
  <2> DEFINE m == Len(u)
  <2>1. q = o + m + 2 /\ m \in Nat
    BY <1>1 DEF HostAt
  <2> HIDE DEF m
  <2>2. q + 1 = o + m + 3
    BY <1>0, <2>1
  <2> QED BY <2>2 DEF m
<1>5. Stands(v, q + 1, h)
  BY <1>0, <1>2, <1>3 DEF Address
<1>6. Clear(v, q + 1, e, Literal \ {Semicolon})
  BY <1>0, <1>1, <1>2, <1>5, StandsClear
<1>7. o = 0 => Clear(v, q + 1, e, Literal)
  BY <1>0, <1>1, <1>2, <1>5, StandsClear
<1>8. Plus(q, 1) = q + 1
  <2>1. q + 1 <= Len(v)
    BY <1>0, <1>1
  <2> QED BY <1>0, <2>1, NextIs
<1>9. Clear(v, q + 1, e, {">"})
  <2>1. ">" \in Literal \ {Semicolon}
    BY LiteralMembers, Distinct
  <2> QED BY <1>0, <1>6, <2>1, ClearOf
<1>10. Between(v, q, e) = h
  BY <1>0, <1>2, <1>5, BetweenIs
<1>11. CASE o = 1
  <2>0. e + 1 <= Len(v)
    BY <1>0, <1>1, <1>11
  <2>1. v[e + 1] = ">" /\ e + 1 <= Len(v)
    BY <1>0, <1>2, <1>11, <2>0
  <2>2. find(<<">">>, v, q + 1) = e /\ e # npos
    BY <1>0, <1>1, <1>9, <2>1, FindAt
  <2>3. Plus(e, 1) = e + 1
    BY <1>0, <2>1, NextIs
  <2>4. AfterAddress(q, e) = e + 1
    BY <1>0, <2>2, <2>3 DEF AfterAddress
  <2> QED BY <1>0, <1>2, <1>6, <1>7, <1>8, <1>10, <1>11, <2>2, <2>4, Zenon
<1>12. CASE o = 0
  <2>1. e + o = e /\ q + 1 \in Int /\ e \in Int /\ Len(v) \in Int
    BY <1>0, <1>1, <1>12
  <2>2. Clear(v, q + 1, Len(v), {">"})
    BY <1>0, <1>9, <2>1, ClearOver
  <2>3. find(<<">">>, v, q + 1) = npos
    BY <1>0, <1>1, <2>2, FindNone
  <2>4. AfterAddress(q, npos) = q + 1
    BY <1>0, <1>8 DEF AfterAddress
  <2>5. o # 1
    BY <1>0, <1>12
  <2> QED BY <1>0, <1>2, <1>6, <1>7, <1>8, <1>10, <2>5, <2>3, <2>4, Zenon
<1>13. o = 1 \/ o = 0
  BY <1>0
<1> QED BY <1>11, <1>12, <1>13

LEMMA AddressAt ==
  ASSUME NEW v, IsValue(v), NEW o, NEW u, NEW h, NEW q, NEW e, HostAt(v, o, u, h, q, e)
  PROVE  /\ find(<<"sip">>, v, 0) = o /\ find(<<"sip", ":">>, v, 0) = o /\ o # npos
         /\ find(<<"@">>, v, Plus(o, 1)) = q /\ find(<<"@">>, v, Plus(o, 2)) = q
         /\ find(<<"@">>, v, o) = q /\ q # npos /\ Plus(o, 2) = o + 2
         /\ substr(v, o + 2, Minus(q, o + 2)) = u
<1>1. /\ Address(v, o, u, h) /\ q = o + Len(u) + 2 /\ o \in {0, 1} /\ Free(u, Literal)
      /\ u \in Seq(Token) /\ h \in Seq(Token)
  BY DEF HostAt
<1> QED BY <1>1, AddressFound

(* The ';' in front of the parameter is the one that is found, from where  *)
(* it is searched.                                                         *)
SearchedFrom(o, q, e) == IF o = 1 THEN e + 1 ELSE q + 1

LEMMA ParamFound ==
  ASSUME NEW v, IsValue(v), NEW o \in {0, 1}, NEW q \in Nat, NEW e \in Nat, q + 1 <= e,
         o = 0 => Clear(v, q + 1, e, Literal), v[e + o + 1] = Semicolon, e + o + 1 <= Len(v)
  PROVE  find(<<Semicolon>>, v, SearchedFrom(o, q, e)) = e + o
<1>1. CASE o = 1
  <2>1. PICK k \in Nat : k = e + 1
    OBVIOUS
  <2>2. k = e + o /\ k \in Int
    BY <1>1, <2>1
  <2>3. Clear(v, k, k, {Semicolon})
    BY <2>2, ClearEmpty
  <2>4. v[k + 1] = Semicolon /\ k + 1 <= Len(v) /\ k <= k
    BY <2>2
  <2>5. find(<<Semicolon>>, v, k) = k
    BY <2>3, <2>4, FindAt
  <2> QED BY <1>1, <2>1, <2>2, <2>5 DEF SearchedFrom
<1>2. CASE o = 0
  <2>1. Clear(v, q + 1, e, {Semicolon})
    BY <1>2, LiteralMembers, ClearOf
  <2>2. q + 1 \in Nat /\ e + o = e
    BY <1>2
  <2>3. v[e + 1] = Semicolon /\ e + 1 <= Len(v)
    BY <2>2
  <2>4. find(<<Semicolon>>, v, q + 1) = e
    BY <2>1, <2>2, <2>3, FindAt
  <2>5. o # 1
    BY <1>2
  <2> QED BY <2>2, <2>4, <2>5 DEF SearchedFrom
<1> QED BY <1>1, <1>2

LEMMA FromFound ==
  ASSUME NEW v, IsValue(v), NEW o, NEW u, NEW h, NEW q, NEW e, HostAt(v, o, u, h, q, e),
         NEW k, NEW p, NEW r, ParamAt(v, k, p, r), k = e + o
  PROVE  parse_from(v) = Accept([from_uri |-> u, from_host |-> h, from_tag |-> p])
<1>1. q \in Nat /\ e \in Nat /\ o \in {0, 1} /\ q + 1 <= e /\ k \in Nat
  BY DEF HostAt, ParamAt
<1>2. /\ v[k + 1] = Semicolon /\ k + 1 <= Len(v) /\ Clear(v, k, Len(v), {">"})
      /\ find(<<"\r">>, v, Plus(k, 1)) = r /\ k # npos /\ r # npos
      /\ Between(v, k, r) = p
  BY ParamIs
<1>3. /\ find(<<"sip">>, v, 0) = o /\ o # npos
      /\ find(<<"@">>, v, Plus(o, 1)) = q /\ q # npos
      /\ substr(v, o + 2, Minus(q, o + 2)) = u
  BY AddressAt
<1>4. v[e + o + 1] = Semicolon /\ e + o + 1 <= Len(v) /\ Clear(v, e + o, Len(v), {">"})
  BY <1>2
<1>5. /\ o = 0 => Clear(v, q + 1, e, Literal)
      /\ Plus(q, 1) = q + 1
      /\ find(<<">">>, v, q + 1) = IF o = 1 THEN e ELSE npos
      /\ o = 1 => e # npos
      /\ AfterAddress(q, IF o = 1 THEN e ELSE npos) = IF o = 1 THEN e + 1 ELSE q + 1
      /\ Between(v, q, e) = h
  BY <1>4, HostFound
<1>6. find(<<Semicolon>>, v, IF o = 1 THEN e + 1 ELSE q + 1) = k
  <2>1. o = 0 => Clear(v, q + 1, e, Literal)
    BY <1>5
  <2>3. q \in Nat /\ e \in Nat /\ o \in {0, 1} /\ q + 1 <= e
    BY <1>1
  <2>4. v[e + o + 1] = Semicolon /\ e + o + 1 <= Len(v)
    BY <1>4
  <2>2. find(<<Semicolon>>, v, SearchedFrom(o, q, e)) = e + o
    BY <2>1, <2>3, <2>4, ParamFound
  <2> QED BY <2>2 DEF SearchedFrom
<1>7. find(<<">">>, v, Plus(q, 1)) = IF o = 1 THEN e ELSE npos
  BY <1>5
<1>8. CASE o = 1
  <2>1. find(<<">">>, v, Plus(q, 1)) = e /\ e # npos /\ find(<<Semicolon>>, v, AfterAddress(q, e)) = k
    BY <1>5, <1>6, <1>7, <1>8
  <2> QED BY <1>2, <1>3, <1>5, <2>1, Zenon DEF parse_from, Semicolon
<1>9. CASE o = 0
  <2>0. o # 1 /\ k = e
    BY <1>1, <1>9
  <2>1. find(<<">">>, v, Plus(q, 1)) = npos /\ find(<<Semicolon>>, v, AfterAddress(q, npos)) = k
    BY <1>5, <1>6, <1>7, <2>0
  <2> QED BY <1>2, <1>3, <1>5, <2>0, <2>1, Zenon DEF parse_from, Semicolon
<1> QED BY <1>1, <1>8, <1>9

LEMMA FromExact ==
  ASSUME NEW v, IsValue(v), NEW u \in Seq(Token), NEW h \in Seq(Token), NEW p \in Seq(Token), NEW a \in Seq(Token),
         NEW o \in {0, 1}, AddressIs(a, u, h, o), v = WithParam(a, p), Free(u, Literal), Free(p, Literal)
  PROVE  parse_from(v) = Accept([from_uri |-> u, from_host |-> h, from_tag |-> p])
<1>1. Stands(v, 0, a) /\ ParamAt(v, Len(a), p, Len(a) + Len(p) + 1)
  BY ParamParts
<1>2. PICK q, e : HostAt(v, o, u, h, q, e) /\ Len(a) = e + o
  BY <1>1, AddressIsAt
<1> QED BY <1>1, <1>2, FromFound

(* Between the '@' and what is behind the address there is no separator    *)
(* but the bracket that closes and those of parameters.                    *)
LEMMA HostClear ==
  ASSUME NEW v, IsValue(v), NEW o, NEW u, NEW h, NEW q, NEW e, HostAt(v, o, u, h, q, e), e + o + 1 <= Len(v),
         NEW b \in Literal, b # Semicolon, b # ">", Clear(v, e + o, Len(v), {">"})
  PROVE  Clear(v, q + 1, e + o, {b})
<1>1. q \in Nat /\ e \in Nat /\ o \in {0, 1} /\ q + 1 \in Int /\ e \in Int
  BY DEF HostAt
<1>2. Clear(v, q + 1, e, Literal \ {Semicolon}) /\ (o = 1 => v[e + 1] = ">")
  <2>1. Clear(v, q + 1, e, Literal \ {Semicolon})
    BY HostFound, Zenon
  <2> QED BY <2>1 DEF HostAt
<1>3. Clear(v, q + 1, e, {b})
  BY <1>2, ClearOf
<1>4. CASE o = 1
  <2>1. Clear(v, e, e + 1, {b})
    BY <1>1, <1>2, <1>4, ClearOne
  <2>2. e + o = e + 1 /\ e + 1 \in Int
    BY <1>1, <1>4
  <2>3. Clear(v, q + 1, e + 1, {b})
    BY <1>1, <1>3, <2>1, <2>2, ClearOver
  <2> QED BY <2>2, <2>3
<1>5. CASE o = 0
  <2>1. e + o = e
    BY <1>1, <1>5
  <2> QED BY <1>3, <2>1
<1> QED BY <1>1, <1>4, <1>5

LEMMA ToFound ==
  ASSUME NEW v, IsValue(v), NEW o, NEW u, NEW h, NEW q, NEW e, HostAt(v, o, u, h, q, e),
         NEW k, NEW p, NEW r, ParamAt(v, k, p, r), k = e + o
  PROVE  parse_to(v) = Accept([to_uri |-> u, to_host |-> h, to_tag |-> p])
<1>1. q \in Nat /\ e \in Nat /\ o \in {0, 1} /\ q + 1 <= e /\ k \in Nat /\ r \in Nat /\ q + 1 \in Nat /\ q + 1 \in Int
  BY DEF HostAt, ParamAt
<1>2. /\ v[k + 1] = Semicolon /\ k + 1 <= Len(v) /\ Clear(v, k, Len(v), {">"})
      /\ k # npos /\ r # npos /\ Between(v, k, r) = p
      /\ v[r + 1] = "\r" /\ Len(v) = r + 1 /\ k + 1 <= r /\ Clear(v, k, r, {"\r"})
  BY ParamIs
<1>3. /\ find(<<"sip">>, v, 0) = o /\ o # npos
      /\ find(<<"@">>, v, Plus(o, 1)) = q /\ q # npos
      /\ substr(v, o + 2, Minus(q, o + 2)) = u
  BY AddressAt
<1>4. v[e + o + 1] = Semicolon /\ e + o + 1 <= Len(v) /\ Clear(v, e + o, Len(v), {">"})
  BY <1>2
<1>5. /\ o = 0 => Clear(v, q + 1, e, Literal)
      /\ Plus(q, 1) = q + 1
      /\ find(<<">">>, v, q + 1) = IF o = 1 THEN e ELSE npos
      /\ o = 1 => e # npos
      /\ AfterAddress(q, IF o = 1 THEN e ELSE npos) = IF o = 1 THEN e + 1 ELSE q + 1
      /\ Between(v, q, e) = h
  BY <1>4, HostFound
<1>6. find(<<Semicolon>>, v, IF o = 1 THEN e + 1 ELSE q + 1) = k
  <2>1. o = 0 => Clear(v, q + 1, e, Literal)
    BY <1>5
  <2>3. q \in Nat /\ e \in Nat /\ o \in {0, 1} /\ q + 1 <= e
    BY <1>1
  <2>4. v[e + o + 1] = Semicolon /\ e + o + 1 <= Len(v)
    BY <1>4
  <2>2. find(<<Semicolon>>, v, SearchedFrom(o, q, e)) = e + o
    BY <2>1, <2>3, <2>4, ParamFound
  <2> QED BY <2>2 DEF SearchedFrom
<1>7. find(<<">">>, v, Plus(q, 1)) = IF o = 1 THEN e ELSE npos
  BY <1>5
<1>10. find(<<"\r">>, v, Plus(q, 1)) = r
  <2>1. Clear(v, q + 1, e + o, {"\r"})
    BY <1>4, HostClear, LiteralMembers, Distinct
  <2>2. Clear(v, q + 1, r, {"\r"})
    BY <1>1, <1>2, <2>1, ClearOver
  <2>3. q + 1 <= r /\ r + 1 <= Len(v)
    BY <1>1, <1>2
  <2>4. find(<<"\r">>, v, q + 1) = r
    BY <1>1, <1>2, <2>2, <2>3, FindAt
  <2> QED BY <1>5, <2>4
<1>8. CASE o = 1
  <2>1. find(<<">">>, v, Plus(q, 1)) = e /\ e # npos /\ find(<<Semicolon>>, v, AfterAddress(q, e)) = k
    BY <1>5, <1>6, <1>7, <1>8
  <2> QED BY <1>2, <1>3, <1>5, <1>10, <2>1, Zenon DEF parse_to, Semicolon
<1>9. CASE o = 0
  <2>0. o # 1 /\ k = e
    BY <1>1, <1>9
  <2>1. find(<<">">>, v, Plus(q, 1)) = npos /\ find(<<Semicolon>>, v, AfterAddress(q, npos)) = k
    BY <1>5, <1>6, <1>7, <2>0
  <2> QED BY <1>2, <1>3, <1>5, <1>10, <2>0, <2>1, Zenon DEF parse_to, Semicolon
<1> QED BY <1>1, <1>8, <1>9

(* Behind an address that ends the line nothing else is found.             *)
LEMMA EndIs ==
  ASSUME NEW v, IsValue(v), NEW k, EndAt(v, k), NEW b, b # "\r"
  PROVE  k + 1 <= Len(v) /\ Clear(v, k, Len(v), {b})
<1>1. k \in Nat /\ k \in Int /\ v[k + 1] = "\r" /\ Len(v) = k + 1
  BY DEF EndAt
<1>2. Clear(v, k, k + 1, {b})
  BY <1>1, ClearOne
<1> QED BY <1>1, <1>2

LEMMA ToEndedFound ==
  ASSUME NEW v, IsValue(v), NEW o, NEW u, NEW h, NEW q, NEW e, HostAt(v, o, u, h, q, e),
         NEW k, EndAt(v, k), k = e + o
  PROVE  parse_to(v) = Accept([to_uri |-> u, to_host |-> h, to_tag |-> <<>>])
<1>1. /\ q \in Nat /\ e \in Nat /\ o \in {0, 1} /\ q + 1 <= e /\ k \in Nat /\ q + 1 \in Nat /\ q + 1 \in Int
      /\ e \in Int /\ v[k + 1] = "\r" /\ Len(v) = k + 1
  BY DEF HostAt, EndAt
<1>2. k + 1 <= Len(v) /\ Clear(v, k, Len(v), {">"}) /\ Clear(v, k, Len(v), {Semicolon})
  BY EndIs, Distinct
<1>3. /\ find(<<"sip">>, v, 0) = o /\ o # npos
      /\ find(<<"@">>, v, Plus(o, 1)) = q /\ q # npos
      /\ substr(v, o + 2, Minus(q, o + 2)) = u
  BY AddressAt
<1>4. e + o + 1 <= Len(v) /\ Clear(v, e + o, Len(v), {">"})
  BY <1>2
<1>5. /\ o = 0 => Clear(v, q + 1, e, Literal)
      /\ Plus(q, 1) = q + 1
      /\ find(<<">">>, v, q + 1) = IF o = 1 THEN e ELSE npos
      /\ o = 1 => e # npos
      /\ AfterAddress(q, IF o = 1 THEN e ELSE npos) = IF o = 1 THEN e + 1 ELSE q + 1
      /\ Between(v, q, e) = h
  BY <1>4, HostFound
<1>7. find(<<">">>, v, Plus(q, 1)) = IF o = 1 THEN e ELSE npos
  BY <1>5
<1>10. find(<<"\r">>, v, Plus(q, 1)) = k /\ k # npos
  <2>1. Clear(v, q + 1, k, {"\r"})
    BY <1>4, HostClear, LiteralMembers, Distinct
  <2>2. q + 1 <= k
    BY <1>1
  <2>3. find(<<"\r">>, v, q + 1) = k /\ k # npos
    BY <1>1, <1>2, <2>1, <2>2, FindAt
  <2> QED BY <1>5, <2>3
<1>8. CASE o = 1
  <2>0. k = e + 1
    BY <1>8
  <2>1. find(<<">">>, v, Plus(q, 1)) = e /\ e # npos /\ AfterAddress(q, e) = k
    BY <1>5, <1>7, <1>8, <2>0
  <2>2. find(<<Semicolon>>, v, k) = npos
    BY <1>1, <1>2, FindNone
  <2> QED BY <1>3, <1>5, <1>10, <2>1, <2>2, Zenon DEF parse_to, Semicolon
<1>9. CASE o = 0
  <2>0. o # 1 /\ k = e
    BY <1>1, <1>9
  <2>1. find(<<">">>, v, Plus(q, 1)) = npos /\ AfterAddress(q, npos) = q + 1
    BY <1>5, <1>7, <2>0
  <2>2. Clear(v, q + 1, Len(v), {Semicolon})
    <3>1. Clear(v, q + 1, e, {Semicolon})
      BY <1>5, <1>9, LiteralMembers, ClearOf
    <3>2. Len(v) \in Int
      BY <1>1
    <3> QED BY <1>1, <1>2, <2>0, <3>1, <3>2, ClearOver
  <2>3. find(<<Semicolon>>, v, q + 1) = npos
    BY <1>1, <2>2, FindNone
  <2> QED BY <1>3, <1>5, <1>10, <2>0, <2>1, <2>3, Zenon DEF parse_to, Semicolon
<1> QED BY <1>1, <1>8, <1>9

LEMMA ToExact ==
  ASSUME NEW v, IsValue(v), NEW u \in Seq(Token), NEW h \in Seq(Token), NEW p \in Seq(Token), NEW a \in Seq(Token),
         NEW o \in {0, 1}, AddressIs(a, u, h, o), v = WithParam(a, p), Free(u, Literal), Free(p, Literal)
  PROVE  parse_to(v) = Accept([to_uri |-> u, to_host |-> h, to_tag |-> p])
<1>1. Stands(v, 0, a) /\ ParamAt(v, Len(a), p, Len(a) + Len(p) + 1)
  BY ParamParts
<1>2. PICK q, e : HostAt(v, o, u, h, q, e) /\ Len(a) = e + o
  BY <1>1, AddressIsAt
<1> QED BY <1>1, <1>2, ToFound

LEMMA ToEndedExact ==
  ASSUME NEW v, IsValue(v), NEW u \in Seq(Token), NEW h \in Seq(Token), NEW a \in Seq(Token),
         NEW o \in {0, 1}, AddressIs(a, u, h, o), v = Ended(a), Free(u, Literal)
  PROVE  parse_to(v) = Accept([to_uri |-> u, to_host |-> h, to_tag |-> <<>>])
<1>1. Stands(v, 0, a) /\ EndAt(v, Len(a))
  BY EndedParts
<1>2. PICK q, e : HostAt(v, o, u, h, q, e) /\ Len(a) = e + o
  BY <1>1, AddressIsAt
<1> QED BY <1>1, <1>2, ToEndedFound

(* From the beginning of the line to the end of an address without         *)
(* brackets no line ends.                                                  *)
LEMMA LineClear ==
  ASSUME NEW v, IsValue(v), NEW o, NEW u, NEW h, NEW q, NEW e, HostAt(v, o, u, h, q, e), o = 0, e + 1 <= Len(v)
  PROVE  Clear(v, 0, e, {"\r"})
<1>1. /\ q \in Nat /\ e \in Nat /\ q + 1 <= e /\ u \in Seq(Token) /\ h \in Seq(Token)
      /\ Free(u, Literal) /\ Free(h, Literal) /\ Address(v, o, u, h) /\ q = Len(u) + 2 /\ e = q + 1 + Len(h)
  BY DEF HostAt
<1>2. v \in Seq(Token) /\ Len(u) \in Nat /\ Len(h) \in Nat
  BY <1>1, Strings DEF IsValue
<1>3. /\ v[1] = "sip" /\ v[2] = ":" /\ Stands(v, 2, u) /\ v[q + 1] = "@" /\ Stands(v, q + 1, h)
  <2>1. v[0 + 1] = "sip" /\ v[0 + 2] = ":" /\ Stands(v, 0 + 2, u) /\ v[0 + Len(u) + 3] = "@" /\ Stands(v, 0 + Len(u) + 3, h)
    BY <1>1 DEF Address
  <2>2. 0 + Len(u) + 3 = q + 1
    BY <1>1, <1>2
  <2> QED BY <2>1, <2>2
<1>4. Clear(v, 2, q, {"\r"})
  <2>1. Clear(v, 2, 2 + Len(u), Literal) /\ 2 + Len(u) = q
    BY <1>1, <1>2, <1>3, StandsClear
  <2> QED BY <2>1, LiteralMembers, ClearOf
<1>5. Clear(v, q + 1, e, {"\r"})
  <2>1. q + 1 \in Nat
    BY <1>1
  <2>2. Clear(v, q + 1, e, Literal)
    BY <1>1, <1>2, <1>3, <2>1, StandsClear
  <2> QED BY <2>2, LiteralMembers, ClearOf
<1> SUFFICES ASSUME NEW n \in 1 .. e PROVE v[n] # "\r"
  BY DEF Clear
<1>6. n = 1 \/ n = 2 \/ n \in 2 + 1 .. q \/ n = q + 1 \/ n \in q + 1 + 1 .. e
  BY <1>1, <1>2
<1> QED BY <1>3, <1>4, <1>5, <1>6 DEF Clear

LEMMA IdentityFound ==
  ASSUME NEW v, IsValue(v), NEW o, NEW u, NEW h, NEW q, NEW e, HostAt(v, o, u, h, q, e),
         NEW k, EndAt(v, k), k = e + o
  PROVE  identity(v) = Accept([uri |-> u, host |-> h])
<1>1. /\ q \in Nat /\ e \in Nat /\ o \in {0, 1} /\ q + 1 <= e /\ k \in Nat
      /\ v[k + 1] = "\r" /\ Len(v) = k + 1
  BY DEF HostAt, EndAt
<1>2. k + 1 <= Len(v) /\ Clear(v, k, Len(v), {">"})
  BY EndIs, Distinct
<1>3. /\ find(<<"sip", ":">>, v, 0) = o /\ o # npos
      /\ find(<<"@">>, v, Plus(o, 2)) = q /\ q # npos
      /\ substr(v, o + 2, Minus(q, o + 2)) = u
  BY AddressAt
<1>4. e + o + 1 <= Len(v) /\ Clear(v, e + o, Len(v), {">"})
  BY <1>2
<1>5. /\ Plus(q, 1) = q + 1
      /\ find(<<">">>, v, q + 1) = IF o = 1 THEN e ELSE npos
      /\ o = 1 => e # npos
      /\ Between(v, q, e) = h
  BY <1>4, HostFound
<1>7. find(<<">">>, v, Plus(q, 1)) = IF o = 1 THEN e ELSE npos
  BY <1>5
<1>8. CASE o = 1
  <2>1. find(<<">">>, v, Plus(q, 1)) = e /\ e # npos
    BY <1>5, <1>7, <1>8
  <2> QED BY <1>3, <1>5, <2>1, Zenon DEF identity
<1>9. CASE o = 0
  <2>0. o # 1 /\ k = e
    BY <1>1, <1>9
  <2>1. find(<<">">>, v, Plus(q, 1)) = npos
    BY <1>7, <2>0
  <2>2. Clear(v, 0, e, {"\r"})
    BY <1>2, <1>9, <2>0, LineClear
  <2>3. v[e + 1] = "\r" /\ e + 1 <= Len(v)
    BY <1>1, <2>0
  <2>4. find(<<"\r">>, v, 0) = e
    BY <1>1, <2>2, <2>3, FindAt
  <2> QED BY <1>3, <1>5, <2>1, <2>4, Zenon DEF identity
<1> QED BY <1>1, <1>8, <1>9

LEMMA IdentityExact ==
  ASSUME NEW v, IsValue(v), NEW u \in Seq(Token), NEW h \in Seq(Token), NEW a \in Seq(Token),
         NEW o \in {0, 1}, AddressIs(a, u, h, o), Free(u, Literal), v = Ended(a)
  PROVE  identity(v) = Accept([uri |-> u, host |-> h])
<1>1. Stands(v, 0, a) /\ EndAt(v, Len(a))
  BY EndedParts
<1>2. PICK q, e : HostAt(v, o, u, h, q, e) /\ Len(a) = e + o
  BY <1>1, AddressIsAt
<1> QED BY <1>1, <1>2, IdentityFound

-----------------------------------------------------------------------------
(* Values put together from more than an address *)

(* s stands in v from position k up to position l.                         *)
Piece(v, k, s, l) == s \in Seq(Token) /\ k \in Nat /\ l \in Nat /\ l = k + Len(s) /\ Stands(v, k, s)

LEMMA WholePiece ==
  ASSUME NEW v, IsValue(v)
  PROVE  Piece(v, 0, v, Len(v))
<1>1. v \in Seq(Token) /\ Len(v) \in Nat
  BY Strings DEF IsValue
<1> QED BY <1>1, StandsWhole DEF Piece

LEMMA PieceParts ==
  ASSUME NEW v, IsValue(v), NEW k, NEW l, NEW s \in Seq(Token), NEW t \in Seq(Token), Piece(v, k, s \o t, l)
  PROVE  \E n \in Nat : Piece(v, k, s, n) /\ Piece(v, n, t, l)
<1>1. v \in Seq(Token) /\ Len(t) \in Nat /\ Len(s) \in Nat
  BY Strings DEF IsValue
<1>2. k \in Nat /\ l \in Nat /\ l = k + Len(s \o t) /\ Stands(v, k, s \o t)
  BY DEF Piece
<1>3. Stands(v, k, s) /\ Stands(v, k + Len(s), t) /\ Len(s \o t) = Len(s) + Len(t)
  BY <1>1, <1>2, StandsPieces
<1>4. k + Len(s) \in Nat /\ l = k + Len(s) + Len(t)
  BY <1>1, <1>2, <1>3
<1> QED BY <1>2, <1>3, <1>4 DEF Piece

LEMMA PieceToken ==
  ASSUME NEW v, IsValue(v), NEW k, NEW l, NEW a, Piece(v, k, <<a>>, l)
  PROVE  k \in Nat /\ l = k + 1 /\ v[k + 1] = a /\ k + 1 <= Len(v)
<1>1. v \in Seq(Token) /\ Len(<<a>>) = 1
  BY Strings DEF IsValue
<1> QED BY <1>1, StandsOne DEF Piece

LEMMA PieceIs ==
  ASSUME NEW v, IsValue(v), NEW k, NEW l, NEW s, Piece(v, k, s, l)
  PROVE  /\ s \in Seq(Token) /\ k \in Nat /\ l \in Nat /\ k <= l /\ l <= Len(v)
         /\ substr(v, k, Len(s)) = s /\ substr(v, k, Minus(l, k)) = s
         /\ \A i \in Nat : i + 1 = k => Between(v, i, l) = s
<1>1. s \in Seq(Token) /\ k \in Nat /\ l \in Nat /\ l = k + Len(s) /\ Stands(v, k, s)
  BY DEF Piece
<1>2. Len(v) \in Nat /\ Len(s) \in Nat
  BY <1>1, Lengths
<1>3. k <= l /\ l <= Len(v)
  BY <1>1, <1>2 DEF Stands
<1>4. substr(v, k, Len(s)) = s /\ substr(v, k, Minus(l, k)) = s
  BY <1>1, SubstrIs, CutIs
<1>5. ASSUME NEW i \in Nat, i + 1 = k PROVE Between(v, i, l) = s
  BY <1>1, <1>5, BetweenIs
<1> QED BY <1>1, <1>3, <1>4, <1>5

(* No separator is found in a text.                                        *)
LEMMA PieceClear ==
  ASSUME NEW v, IsValue(v), NEW k, NEW l, NEW s, Piece(v, k, s, l), Free(s, Literal), NEW b \in Literal
  PROVE  Clear(v, k, l, {b})
<1>1. v \in Seq(Token)
  BY Strings DEF IsValue
<1>2. Clear(v, k, l, Literal)
  BY <1>1, StandsClear DEF Piece
<1> QED BY <1>2, ClearOf

(* Nor in a token that is another.                                         *)
LEMMA ClearAfter ==
  ASSUME NEW v, NEW i \in Nat, NEW k \in Nat, NEW a, NEW b, a # b, Clear(v, i, k, {b}), v[k + 1] = a
  PROVE  Clear(v, i, k + 1, {b})
<1>1. i \in Int /\ k \in Int /\ k + 1 \in Int
  OBVIOUS
<1>2. Clear(v, k, k + 1, {b})
  BY <1>1, ClearOne
<1> QED BY <1>1, <1>2, ClearOver

(* Nor in a text behind them.                                              *)
LEMMA ClearText ==
  ASSUME NEW v, IsValue(v), NEW i \in Nat, NEW k, NEW l, NEW s, Piece(v, k, s, l), Free(s, Literal),
         NEW b \in Literal, Clear(v, i, k, {b})
  PROVE  Clear(v, i, l, {b})
<1>1. i \in Int /\ k \in Int /\ l \in Int
  BY DEF Piece
<1>2. Clear(v, k, l, {b})
  BY PieceClear
<1> QED BY <1>1, <1>2, ClearOver

(* The token a is at position k, and the text s from k up to l.            *)
At(v, k, a) == k \in Nat /\ k + 1 <= Len(v) /\ v[k + 1] = a
Text_(v, k, s, l) == Piece(v, k, s, l) /\ Free(s, Literal)

(* No token from position i up to position j is b.                         *)
Without(v, i, j, b) == i \in Nat /\ j \in Nat /\ i <= j /\ Clear(v, i, j, {b})

LEMMA WithoutNone ==
  ASSUME NEW v, NEW i \in Nat, NEW b
  PROVE  Without(v, i, i, b)
<1>1. i \in Int
  OBVIOUS
<1> QED BY <1>1, ClearEmpty DEF Without

LEMMA WithoutToken ==
  ASSUME NEW v, NEW i, NEW k, NEW b, Without(v, i, k, b), NEW a, At(v, k, a), a # b
  PROVE  Without(v, i, k + 1, b)
<1>1. i \in Nat /\ k \in Nat /\ Clear(v, i, k, {b}) /\ i <= k /\ v[k + 1] = a
  BY DEF Without, At
<1>2. Clear(v, i, k + 1, {b})
  BY <1>1, ClearAfter
<1> QED BY <1>1, <1>2 DEF Without

LEMMA WithoutText ==
  ASSUME NEW v, IsValue(v), NEW i, NEW k, NEW b \in Literal, Without(v, i, k, b), NEW s, NEW l, Text_(v, k, s, l)
  PROVE  Without(v, i, l, b)
<1>1. i \in Nat /\ Clear(v, i, k, {b}) /\ i <= k
  BY DEF Without
<1>2. Piece(v, k, s, l) /\ Free(s, Literal) /\ k \in Nat /\ l \in Nat /\ k <= l
  BY PieceIs DEF Text_
<1>3. Clear(v, i, l, {b})
  BY <1>1, <1>2, ClearText
<1> QED BY <1>1, <1>2, <1>3 DEF Without

(* So the search from i finds the one at k.                                *)
LEMMA Search ==
  ASSUME NEW v, IsValue(v), NEW i, NEW k, NEW a, Without(v, i, k, a), At(v, k, a)
  PROVE  find(<<a>>, v, i) = k /\ k # npos /\ Plus(k, 1) = k + 1 /\ k \in Nat
<1>1. i \in Nat /\ k \in Nat /\ i <= k /\ Clear(v, i, k, {a}) /\ k + 1 <= Len(v) /\ v[k + 1] = a
  BY DEF Without, At
<1>2. find(<<a>>, v, i) = k /\ k # npos
  BY <1>1, FindAt
<1>3. Plus(k, 1) = k + 1
  BY <1>1, NextIs
<1> QED BY <1>1, <1>2, <1>3

(* The separator right behind a text.                                      *)
LEMMA SearchNext ==
  ASSUME NEW v, IsValue(v), NEW j, NEW s, NEW k, Text_(v, j, s, k), NEW a \in Literal, At(v, k, a)
  PROVE  find(<<a>>, v, j) = k /\ k # npos /\ Plus(k, 1) = k + 1 /\ k \in Nat
<1>1. j \in Nat
  BY DEF Text_, Piece
<1> QED BY <1>1, WithoutNone, WithoutText, Search

(* What is cut out between two separators.                                 *)
LEMMA TextIs ==
  ASSUME NEW v, IsValue(v), NEW i, NEW a, At(v, i, a), NEW s, NEW k, Text_(v, i + 1, s, k)
  PROVE  Between(v, i, k) = s
<1>1. i \in Nat
  BY DEF At
<1> QED BY <1>1, PieceIs DEF Text_

(* A form is taken apart from its end.                                     *)
LEMMA LastToken ==
  ASSUME NEW v, IsValue(v), NEW k, NEW l, NEW s \in Seq(Token), NEW a \in Token, Piece(v, k, s \o <<a>>, l)
  PROVE  \E n : Piece(v, k, s, n) /\ At(v, n, a) /\ l = n + 1
<1> DEFINE t == <<a>>
<1>1. t \in Seq(Token)
  OBVIOUS
<1>2. PICK n \in Nat : Piece(v, k, s, n) /\ Piece(v, n, t, l)
  <2> HIDE DEF t
  <2> QED BY <1>1, PieceParts DEF t
<1>3. n \in Nat /\ l = n + 1 /\ v[n + 1] = a /\ n + 1 <= Len(v)
  BY <1>2, PieceToken
<1> QED BY <1>2, <1>3 DEF At

LEMMA LastText ==
  ASSUME NEW v, IsValue(v), NEW k, NEW l, NEW s \in Seq(Token), NEW t \in Seq(Token), Free(t, Literal),
         Piece(v, k, s \o t, l)
  PROVE  \E n : Piece(v, k, s, n) /\ Text_(v, n, t, l)
<1>1. PICK n \in Nat : Piece(v, k, s, n) /\ Piece(v, n, t, l)
  BY PieceParts
<1> QED BY <1>1 DEF Text_

LEMMA LastPair ==
  ASSUME NEW v, IsValue(v), NEW k, NEW l, NEW s \in Seq(Token), NEW a, NEW b, <<a, b>> \in Seq(Token),
         Piece(v, k, s \o <<a, b>>, l)
  PROVE  \E n : Piece(v, k, s, n) /\ At(v, n, a) /\ At(v, n + 1, b) /\ l = n + 2
<1> DEFINE t == <<a, b>>
<1>1. t \in Seq(Token) /\ Len(t) = 2
  OBVIOUS
<1>2. PICK n \in Nat : Piece(v, k, s, n) /\ Piece(v, n, t, l)
  <2> HIDE DEF t
  <2> QED BY <1>1, PieceParts DEF t
<1>3. n \in Nat /\ l = n + 2 /\ Stands(v, n, <<a, b>>) /\ v \in Seq(Token) /\ Len(v) \in Nat
  BY <1>1, <1>2, Strings DEF Piece, IsValue
<1>4. n + 2 <= Len(v) /\ v[n + 1] = a /\ v[n + 2] = b
  BY <1>3, StandsTwo
<1>5. n + 1 \in Nat /\ (n + 1) + 1 = n + 2 /\ n + 1 <= Len(v) /\ (n + 1) + 1 <= Len(v)
  BY <1>3, <1>4
<1>6. At(v, n, a) /\ At(v, n + 1, b)
  BY <1>3, <1>4, <1>5 DEF At
<1> QED BY <1>2, <1>3, <1>6

LEMMA AtPiece ==
  ASSUME NEW v, IsValue(v), NEW k, NEW l, NEW a, Piece(v, k, <<a>>, l)
  PROVE  At(v, k, a) /\ l = k + 1
BY PieceToken DEF At

LEMMA LongerToken ==
  ASSUME NEW s \in Seq(Token), NEW a \in Token
  PROVE  s \o <<a>> \in Seq(Token)
OBVIOUS

LEMMA Separators == Literal \subseteq Token /\ "<" \in Token
BY DEF Token

-----------------------------------------------------------------------------
(* CSeq: a number and a method *)

LEMMA CSeqFound ==
  ASSUME NEW v, IsValue(v), NEW u, NEW k, Text_(v, 0, u, k), At(v, k, Space), NEW h, NEW r, Text_(v, k + 1, h, r),
         At(v, r, "\r")
  PROVE  parse_cseq(v) = Accept([cseq_nr |-> u, cseq_typ |-> h])
<1>0. Space \in Literal /\ "\r" \in Literal /\ Space # "\r"
  BY LiteralMembers, Distinct
<1>1. find(<<Space>>, v, 0) = k /\ k # npos /\ k \in Nat
  BY <1>0, SearchNext
<1>2. find(<<"\r">>, v, 0) = r /\ r # npos
  <2>1. Without(v, 0, 0, "\r")
    BY WithoutNone
  <2>2. Without(v, 0, k, "\r")
    BY <1>0, <2>1, WithoutText
  <2>3. Without(v, 0, k + 1, "\r")
    BY <1>0, <2>2, WithoutToken
  <2>4. Without(v, 0, r, "\r")
    BY <1>0, <2>3, WithoutText
  <2> QED BY <2>4, Search
<1>3. substr(v, 0, k) = u
  <2>1. Piece(v, 0, u, k) /\ k = 0 + Len(u) /\ u \in Seq(Token)
    BY DEF Text_, Piece
  <2>2. k = Len(u)
    BY <2>1
  <2> QED BY <2>1, <2>2, PieceIs
<1>4. Between(v, k, r) = h
  BY TextIs
<1> QED BY <1>1, <1>2, <1>3, <1>4, Zenon DEF parse_cseq, Space

CSeqForm(u, h) == u \o <<Space>> \o h \o <<"\r">>

LEMMA CSeqExact ==
  ASSUME NEW v, IsValue(v), NEW u \in Seq(Token), NEW h \in Seq(Token), Free(u, Literal), Free(h, Literal),
         v = CSeqForm(u, h)
  PROVE  parse_cseq(v) = Accept([cseq_nr |-> u, cseq_typ |-> h])
<1> DEFINE s1 == u \o <<Space>>
           s2 == s1 \o h
<1>0. Space \in Token /\ "\r" \in Token
  BY LiteralMembers, Separators
<1>1. s1 \in Seq(Token)
  BY <1>0, LongerToken
<1> HIDE DEF s1
<1>2. s2 \in Seq(Token)
  BY <1>1, Concatenated
<1> HIDE DEF s2
<1>3. Piece(v, 0, s2 \o <<"\r">>, Len(v))
  <2>1. v = s2 \o <<"\r">>
    BY DEF CSeqForm, s1, s2
  <2> QED BY <2>1, WholePiece
<1>4. PICK r : Piece(v, 0, s2, r) /\ At(v, r, "\r")
  BY <1>0, <1>2, <1>3, LastToken
<1>5. PICK n : Piece(v, 0, s1, n) /\ Text_(v, n, h, r)
  BY <1>1, <1>4, LastText DEF s2
<1>6. PICK k : Piece(v, 0, u, k) /\ At(v, k, Space) /\ n = k + 1
  BY <1>0, <1>5, LastToken DEF s1
<1>7. Text_(v, 0, u, k)
  BY <1>6 DEF Text_
<1> QED BY <1>4, <1>5, <1>6, <1>7, CSeqFound

-----------------------------------------------------------------------------
(* Via with a port and the branch first *)

(* Where the parts stand.                                                  *)
ViaAt(v, t, a, u, b, p, c, q, e) ==
  /\ At(v, 0, "SIP/2.0/") /\ Text_(v, 1, t, a) /\ At(v, a, Space) /\ Text_(v, a + 1, u, b)
  /\ At(v, b, ":") /\ Text_(v, b + 1, p, c) /\ At(v, c, Semicolon) /\ At(v, c + 1, "branch=")
  /\ Text_(v, c + 2, q, e) /\ At(v, e, "\r")

LEMMA ViaFound ==
  ASSUME NEW v, IsValue(v), NEW t, NEW a, NEW u, NEW b, NEW p, NEW c, NEW q, NEW e, ViaAt(v, t, a, u, b, p, c, q, e)
  PROVE  via_header(v) = Accept([transport |-> t, uri |-> u, port |-> p, branch |-> q])
<1>0. /\ "SIP/2.0/" \in Literal /\ Space \in Literal /\ ":" \in Literal /\ "branch=" \in Literal /\ "\r" \in Literal
      /\ "SIP/2.0/" # "branch=" /\ Space # "branch=" /\ ":" # "branch=" /\ Semicolon # "branch=" /\ "branch=" # "\r"
  BY LiteralMembers, Distinct
<1>1. /\ At(v, 0, "SIP/2.0/") /\ Text_(v, 1, t, a) /\ At(v, a, Space) /\ Text_(v, a + 1, u, b)
      /\ At(v, b, ":") /\ Text_(v, b + 1, p, c) /\ At(v, c, Semicolon) /\ At(v, c + 1, "branch=")
      /\ Text_(v, c + 2, q, e) /\ At(v, e, "\r")
  BY DEF ViaAt
<1>2. a \in Nat /\ b \in Nat /\ c \in Nat /\ e \in Nat
  BY <1>1 DEF At
<1>3. find(<<"SIP/2.0/">>, v, 0) = 0 /\ 0 # npos /\ Plus(0, 1) = 1
  <2>1. Without(v, 0, 0, "SIP/2.0/")
    BY WithoutNone
  <2>2. find(<<"SIP/2.0/">>, v, 0) = 0 /\ 0 # npos /\ Plus(0, 1) = 0 + 1
    BY <1>1, <2>1, Search
  <2> QED BY <2>2
<1>4. find(<<Space>>, v, 1) = a /\ a # npos /\ Plus(a, 1) = a + 1
  BY <1>0, <1>1, SearchNext
<1>5. find(<<":">>, v, a + 1) = b /\ b # npos /\ Plus(b, 1) = b + 1
  BY <1>0, <1>1, SearchNext
<1>6. find(<<"branch=">>, v, 0) = c + 1 /\ c + 1 # npos
  <2>1. Without(v, 0, 0, "branch=")
    BY WithoutNone
  <2>2. Without(v, 0, 0 + 1, "branch=")
    BY <1>0, <1>1, <2>1, WithoutToken
  <2>3. Without(v, 0, 1, "branch=")
    BY <2>2
  <2>4. Without(v, 0, a, "branch=")
    BY <1>0, <1>1, <2>3, WithoutText
  <2>5. Without(v, 0, a + 1, "branch=")
    BY <1>0, <1>1, <2>4, WithoutToken
  <2>6. Without(v, 0, b, "branch=")
    BY <1>0, <1>1, <2>5, WithoutText
  <2>7. Without(v, 0, b + 1, "branch=")
    BY <1>0, <1>1, <2>6, WithoutToken
  <2>8. Without(v, 0, c, "branch=")
    BY <1>0, <1>1, <2>7, WithoutText
  <2>9. Without(v, 0, c + 1, "branch=")
    BY <1>0, <1>1, <2>8, WithoutToken
  <2> QED BY <1>1, <2>9, Search
<1>7. find(<<"\r">>, v, c + 1) = e /\ e # npos
  <2>1. c + 1 \in Nat /\ (c + 1) + 1 = c + 2
    BY <1>2
  <2>2. Without(v, c + 1, c + 1, "\r")
    BY <2>1, WithoutNone
  <2>3. Without(v, c + 1, (c + 1) + 1, "\r")
    BY <1>0, <1>1, <2>2, WithoutToken
  <2>4. Without(v, c + 1, c + 2, "\r")
    BY <2>1, <2>3
  <2>5. Without(v, c + 1, e, "\r")
    BY <1>0, <1>1, <2>4, WithoutText
  <2> QED BY <1>1, <2>5, Search
<1>8. Between(v, 0, a) = t
  <2>1. Text_(v, 0 + 1, t, a)
    BY <1>1
  <2> QED BY <1>1, <2>1, TextIs
<1>9. Between(v, a, b) = u
  BY <1>1, TextIs
<1>10. substr(v, b + 1, PortLength(c + 1, b)) = p
  <2>1. Piece(v, b + 1, p, c)
    BY <1>1 DEF Text_
  <2>2. substr(v, b + 1, Len(p)) = p /\ c = b + 1 + Len(p) /\ Len(p) \in Nat
    BY <2>1, PieceIs DEF Piece
  <2>3. Minus(c + 1, b + 2) = c + 1 - (b + 2)
    <3> DEFINE x == c + 1
               y == b + 2
    <3>1. x \in Nat /\ y \in Nat /\ y <= x /\ x <= Len(v)
      BY <1>1, <1>2, <2>2 DEF At
    <3> HIDE DEF x, y
    <3>2. Minus(x, y) = x - y
      BY <3>1, MinusIs
    <3> QED BY <1>2, <3>2 DEF x, y
  <2>4. c + 1 - (b + 2) = Len(p)
    BY <1>2, <2>2
  <2> QED BY <2>2, <2>3, <2>4 DEF PortLength
<1>11. Between(v, c + 1, e) = q
  <2>1. (c + 1) + 1 = c + 2
    BY <1>2
  <2> QED BY <1>1, <2>1, TextIs
<1> QED
  BY <1>3, <1>4, <1>5, <1>6, <1>7, <1>8, <1>9, <1>10, <1>11, Zenon DEF via_header, Space

LEMMA ViaExact ==
  ASSUME NEW v, IsValue(v), NEW t \in Seq(Token), NEW u \in Seq(Token), NEW p \in Seq(Token), NEW q \in Seq(Token),
         Free(t, Literal), Free(u, Literal), Free(p, Literal), Free(q, Literal), v = Via(t, u, p, q)
  PROVE  via_header(v) = Accept([transport |-> t, uri |-> u, port |-> p, branch |-> q])
<1> DEFINE s0 == <<"SIP/2.0/">>
           s1 == s0 \o t
           s2 == s1 \o <<Space>>
           s3 == s2 \o u
           s4 == s3 \o <<":">>
           s5 == s4 \o p
           s6 == <<Semicolon, "branch=">>
           s7 == s5 \o s6
           s8 == s7 \o q
<1>0. "SIP/2.0/" \in Token /\ Space \in Token /\ ":" \in Token /\ "\r" \in Token
  BY LiteralMembers, Separators
<1>1. s0 \in Seq(Token) /\ s6 \in Seq(Token)
  BY Literals, LiteralMembers
<1> HIDE DEF s0, s6
<1>2. s1 \in Seq(Token)
  BY <1>1, Concatenated
<1> HIDE DEF s1
<1>3. s2 \in Seq(Token)
  BY <1>0, <1>2, LongerToken
<1> HIDE DEF s2
<1>4. s3 \in Seq(Token)
  BY <1>3, Concatenated
<1> HIDE DEF s3
<1>5. s4 \in Seq(Token)
  BY <1>0, <1>4, LongerToken
<1> HIDE DEF s4
<1>6. s5 \in Seq(Token)
  BY <1>5, Concatenated
<1> HIDE DEF s5
<1>7. s7 \in Seq(Token)
  BY <1>1, <1>6, Concatenated
<1> HIDE DEF s7
<1>8. s8 \in Seq(Token)
  BY <1>7, Concatenated
<1> HIDE DEF s8
<1>9. Piece(v, 0, s8 \o <<"\r">>, Len(v))
  <2>1. v = s8 \o <<"\r">>
    BY Zenon DEF Via, Space, Semicolon, s0, s1, s2, s3, s4, s5, s6, s7, s8
  <2> QED BY <2>1, WholePiece
<1>10. PICK e : Piece(v, 0, s8, e) /\ At(v, e, "\r")
  BY <1>0, <1>8, <1>9, LastToken
<1>11. PICK d : Piece(v, 0, s7, d) /\ Text_(v, d, q, e)
  BY <1>7, <1>10, LastText DEF s8
<1>12. PICK c : Piece(v, 0, s5, c) /\ At(v, c, Semicolon) /\ At(v, c + 1, "branch=") /\ d = c + 2
  BY <1>1, <1>6, <1>11, LastPair DEF s6, s7
<1>13. PICK f : Piece(v, 0, s4, f) /\ Text_(v, f, p, c)
  BY <1>5, <1>12, LastText DEF s5
<1>14. PICK b : Piece(v, 0, s3, b) /\ At(v, b, ":") /\ f = b + 1
  BY <1>0, <1>4, <1>13, LastToken DEF s4
<1>15. PICK g : Piece(v, 0, s2, g) /\ Text_(v, g, u, b)
  BY <1>3, <1>14, LastText DEF s3
<1>16. PICK a : Piece(v, 0, s1, a) /\ At(v, a, Space) /\ g = a + 1
  BY <1>0, <1>2, <1>15, LastToken DEF s2
<1>17. PICK h : Piece(v, 0, s0, h) /\ Text_(v, h, t, a)
  BY <1>1, <1>16, LastText DEF s1
<1>18. At(v, 0, "SIP/2.0/") /\ h = 1
  <2>1. At(v, 0, "SIP/2.0/") /\ h = 0 + 1
    BY <1>17, AtPiece DEF s0
  <2> QED BY <2>1
<1>19. ViaAt(v, t, a, u, b, p, c, q, e)
  BY <1>10, <1>11, <1>12, <1>13, <1>14, <1>15, <1>16, <1>17, <1>18 DEF ViaAt
<1> QED BY <1>19, ViaFound

-----------------------------------------------------------------------------
(* A Contact with all its parts *)

LEMMA AtPair ==
  ASSUME NEW v, IsValue(v), NEW k, NEW l, NEW a, NEW b, Piece(v, k, <<a, b>>, l)
  PROVE  At(v, k, a) /\ At(v, k + 1, b) /\ l = k + 2 /\ k \in Nat
<1> DEFINE t == <<a, b>>
<1>1. Len(t) = 2
  OBVIOUS
<1>2. k \in Nat /\ l = k + 2 /\ Stands(v, k, <<a, b>>) /\ v \in Seq(Token) /\ Len(v) \in Nat
  BY <1>1, Strings DEF Piece, IsValue
<1>3. k + 2 <= Len(v) /\ v[k + 1] = a /\ v[k + 2] = b
  BY <1>2, StandsTwo
<1>4. k + 1 \in Nat /\ (k + 1) + 1 = k + 2 /\ k + 1 <= Len(v) /\ (k + 1) + 1 <= Len(v)
  BY <1>2, <1>3
<1> QED BY <1>2, <1>3, <1>4 DEF At

ContactAt(v, u, a, h, b, p, c, t, d, q, e) ==
  /\ At(v, 0, "<") /\ At(v, 1, "sip") /\ At(v, 2, ":") /\ Text_(v, 3, u, a) /\ At(v, a, "@")
  /\ Text_(v, a + 1, h, b) /\ At(v, b, ":") /\ Text_(v, b + 1, p, c) /\ At(v, c, Semicolon)
  /\ Text_(v, c + 1, t, d) /\ At(v, d, ">") /\ Text_(v, d + 1, q, e) /\ At(v, e, "\r")

LEMMA ContactFound ==
  ASSUME NEW v, IsValue(v), NEW u, NEW a, NEW h, NEW b, NEW p, NEW c, NEW t, NEW d, NEW q, NEW e,
         ContactAt(v, u, a, h, b, p, c, t, d, q, e)
  PROVE  parse_contact(<<v>>) =
           Accept([contact_uri |-> u, contact_host |-> h, contact_port |-> p, contact_transport |-> t,
                   contact_param |-> q])
<1>0. /\ "sip" \in Literal /\ ":" \in Literal /\ "@" \in Literal /\ ">" \in Literal /\ "\r" \in Literal
      /\ Semicolon \in Literal /\ Semicolon # ">" /\ Semicolon # "\r" /\ Semicolon # ":"
      /\ Semicolon # "@"
  BY LiteralMembers, Distinct
<1>1. /\ At(v, 0, "<") /\ At(v, 1, "sip") /\ At(v, 2, ":") /\ Text_(v, 3, u, a) /\ At(v, a, "@")
      /\ Text_(v, a + 1, h, b) /\ At(v, b, ":") /\ Text_(v, b + 1, p, c) /\ At(v, c, Semicolon)
      /\ Text_(v, c + 1, t, d) /\ At(v, d, ">") /\ Text_(v, d + 1, q, e) /\ At(v, e, "\r")
  BY DEF ContactAt
<1>2. a \in Nat /\ b \in Nat /\ c \in Nat /\ d \in Nat /\ e \in Nat
  BY <1>1 DEF At
<1>3. find(<<"sip", ":">>, v, 0) = 1 /\ 1 # npos
  <2>1. Without(v, 0, 0, "sip")
    BY WithoutNone
  <2>2. Without(v, 0, 0 + 1, "sip")
    BY <1>1, <2>1, WithoutToken
  <2>3. Clear(v, 0, 1, {"sip"})
    BY <2>2 DEF Without
  <2>4. v[1 + 1] = "sip" /\ v[1 + 2] = ":" /\ 1 + 2 <= Len(v)
    BY <1>1 DEF At
  <2> QED BY <2>3, <2>4, FindPair
<1>4. find(<<"@">>, v, 1) = a /\ a # npos
  <2>1. Without(v, 1, 1, "@")
    BY WithoutNone
  <2>2. Without(v, 1, 1 + 1, "@")
    BY <1>1, <2>1, WithoutToken
  <2>3. Without(v, 1, 2, "@")
    BY <2>2
  <2>4. Without(v, 1, 2 + 1, "@")
    BY <1>1, <2>3, WithoutToken
  <2>5. Without(v, 1, 3, "@")
    BY <2>4
  <2>6. Without(v, 1, a, "@")
    BY <1>0, <1>1, <2>5, WithoutText
  <2> QED BY <1>1, <2>6, Search
<1>5. find(<<":">>, v, a) = b /\ b # npos
  <2>1. Without(v, a, a, ":")
    BY <1>2, WithoutNone
  <2>2. Without(v, a, a + 1, ":")
    BY <1>1, <2>1, WithoutToken
  <2>3. Without(v, a, b, ":")
    BY <1>0, <1>1, <2>2, WithoutText
  <2> QED BY <1>1, <2>3, Search
<1>6. find(<<Semicolon>>, v, b) = c
  <2>1. Without(v, b, b, Semicolon)
    BY <1>2, WithoutNone
  <2>2. Without(v, b, b + 1, Semicolon)
    BY <1>0, <1>1, <2>1, WithoutToken
  <2>3. Without(v, b, c, Semicolon)
    BY <1>0, <1>1, <2>2, WithoutText
  <2> QED BY <1>1, <2>3, Search
<1>7. find(<<">">>, v, a) = d
  <2>1. Without(v, a, a, ">")
    BY <1>2, WithoutNone
  <2>2. Without(v, a, a + 1, ">")
    BY <1>1, <2>1, WithoutToken
  <2>3. Without(v, a, b, ">")
    BY <1>0, <1>1, <2>2, WithoutText
  <2>4. Without(v, a, b + 1, ">")
    BY <1>1, <2>3, WithoutToken
  <2>5. Without(v, a, c, ">")
    BY <1>0, <1>1, <2>4, WithoutText
  <2>6. Without(v, a, c + 1, ">")
    BY <1>0, <1>1, <2>5, WithoutToken
  <2>7. Without(v, a, d, ">")
    BY <1>0, <1>1, <2>6, WithoutText
  <2> QED BY <1>1, <2>7, Search
<1>8. find(<<"\r">>, v, 0) = e
  <2>1. Without(v, 0, 0, "\r")
    BY WithoutNone
  <2>2. Without(v, 0, 0 + 1, "\r")
    BY <1>1, <2>1, WithoutToken
  <2>3. Without(v, 0, 1, "\r")
    BY <2>2
  <2>4. Without(v, 0, 1 + 1, "\r")
    BY <1>1, <2>3, WithoutToken
  <2>5. Without(v, 0, 2, "\r")
    BY <2>4
  <2>6. Without(v, 0, 2 + 1, "\r")
    BY <1>1, <2>5, WithoutToken
  <2>7. Without(v, 0, 3, "\r")
    BY <2>6
  <2>8. Without(v, 0, a, "\r")
    BY <1>0, <1>1, <2>7, WithoutText
  <2>9. Without(v, 0, a + 1, "\r")
    BY <1>1, <2>8, WithoutToken
  <2>10. Without(v, 0, b, "\r")
    BY <1>0, <1>1, <2>9, WithoutText
  <2>11. Without(v, 0, b + 1, "\r")
    BY <1>1, <2>10, WithoutToken
  <2>12. Without(v, 0, c, "\r")
    BY <1>0, <1>1, <2>11, WithoutText
  <2>13. Without(v, 0, c + 1, "\r")
    BY <1>0, <1>1, <2>12, WithoutToken
  <2>14. Without(v, 0, d, "\r")
    BY <1>0, <1>1, <2>13, WithoutText
  <2>15. Without(v, 0, d + 1, "\r")
    BY <1>1, <2>14, WithoutToken
  <2>16. Without(v, 0, e, "\r")
    BY <1>0, <1>1, <2>15, WithoutText
  <2> QED BY <1>1, <2>16, Search
<1>9. substr(v, Plus(1, 2), Minus(a, 1 + 2)) = u
  <2>1. Plus(1, 2) = 3 /\ 1 + 2 = 3
    <3>1. 1 + 1 <= Len(v)
      BY <1>1 DEF At
    <3>2. Plus(1, 2) = 1 + 2
      BY <3>1, NextIs
    <3> QED BY <3>2
  <2>2. substr(v, 3, Minus(a, 3)) = u
    BY <1>1, PieceIs DEF Text_
  <2> QED BY <2>1, <2>2
<1>10. Between(v, a, b) = h
  BY <1>1, TextIs
<1>11. Between(v, b, c) = p
  BY <1>1, TextIs
<1>12. Between(v, c, d) = t
  BY <1>1, TextIs
<1>13. Between(v, d, e) = q
  BY <1>1, TextIs
<1>14. <<v>> # <<>> /\ ~(Len(<<v>>) > 1) /\ <<v>>[1] = v
  OBVIOUS
<1> QED
  BY <1>3, <1>4, <1>5, <1>6, <1>7, <1>8, <1>9, <1>10, <1>11, <1>12, <1>13, <1>14, ZenonT(40)
  DEF parse_contact, Semicolon

LEMMA ContactExact ==
  ASSUME NEW v, IsValue(v), NEW u \in Seq(Token), NEW h \in Seq(Token), NEW p \in Seq(Token), NEW t \in Seq(Token),
         NEW q \in Seq(Token), Free(u, Literal), Free(h, Literal), Free(p, Literal), Free(t, Literal),
         Free(q, Literal), v = Contact(u, h, p, t, q)
  PROVE  parse_contact(<<v>>) =
           Accept([contact_uri |-> u, contact_host |-> h, contact_port |-> p, contact_transport |-> t,
                   contact_param |-> q])
<1> DEFINE s0 == <<"<", "sip", ":">>
           s1 == s0 \o u
           s2 == s1 \o <<"@">>
           s3 == s2 \o h
           s4 == s3 \o <<":">>
           s5 == s4 \o p
           s6 == s5 \o <<Semicolon>>
           s7 == s6 \o t
           s8 == s7 \o <<">">>
           s9 == s8 \o q
<1>0. "@" \in Token /\ ":" \in Token /\ Semicolon \in Token /\ ">" \in Token /\ "\r" \in Token
  BY LiteralMembers, Separators
<1>1. s0 \in Seq(Token)
  BY Literals
<1> HIDE DEF s0
<1>2. s1 \in Seq(Token)
  BY <1>1, Concatenated
<1> HIDE DEF s1
<1>3. s2 \in Seq(Token)
  BY <1>0, <1>2, LongerToken
<1> HIDE DEF s2
<1>4. s3 \in Seq(Token)
  BY <1>3, Concatenated
<1> HIDE DEF s3
<1>5. s4 \in Seq(Token)
  BY <1>0, <1>4, LongerToken
<1> HIDE DEF s4
<1>6. s5 \in Seq(Token)
  BY <1>5, Concatenated
<1> HIDE DEF s5
<1>7. s6 \in Seq(Token)
  BY <1>0, <1>6, LongerToken
<1> HIDE DEF s6
<1>8. s7 \in Seq(Token)
  BY <1>7, Concatenated
<1> HIDE DEF s7
<1>9. s8 \in Seq(Token)
  BY <1>0, <1>8, LongerToken
<1> HIDE DEF s8
<1>10. s9 \in Seq(Token)
  BY <1>9, Concatenated
<1> HIDE DEF s9
<1>11. Piece(v, 0, s9 \o <<"\r">>, Len(v))
  <2>1. v = s9 \o <<"\r">>
    BY Zenon DEF Contact, Semicolon, s0, s1, s2, s3, s4, s5, s6, s7, s8, s9
  <2> QED BY <2>1, WholePiece
<1>12. PICK e : Piece(v, 0, s9, e) /\ At(v, e, "\r")
  BY <1>0, <1>10, <1>11, LastToken
<1>13. PICK f : Piece(v, 0, s8, f) /\ Text_(v, f, q, e)
  BY <1>9, <1>12, LastText DEF s9
<1>14. PICK d : Piece(v, 0, s7, d) /\ At(v, d, ">") /\ f = d + 1
  BY <1>0, <1>8, <1>13, LastToken DEF s8
<1>15. PICK g : Piece(v, 0, s6, g) /\ Text_(v, g, t, d)
  BY <1>7, <1>14, LastText DEF s7
<1>16. PICK c : Piece(v, 0, s5, c) /\ At(v, c, Semicolon) /\ g = c + 1
  BY <1>0, <1>6, <1>15, LastToken DEF s6
<1>17. PICK i : Piece(v, 0, s4, i) /\ Text_(v, i, p, c)
  BY <1>5, <1>16, LastText DEF s5
<1>18. PICK b : Piece(v, 0, s3, b) /\ At(v, b, ":") /\ i = b + 1
  BY <1>0, <1>4, <1>17, LastToken DEF s4
<1>19. PICK j : Piece(v, 0, s2, j) /\ Text_(v, j, h, b)
  BY <1>3, <1>18, LastText DEF s3
<1>20. PICK a : Piece(v, 0, s1, a) /\ At(v, a, "@") /\ j = a + 1
  BY <1>0, <1>2, <1>19, LastToken DEF s2
<1>21. PICK k : Piece(v, 0, s0, k) /\ Text_(v, k, u, a)
  BY <1>1, <1>20, LastText DEF s1
<1>22. At(v, 0, "<") /\ At(v, 1, "sip") /\ At(v, 2, ":") /\ k = 3
  <2>1. Len(s0) = 3
    BY DEF s0
  <2>2. Stands(v, 0, <<"<", "sip", ":">>) /\ k = 0 + Len(s0) /\ v \in Seq(Token)
    BY <1>21, Strings DEF Piece, IsValue, s0
  <2>3. 0 + 3 <= Len(v) /\ v[0 + 1] = "<" /\ v[0 + 2] = "sip" /\ v[0 + 3] = ":"
    BY <2>2, StandsThree
  <2>4. Len(v) \in Nat
    BY Lengths
  <2> QED BY <2>1, <2>2, <2>3, <2>4 DEF At
<1>23. ContactAt(v, u, a, h, b, p, c, t, d, q, e)
  BY <1>12, <1>13, <1>14, <1>15, <1>16, <1>17, <1>18, <1>19, <1>20, <1>21, <1>22 DEF ContactAt
<1> QED BY <1>23, ContactFound

-----------------------------------------------------------------------------
(* Session-Expires with the refresher that is named *)

LEMMA RefresherFound ==
  ASSUME NEW v, IsValue(v), NEW n \in DOMAIN Numeral, At(v, 0, n), At(v, 1, Semicolon), At(v, 2, "refresher="),
         NEW u, NEW e, Text_(v, 3, u, e), At(v, e, "\r")
  PROVE  session_value(v) = [timer |-> Numeral[n], named |-> TRUE, refresher |-> u]
<1>0. /\ "refresher=" \in Literal /\ "\r" \in Literal /\ Semicolon # "refresher=" /\ Semicolon # "\r"
      /\ n # "refresher=" /\ n # "\r"
  BY LiteralMembers, Distinct, HeaderFieldsAssumption
<1>1. find(<<"refresher=">>, v, 0) = 2 /\ 2 # npos
  <2>1. Without(v, 0, 0, "refresher=")
    BY WithoutNone
  <2>2. Without(v, 0, 0 + 1, "refresher=")
    BY <1>0, <2>1, WithoutToken
  <2>3. Without(v, 0, 1, "refresher=")
    BY <2>2
  <2>4. Without(v, 0, 1 + 1, "refresher=")
    BY <1>0, <2>3, WithoutToken
  <2>5. Without(v, 0, 2, "refresher=")
    BY <2>4
  <2> QED BY <2>5, Search
<1>2. find(<<"\r">>, v, 0) = e /\ e # npos
  <2>1. Without(v, 0, 0, "\r")
    BY WithoutNone
  <2>2. Without(v, 0, 0 + 1, "\r")
    BY <1>0, <2>1, WithoutToken
  <2>3. Without(v, 0, 1, "\r")
    BY <2>2
  <2>4. Without(v, 0, 1 + 1, "\r")
    BY <1>0, <2>3, WithoutToken
  <2>5. Without(v, 0, 2, "\r")
    BY <2>4
  <2>6. Without(v, 0, 2 + 1, "\r")
    BY <2>5, WithoutToken
  <2>7. Without(v, 0, 3, "\r")
    BY <2>6
  <2>8. Without(v, 0, e, "\r")
    BY <1>0, <2>7, WithoutText
  <2> QED BY <2>8, Search
<1>3. stoi(substr(v, 0, TimerLength(2))) = Numeral[n]
  <2>1. Minus(2, 1) = 1
    <3>1. 2 <= Len(v)
      BY Lengths DEF At
    <3>2. Minus(2, 1) = 2 - 1
      BY <3>1, MinusIs
    <3> QED BY <3>2
  <2>2. v \in Seq(STRING) /\ Len(v) \in Nat /\ 1 <= Len(v) /\ v[1] = n
    BY DEF IsValue, At
  <2>3. Min({0 + 1, Len(v)}) = 1
    BY <2>2, LeastIs
  <2>4. substr(v, 0, 1) = SubSeq(v, 0 + 1, 1)
    <3>1. ~(0 > Len(v))
      BY <2>2
    <3> QED BY <2>3, <3>1, Zenon DEF substr
  <2> DEFINE w == SubSeq(v, 1, 1)
  <2>5. Len(w) = 1 /\ w[1] = n /\ w # <<>>
    BY <2>2
  <2>6. substr(v, 0, 1) = w
    BY <2>4
  <2> HIDE DEF w
  <2>7. stoi(w) = Numeral[n]
    BY <2>5 DEF stoi
  <2> QED BY <2>1, <2>6, <2>7 DEF TimerLength
<1>4. Between(v, 2, e) = u
  <2>1. Text_(v, 2 + 1, u, e)
    OBVIOUS
  <2> QED BY <2>1, TextIs
<1> QED BY <1>1, <1>2, <1>3, <1>4, Zenon DEF session_value

RefresherForm(n, u) == <<n, Semicolon, "refresher=">> \o u \o <<"\r">>

(* A value begins with a string.                                           *)
LEMMA FirstToken ==
  ASSUME NEW S, NEW s \in Seq(S), NEW t \in Seq(S), NEW w \in Seq(S), 1 \in DOMAIN s
  PROVE  1 \in DOMAIN (s \o t \o w) /\ (s \o t \o w)[1] = s[1]
<1> DEFINE r == s \o t
<1>1. r \in Seq(S) /\ Len(r) = Len(s) + Len(t) /\ Len(t) \in Nat
  OBVIOUS
<1>3. r[1] = s[1]
  OBVIOUS
<1> HIDE DEF r
<1>2. 1 \in DOMAIN (r \o w) /\ (r \o w)[1] = r[1]
  <2>1. 1 \in 1 .. Len(r) /\ DOMAIN r = 1 .. Len(r)
    BY <1>1
  <2> QED BY <1>1, <2>1
<1> QED BY <1>2, <1>3 DEF r

LEMMA RefresherExact ==
  ASSUME NEW v, IsValue(v), NEW n \in DOMAIN Numeral, NEW u \in Seq(Token), Free(u, Literal),
         v = RefresherForm(n, u)
  PROVE  session_value(v) = [timer |-> Numeral[n], named |-> TRUE, refresher |-> u]
<1> DEFINE s0 == <<n, Semicolon, "refresher=">>
           s1 == s0 \o u
           T == Token \cup {n}
<1>0. "\r" \in Token /\ Semicolon \in Token /\ "refresher=" \in Token
  BY LiteralMembers, Separators
<1>1. n \in Token
  <2> DEFINE z == <<"\r">>
  <2>1. s0 \in Seq(T) /\ 1 \in DOMAIN s0 /\ s0[1] = n
    BY <1>0
  <2>2. u \in Seq(T) /\ z \in Seq(T)
    BY <1>0
  <2>3. v = s0 \o u \o z
    BY DEF RefresherForm
  <2> HIDE DEF s0, T, z
  <2>4. 1 \in DOMAIN (s0 \o u \o z) /\ (s0 \o u \o z)[1] = s0[1]
    BY <2>1, <2>2, FirstToken
  <2>5. v[1] = n /\ 1 \in DOMAIN v /\ v \in Seq(STRING)
    BY <2>1, <2>3, <2>4 DEF IsValue
  <2>6. n \in STRING
    BY <2>5
  <2> QED BY <2>6 DEF Token
<1>2. s0 \in Seq(Token)
  BY <1>0, <1>1
<1> HIDE DEF s0
<1>3. s1 \in Seq(Token)
  BY <1>2, Concatenated
<1> HIDE DEF s1
<1>4. Piece(v, 0, s1 \o <<"\r">>, Len(v))
  <2>1. v = s1 \o <<"\r">>
    BY DEF RefresherForm, s0, s1
  <2> QED BY <2>1, WholePiece
<1>5. PICK e : Piece(v, 0, s1, e) /\ At(v, e, "\r")
  BY <1>0, <1>3, <1>4, LastToken
<1>6. PICK k : Piece(v, 0, s0, k) /\ Text_(v, k, u, e)
  BY <1>2, <1>5, LastText DEF s1
<1>7. At(v, 0, n) /\ At(v, 1, Semicolon) /\ At(v, 2, "refresher=") /\ k = 3
  <2>1. Len(s0) = 3
    BY DEF s0
  <2>2. Stands(v, 0, <<n, Semicolon, "refresher=">>) /\ k = 0 + Len(s0) /\ v \in Seq(Token)
    BY <1>6, Strings DEF Piece, IsValue, s0
  <2>3. 0 + 3 <= Len(v) /\ v[0 + 1] = n /\ v[0 + 2] = Semicolon /\ v[0 + 3] = "refresher="
    BY <2>2, StandsThree
  <2>4. Len(v) \in Nat
    BY Lengths
  <2> QED BY <2>1, <2>2, <2>3, <2>4 DEF At
<1> QED BY <1>5, <1>6, <1>7, RefresherFound

-----------------------------------------------------------------------------
(* The first line of a request *)

LEMMA RequestFound ==
  ASSUME NEW v, IsValue(v), NEW u, NEW a, Text_(v, 0, u, a), At(v, a, Space),
         At(v, a + 1, "sip"), At(v, a + 2, ":"), NEW h, NEW b, Text_(v, a + 3, h, b), At(v, b, "@"),
         NEW s, Piece(v, a + 1, s, b), NEW p, NEW c, Text_(v, b + 1, p, c), At(v, c, Space)
  PROVE  parse_request_line(v) = Accept([method |-> u, request_uri |-> s, request_host |-> p])
<1>0. Space \in Literal /\ "@" \in Literal /\ Space # "sip" /\ Space # ":" /\ Space # "@"
  BY LiteralMembers, Distinct
<1>1. a \in Nat /\ b \in Nat /\ c \in Nat /\ a + 1 \in Nat /\ (a + 1) + 1 = a + 2 /\ (a + 2) + 1 = a + 3
  BY DEF At
<1>2. find(<<Space>>, v, 0) = a /\ a # npos /\ Plus(a, 1) = a + 1
  BY <1>0, SearchNext
<1>3. find(<<Space>>, v, a + 1) = c /\ c # npos
  <2>1. Without(v, a + 1, a + 1, Space)
    BY <1>1, WithoutNone
  <2>2. Without(v, a + 1, (a + 1) + 1, Space)
    BY <1>0, <2>1, WithoutToken
  <2>3. Without(v, a + 1, a + 2, Space)
    BY <1>1, <2>2
  <2>4. Without(v, a + 1, (a + 2) + 1, Space)
    BY <1>0, <2>3, WithoutToken
  <2>5. Without(v, a + 1, a + 3, Space)
    BY <1>1, <2>4
  <2>6. Without(v, a + 1, b, Space)
    BY <1>0, <2>5, WithoutText
  <2>7. Without(v, a + 1, b + 1, Space)
    BY <1>0, <2>6, WithoutToken
  <2>8. Without(v, a + 1, c, Space)
    BY <1>0, <2>7, WithoutText
  <2> QED BY <2>8, Search
<1>4. find(<<"@">>, v, a + 1) = b
  <2>1. Without(v, a + 1, a + 1, "@")
    BY <1>1, WithoutNone
  <2>2. Without(v, a + 1, (a + 1) + 1, "@")
    BY <2>1, WithoutToken
  <2>3. Without(v, a + 1, a + 2, "@")
    BY <1>1, <2>2
  <2>4. Without(v, a + 1, (a + 2) + 1, "@")
    BY <2>3, WithoutToken
  <2>5. Without(v, a + 1, a + 3, "@")
    BY <1>1, <2>4
  <2>6. Without(v, a + 1, b, "@")
    BY <1>0, <2>5, WithoutText
  <2> QED BY <2>6, Search
<1>5. substr(v, 0, a) = u
  <2>1. Piece(v, 0, u, a) /\ a = 0 + Len(u) /\ u \in Seq(Token)
    BY DEF Text_, Piece
  <2>2. a = Len(u)
    BY <2>1
  <2> QED BY <2>1, <2>2, PieceIs
<1>6. Between(v, a, b) = s
  BY <1>1, PieceIs
<1>7. Between(v, b, c) = p
  BY TextIs
<1> QED BY <1>2, <1>3, <1>4, <1>5, <1>6, <1>7, Zenon DEF parse_request_line, Space

RequestForm(u, h, p) == u \o <<Space>> \o Unbracketed(h, p) \o <<Space, "SIP/2.0">>

LEMMA RequestExact ==
  ASSUME NEW v, IsValue(v), NEW u \in Seq(Token), NEW h \in Seq(Token), NEW p \in Seq(Token),
         Free(u, Literal), Free(h, Literal), Free(p, Literal),
         v = RequestForm(u, h, p)
  PROVE  parse_request_line(v)
           = Accept([method |-> u, request_uri |-> <<"sip", ":">> \o h, request_host |-> p])
<1> DEFINE t0 == <<"sip", ":">>
           t1 == t0 \o h
           t2 == t1 \o <<"@">>
           t3 == t2 \o p
           s1 == u \o <<Space>>
           s2 == s1 \o t3
<1>0. "@" \in Token /\ Space \in Token
  BY LiteralMembers, Separators
<1>1. t0 \in Seq(Token)
  BY Literals
<1> HIDE DEF t0
<1>2. t1 \in Seq(Token)
  BY <1>1, Concatenated
<1> HIDE DEF t1
<1>3. t2 \in Seq(Token)
  BY <1>0, <1>2, LongerToken
<1> HIDE DEF t2
<1>4. t3 \in Seq(Token)
  BY <1>3, Concatenated
<1> HIDE DEF t3
<1>5. s1 \in Seq(Token)
  BY <1>0, LongerToken
<1> HIDE DEF s1
<1>6. s2 \in Seq(Token)
  BY <1>4, <1>5, Concatenated
<1> HIDE DEF s2
<1>7. Piece(v, 0, s2 \o <<Space, "SIP/2.0">>, Len(v))
  <2>1. v = s2 \o <<Space, "SIP/2.0">>
    BY Zenon DEF RequestForm, Unbracketed, t0, t1, t2, t3, s1, s2
  <2> QED BY <2>1, WholePiece
<1>8. PICK c : Piece(v, 0, s2, c) /\ At(v, c, Space)
  BY <1>6, <1>7, Literals, LastPair
<1>9. PICK f : Piece(v, 0, s1, f) /\ Piece(v, f, t3, c)
  BY <1>4, <1>5, <1>8, PieceParts DEF s2
<1>10. PICK a : Piece(v, 0, u, a) /\ At(v, a, Space) /\ f = a + 1
  BY <1>0, <1>9, LastToken DEF s1
<1>11. PICK g : Piece(v, f, t2, g) /\ Text_(v, g, p, c)
  BY <1>3, <1>9, LastText DEF t3
<1>12. PICK b : Piece(v, f, t1, b) /\ At(v, b, "@") /\ g = b + 1
  BY <1>0, <1>2, <1>11, LastToken DEF t2
<1>13. PICK i : Piece(v, f, t0, i) /\ Text_(v, i, h, b)
  BY <1>1, <1>12, LastText DEF t1
<1>14. At(v, f, "sip") /\ At(v, f + 1, ":") /\ i = f + 2
  BY <1>13, AtPair DEF t0
<1>15. Text_(v, 0, u, a)
  BY <1>10 DEF Text_
<1>16. f + 1 = a + 2 /\ f + 2 = a + 3
  BY <1>10 DEF At
<1>17. /\ At(v, a + 1, "sip") /\ At(v, a + 2, ":") /\ Text_(v, a + 3, h, b) /\ Piece(v, a + 1, t1, b)
       /\ Text_(v, b + 1, p, c)
  BY <1>10, <1>11, <1>12, <1>13, <1>14, <1>16
<1>18. parse_request_line(v) = Accept([method |-> u, request_uri |-> t1, request_host |-> p])
  BY <1>8, <1>10, <1>12, <1>15, <1>17, RequestFound
<1> QED BY <1>18, Zenon DEF t1, t0
=============================================================================

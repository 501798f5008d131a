---------------------------- MODULE TokensProofs ----------------------------
(***************************************************************************)
(* Theorems about Tokens, for values of any length, any number of lines    *)
(* and every limit.                                                        *)
(***************************************************************************)
EXTENDS Tokens, SequenceTheorems, WellFoundedInduction, TLAPS

(* Characters p..q of value v are a token. *)
Bounds(v, p, q) ==
    /\ p <= q
    /\ \A n \in p..q : v[n] # Sep
    /\ p = 1 \/ v[p - 1] = Sep
    /\ q = Len(v) \/ v[q + 1] = Sep

(* The reader is not in the middle of a token. *)
Between ==
    line <= Len(lines) => \/ i = 1 \/ i = Len(Value) + 1
                          \/ i <= Len(Value) /\ Value[i] = Sep
                          \/ i > 1 /\ Value[i - 1] = Sep

Full == warned /\ Len(tags) = MaxTokens

(* A tag that differs from a in case only has been stored. *)
Has(a) == \E n \in 1..Len(tags) : SameTag(a, tags[n])

(* The tokens before the position that has been reached. *)
Passed(n, p) == n < line \/ (n = line /\ p < i)

Only == \A n \in 1..Len(tags) : tags[n] \in AllTokens(LinesThat(Reads))

Once == \A m, n \in 1..Len(tags) : SameTag(tags[m], tags[n]) => m = n

Every ==
    \A n \in 1..Len(lines) :
        Reads(lines[n]) =>
            \A p, q \in 1..Len(lines[n].value) :
                Bounds(lines[n].value, p, q) /\ Passed(n, p) =>
                    Has(SubSeq(lines[n].value, p, q)) \/ Full

Result ==
    /\ warned => Full
    /\ rc \in {"OK", "DECLINED"} =>
          /\ line = Len(lines) + 1
          /\ rc = IF reader = "request" /\ tags = <<>> THEN "DECLINED" ELSE "OK"

TokensInv == TypeOK /\ Between /\ Only /\ Once /\ Every /\ Result

-----------------------------------------------------------------------------
(* Tokens and positions. *)

Characters == Letters \cup {Sep}

LEMMA SourceFacts ==
    ASSUME NEW L \in Sources
    PROVE  /\ Len(L) \in Nat
           /\ \A n \in 1..Len(L) : /\ L[n].value \in Seq(Characters) /\ Len(L[n].value) \in Nat
                                   /\ L[n].wanted \in BOOLEAN /\ L[n].header \in BOOLEAN
  <1> DEFINE R == [wanted : BOOLEAN, header : BOOLEAN, value : Seq(Characters)]
  <1>1. L \in Seq(R)
    BY SourcesAssumption DEF Characters
  <1>2. ASSUME NEW l \in R
        PROVE  /\ l.value \in Seq(Characters) /\ Len(l.value) \in Nat
               /\ l.wanted \in BOOLEAN /\ l.header \in BOOLEAN
    <2>1. l.value \in Seq(Characters) /\ l.wanted \in BOOLEAN /\ l.header \in BOOLEAN
      OBVIOUS
    <2> QED  BY <2>1
  <1> HIDE DEF R
  <1>3. Len(L) \in Nat /\ \A n \in 1..Len(L) : L[n] \in R
    BY <1>1
  <1> QED  BY <1>2, <1>3

LEMMA LineFacts ==
    ASSUME TypeOK
    PROVE  /\ Len(lines) \in Nat /\ line \in Nat /\ line >= 1 /\ line <= Len(lines) + 1
           /\ i \in Nat /\ i >= 1
           /\ \A n \in 1..Len(lines) :
                 lines[n].value \in Seq(Characters) /\ Len(lines[n].value) \in Nat
           /\ line <= Len(lines) =>
                 /\ line \in 1..Len(lines) /\ Value \in Seq(Characters) /\ Len(Value) \in Nat
                 /\ i <= Len(Value) + 1
  <1>1. /\ Len(lines) \in Nat
        /\ \A n \in 1..Len(lines) :
              lines[n].value \in Seq(Characters) /\ Len(lines[n].value) \in Nat
    BY SourceFacts DEF TypeOK
  <1>2. line \in Nat /\ line >= 1 /\ line <= Len(lines) + 1
    BY <1>1 DEF TypeOK
  <1>4. CASE line <= Len(lines)
    BY <1>1, <1>2, <1>4 DEF TypeOK, Value
  <1>5. CASE ~(line <= Len(lines))
    BY <1>1, <1>2, <1>5 DEF TypeOK
  <1> QED  BY <1>4, <1>5

LEMMA TokensOfIs ==
    ASSUME NEW v, NEW a
    PROVE  a \in TokensOf(v) <=> \E p, q \in 1..Len(v) : Bounds(v, p, q) /\ a = SubSeq(v, p, q)
  <1> DEFINE D == {x \in (1..Len(v)) \X (1..Len(v)) : Bounds(v, x[1], x[2])}
  <1>1. TokensOf(v) = {SubSeq(v, x[1], x[2]) : x \in D}
    BY DEF TokensOf, Bounds
  <1>2. ASSUME NEW x \in D, a = SubSeq(v, x[1], x[2])
        PROVE  \E p, q \in 1..Len(v) : Bounds(v, p, q) /\ a = SubSeq(v, p, q)
    <2>1. x[1] \in 1..Len(v) /\ x[2] \in 1..Len(v) /\ Bounds(v, x[1], x[2])
      OBVIOUS
    <2> QED  BY <1>2, <2>1
  <1>3. ASSUME NEW p \in 1..Len(v), NEW q \in 1..Len(v), Bounds(v, p, q), a = SubSeq(v, p, q)
        PROVE  \E x \in D : a = SubSeq(v, x[1], x[2])
    <2>1. <<p, q>> \in D
      BY <1>3
    <2> QED  BY <1>3, <2>1
  <1> HIDE DEF D
  <1> QED  BY <1>1, <1>2, <1>3

LEMMA AllTokensIs ==
    ASSUME NEW a
    PROVE  /\ a \in AllTokens(LinesThat(Reads)) <=>
                 \E n \in 1..Len(lines) : Reads(lines[n]) /\ a \in TokensOf(lines[n].value)
           /\ a \in AllTokens(LinesThat(HasHeader)) <=>
                 \E n \in 1..Len(lines) : HasHeader(lines[n]) /\ a \in TokensOf(lines[n].value)
  BY DEF AllTokens, LinesThat

(* TokenEnd is where the run of letters from n on ends. *)
LEMMA TokenEnds ==
    ASSUME NEW n \in Nat, n >= 1, Len(Value) \in Nat, n <= Len(Value), Value[n] # Sep
    PROVE  LET e == TokenEnd(n) IN
           /\ e \in Nat /\ e > n /\ e <= Len(Value) + 1
           /\ e = Len(Value) + 1 \/ Value[e] = Sep
           /\ \A o \in n..(e - 1) : Value[o] # Sep
  <1> DEFINE E == {e \in n..(Len(Value) + 1) : e = Len(Value) + 1 \/ Value[e] = Sep}
             Ends(e) == /\ e = Len(Value) + 1 \/ Value[e] = Sep
                        /\ \A o \in n..(e - 1) : Value[o] # Sep
  <1>1. E \in SUBSET Nat /\ E # {}
    <2>1. Len(Value) + 1 \in E
      OBVIOUS
    <2> QED  BY <2>1
  <1>2. PICK x \in E : \A y \in E : ~(<<y, x>> \in OpToRel(<, Nat))
    BY <1>1, NatLessThanWellFounded, WFMin, Zenon
  <1>3. \A y \in E : ~(y < x)
    BY <1>1, <1>2 DEF OpToRel
  <1>4. x \in n..(Len(Value) + 1) /\ Ends(x)
    BY <1>3
  <1>5. TokenEnd(n) \in n..(Len(Value) + 1) /\ Ends(TokenEnd(n))
    BY <1>4 DEF TokenEnd
  <1>6. TokenEnd(n) # n
    BY <1>5
  <1> QED  BY <1>5, <1>6

(* Two tokens that start at the same place are one. *)
LEMMA SameStart ==
    ASSUME NEW v, Len(v) \in Nat, NEW p \in 1..Len(v), NEW q \in 1..Len(v), NEW r \in 1..Len(v),
           Bounds(v, p, q), Bounds(v, p, r)
    PROVE  q = r
  <1>1. CASE q < r
    BY <1>1 DEF Bounds
  <1>2. CASE r < q
    BY <1>2 DEF Bounds
  <1> QED  BY <1>1, <1>2

LEMMA SameTagIs ==
    ASSUME NEW a, NEW b
    PROVE  SameTag(a, a) /\ (SameTag(a, b) => SameTag(b, a))
  BY DEF SameTag

(* What is taken is the next token. *)
LEMMA TakesToken ==
    ASSUME TypeOK, Between, Reading, Value[i] # Sep
    PROVE  LET e == TokenEnd(i)
               tag == SubSeq(Value, i, e - 1) IN
           /\ e \in Nat /\ e > i /\ e <= Len(Value) + 1
           /\ e = Len(Value) + 1 \/ Value[e] = Sep
           /\ \A o \in i..(e - 1) : Value[o] # Sep
           /\ Bounds(Value, i, e - 1)
           /\ tag \in Seq(Letters) /\ tag \in AllTokens(LinesThat(Reads))
  <1> DEFINE e == TokenEnd(i)
             tag == SubSeq(Value, i, e - 1)
  <1>1. /\ line \in 1..Len(lines) /\ Value \in Seq(Characters) /\ Len(Value) \in Nat
        /\ i \in Nat /\ i >= 1 /\ i <= Len(Value)
    BY LineFacts DEF Reading
  <1>2. /\ e \in Nat /\ e > i /\ e <= Len(Value) + 1
        /\ e = Len(Value) + 1 \/ Value[e] = Sep
        /\ \A o \in i..(e - 1) : Value[o] # Sep
    BY <1>1, TokenEnds
  <1>3. i = 1 \/ Value[i - 1] = Sep
    BY <1>1 DEF Between, Reading
  <1> HIDE DEF e
  <1>4. Bounds(Value, i, e - 1)
    BY <1>1, <1>2, <1>3 DEF Bounds
  <1>5. \A o \in i..(e - 1) : Value[o] \in Letters
    BY <1>1, <1>2 DEF Characters
  <1>6. tag \in Seq(Letters)
    BY <1>1, <1>2, <1>5, SubSeqProperties
  <1>7. e - 1 \in 1..Len(Value) /\ i \in 1..Len(Value)
    BY <1>1, <1>2
  <1>8. tag \in TokensOf(Value)
    BY <1>4, <1>7, TokensOfIs
  <1>9. tag \in AllTokens(LinesThat(Reads))
    BY <1>1, <1>8, AllTokensIs DEF Reading, Value
  <1> QED  BY <1>2, <1>4, <1>6, <1>9 DEF e

LEMMA PushesUnique ==
    ASSUME NEW S, tags \in Seq(S), NEW tag \in S, Once
    PROVE  LET t == PushUnique(tag) IN
           /\ t \in Seq(S) /\ Len(t) \in {Len(tags), Len(tags) + 1} /\ t # <<>>
           /\ \A n \in 1..Len(tags) : n \in 1..Len(t) /\ t[n] = tags[n]
           /\ \A n \in 1..Len(t) : t[n] = tag \/ (n \in 1..Len(tags) /\ t[n] = tags[n])
           /\ \E n \in 1..Len(t) : SameTag(tag, t[n])
           /\ \A m, n \in 1..Len(t) : SameTag(t[m], t[n]) => m = n
  <1> DEFINE t == Append(tags, tag)
  <1>0. Len(tags) \in Nat
    OBVIOUS
  <1>1. CASE \E n \in 1..Len(tags) : SameTag(tags[n], tag)
    <2>1. PushUnique(tag) = tags
      BY <1>1 DEF PushUnique
    <2>2. tags # <<>> /\ \E n \in 1..Len(tags) : SameTag(tag, tags[n])
      BY <1>1, SameTagIs
    <2> QED  BY <1>0, <2>1, <2>2 DEF Once
  <1>2. CASE ~ \E n \in 1..Len(tags) : SameTag(tags[n], tag)
    <2>1. PushUnique(tag) = t
      BY <1>2 DEF PushUnique
    <2>2. /\ t \in Seq(S) /\ t # <<>> /\ Len(t) = Len(tags) + 1
          /\ \A n \in 1..Len(tags) : t[n] = tags[n]
          /\ t[Len(tags) + 1] = tag
      BY AppendProperties
    <2> HIDE DEF t
    <2>3. \A n \in 1..Len(t) : n = Len(tags) + 1 \/ n \in 1..Len(tags)
      BY <1>0, <2>2
    <2>4. Len(tags) + 1 \in 1..Len(t) /\ \A n \in 1..Len(tags) : n \in 1..Len(t)
      BY <1>0, <2>2
    <2>5. \A m, n \in 1..Len(t) : SameTag(t[m], t[n]) => m = n
      BY <1>2, <2>2, <2>3, SameTagIs DEF Once
    <2>6. \E n \in 1..Len(t) : SameTag(tag, t[n])
      BY <2>2, <2>4, SameTagIs
    <2> QED  BY <2>1, <2>2, <2>3, <2>4, <2>5, <2>6
  <1> QED  BY <1>1, <1>2

-----------------------------------------------------------------------------
(* The invariant. *)

LEMMA InitTokens == Init => TokensInv
  <1> SUFFICES ASSUME Init PROVE TokensInv
    OBVIOUS
  <1> USE DEF Init
  <1>2. /\ Len(lines) \in Nat
        /\ \A n \in 1..Len(lines) :
              lines[n].value \in Seq(Characters) /\ Len(lines[n].value) \in Nat
    BY SourceFacts
  <1>4. i \in 1..(1 + IF line <= Len(lines) THEN Len(Value) ELSE 0)
    BY <1>2 DEF Value
  <1>5. tags \in Seq(Seq(Letters)) /\ Len(tags) = 0
    OBVIOUS
  <1>6. TypeOK
    <2>1. line \in 1..(Len(lines) + 1) /\ Len(tags) <= MaxTokens
      BY <1>2, <1>5, MaxTokensAssumption
    <2>2. warned \in BOOLEAN /\ rc \in {"reading", "OK", "DECLINED", "ERROR"} /\ lines \in Sources
      OBVIOUS
    <2> QED  BY <1>4, <1>5, <2>1, <2>2, Zenon DEF TypeOK
  <1>7. Every
    BY <1>2 DEF Every, Passed
  <1> QED  BY <1>5, <1>6, <1>7 DEF TokensInv, Between, Only, Once, Result

(* Steps within a line: what has been stored stays, and the tokens that start *)
(* in what was passed now are stored.                                         *)
LEMMA OnwardEvery ==
    ASSUME TypeOK, Every, Reading, UNCHANGED <<reader, lines, line>>, i' \in Nat,
           \A a : Has(a) => Has(a)',
           Full => Full',
           \A p, q \in 1..Len(Value) :
               Bounds(Value, p, q) /\ p >= i /\ p < i' => Has(SubSeq(Value, p, q))' \/ Full'
    PROVE  Every'
  <1>1. SUFFICES ASSUME NEW n \in 1..Len(lines), Reads(lines[n]),
                        NEW p \in 1..Len(lines[n].value), NEW q \in 1..Len(lines[n].value),
                        Bounds(lines[n].value, p, q), Passed(n, p)'
                 PROVE  Has(SubSeq(lines[n].value, p, q))' \/ Full'
    BY DEF Every, Reads
  <1>2. i \in Nat /\ p \in Nat
    BY LineFacts
  <1>3. CASE Passed(n, p)
    BY <1>1, <1>3 DEF Every
  <1>4. CASE ~Passed(n, p)
    <2>1. n = line /\ p >= i /\ p < i'
      BY <1>1, <1>2, <1>4 DEF Passed
    <2> QED  BY <1>1, <2>1 DEF Value
  <1> QED  BY <1>3, <1>4

LEMMA SkipKeeps ==
    ASSUME TokensInv, Skip
    PROVE  TokensInv'
  <1> USE DEF TokensInv
  <1>1. /\ line \in 1..Len(lines) /\ Len(Value) \in Nat /\ i \in Nat /\ i >= 1 /\ i <= Len(Value)
        /\ Len(lines) \in Nat
    BY LineFacts DEF Skip, Reading
  <1>2. /\ i' = i + 1 /\ Value' = Value /\ Value[i] = Sep
        /\ UNCHANGED <<reader, lines, line, tags, warned, rc>>
    BY DEF Skip, Value
  <1>3. TypeOK'
    BY <1>1, <1>2 DEF TypeOK
  <1>4. Between'
    BY <1>1, <1>2 DEF Between
  <1>5. Every'
    <2>1. \A p, q \in 1..Len(Value) : ~(Bounds(Value, p, q) /\ p >= i /\ p < i')
      BY <1>1, <1>2 DEF Bounds
    <2>2. (\A a : Has(a) => Has(a)') /\ (Full => Full')
      BY <1>2 DEF Has, Full
    <2> QED  BY <1>1, <1>2, <2>1, <2>2, OnwardEvery DEF Skip
  <1>6. Only' /\ Once' /\ Result'
    <2>1. AllTokens(LinesThat(Reads))' = AllTokens(LinesThat(Reads))
      BY <1>2 DEF AllTokens, LinesThat, Reads
    <2> QED  BY <1>2, <2>1 DEF Only, Once, Result, Full
  <1> QED  BY <1>3, <1>4, <1>5, <1>6

LEMMA TakeKeeps ==
    ASSUME TokensInv, Take
    PROVE  TokensInv'
  <1> USE DEF TokensInv
  <1>1. /\ line \in 1..Len(lines) /\ Len(Value) \in Nat /\ i \in Nat /\ i >= 1 /\ i <= Len(Value)
        /\ Len(lines) \in Nat /\ tags \in Seq(Seq(Letters)) /\ Len(tags) \in Nat
        /\ MaxTokens \in Nat /\ Len(tags) <= MaxTokens
    <2>1. tags \in Seq(Seq(Letters)) /\ Len(tags) <= MaxTokens
      BY DEF TypeOK
    <2>2. Len(tags) \in Nat
      BY <2>1
    <2> QED  BY <2>1, <2>2, LineFacts, MaxTokensAssumption DEF Take, Reading
  <1>2. Value' = Value /\ Value[i] # Sep /\ UNCHANGED <<reader, lines, line, rc>> /\ Reading
    BY DEF Take, Value
  <1>3. AllTokens(LinesThat(Reads))' = AllTokens(LinesThat(Reads))
    BY <1>2 DEF AllTokens, LinesThat, Reads
  <1>4. rc = "reading"
    BY DEF Take, Reading
  <1>5. CASE Len(tags) >= MaxTokens
    <2>1. warned' = TRUE /\ i' = Len(Value) + 1 /\ tags' = tags /\ Len(tags) = MaxTokens
      BY <1>1, <1>5 DEF Take
    <2>2. TypeOK'
      BY <1>1, <1>2, <2>1 DEF TypeOK
    <2>3. Full' /\ Between' /\ Only' /\ Once' /\ Result'
      BY <1>2, <1>3, <1>4, <2>1 DEF Full, Between, Only, Once, Result
    <2>4. Every'
      BY <2>3 DEF Every
    <2> QED  BY <2>2, <2>3, <2>4
  <1>6. CASE ~(Len(tags) >= MaxTokens)
    <2> DEFINE e == TokenEnd(i)
               tag == SubSeq(Value, i, e - 1)
    <2>1. tags' = PushUnique(tag) /\ i' = e /\ warned' = warned
      BY <1>6 DEF Take
    <2>2. /\ e \in Nat /\ e > i /\ e <= Len(Value) + 1
          /\ e = Len(Value) + 1 \/ Value[e] = Sep
          /\ \A o \in i..(e - 1) : Value[o] # Sep
          /\ Bounds(Value, i, e - 1)
          /\ tag \in Seq(Letters) /\ tag \in AllTokens(LinesThat(Reads))
      BY <1>2, TakesToken
    <2> HIDE DEF e
    <2>3. /\ tags' \in Seq(Seq(Letters)) /\ Len(tags') \in {Len(tags), Len(tags) + 1}
          /\ tags' # <<>>
          /\ \A n \in 1..Len(tags) : n \in 1..Len(tags') /\ tags'[n] = tags[n]
          /\ \A n \in 1..Len(tags') : tags'[n] = tag \/ (n \in 1..Len(tags) /\ tags'[n] = tags[n])
          /\ \E n \in 1..Len(tags') : SameTag(tag, tags'[n])
          /\ \A m, n \in 1..Len(tags') : SameTag(tags'[m], tags'[n]) => m = n
      <3> HIDE DEF tag
      <3>1. LET t == PushUnique(tag) IN
            /\ t \in Seq(Seq(Letters)) /\ Len(t) \in {Len(tags), Len(tags) + 1} /\ t # <<>>
            /\ \A n \in 1..Len(tags) : n \in 1..Len(t) /\ t[n] = tags[n]
            /\ \A n \in 1..Len(t) : t[n] = tag \/ (n \in 1..Len(tags) /\ t[n] = tags[n])
            /\ \E n \in 1..Len(t) : SameTag(tag, t[n])
            /\ \A m, n \in 1..Len(t) : SameTag(t[m], t[n]) => m = n
        BY <1>1, <2>2, PushesUnique
      <3> QED  BY <2>1, <3>1
    <2>4. TypeOK'
      <3>1. Len(tags') <= MaxTokens
        BY <1>1, <1>6, <2>3
      <3>2. i' \in 1..(1 + Len(Value))
        BY <1>1, <2>1, <2>2
      <3> QED  BY <1>1, <1>2, <2>1, <2>3, <3>1, <3>2 DEF TypeOK
    <2>5. Between'
      <3>1. e = Len(Value) + 1 \/ e <= Len(Value)
        <4>1. e \in Nat /\ Len(Value) \in Nat /\ e <= Len(Value) + 1
          BY <1>1, <2>2, Zenon
        <4> QED  BY <4>1
      <3>2. i' = Len(Value) + 1 \/ (i' <= Len(Value) /\ Value[i'] = Sep)
        BY <2>1, <2>2, <3>1, Zenon
      <3> QED  BY <1>2, <3>2 DEF Between
    <2>6. Only' /\ Once'
      BY <1>3, <2>2, <2>3 DEF Only, Once
    <2>7. ~warned /\ Result'
      BY <1>1, <1>2, <1>4, <1>6, <2>1 DEF Result, Full
    <2>8. Every'
      <3>1. \A a : Has(a) => Has(a)'
        BY <2>3 DEF Has
      <3>2. ASSUME NEW p \in 1..Len(Value), NEW q \in 1..Len(Value),
                   Bounds(Value, p, q), p >= i, p < i'
            PROVE  Has(SubSeq(Value, p, q))'
        <4>1. p = i
          <5>1. CASE p > i
            <6>1. p - 1 \in i..(e - 1) /\ p # 1
              BY <1>1, <2>1, <2>2, <3>2, <5>1
            <6> QED  BY <2>2, <3>2, <6>1 DEF Bounds
          <5> QED  BY <1>1, <3>2, <5>1
        <4>2. q = e - 1
          <5>1. e - 1 \in 1..Len(Value) /\ Bounds(Value, p, q) /\ Bounds(Value, p, e - 1)
            BY <1>1, <2>2, <3>2, <4>1
          <5> QED  BY <1>1, <5>1, SameStart
        <4>3. SubSeq(Value, p, q)' = tag
          BY <1>2, <4>1, <4>2
        <4> HIDE DEF tag
        <4> QED  BY <2>3, <4>3 DEF Has
      <3>3. Full => Full'
        BY <2>7 DEF Full
      <3>4. i' \in Nat
        BY <2>1, <2>2
      <3> QED  BY <1>2, <3>1, <3>2, <3>3, <3>4, OnwardEvery
    <2> QED  BY <2>4, <2>5, <2>6, <2>7, <2>8
  <1> QED  BY <1>5, <1>6

LEMMA NextLineKeeps ==
    ASSUME TokensInv, NextLine
    PROVE  TokensInv'
  <1> USE DEF TokensInv
  <1>1. /\ line \in 1..Len(lines) /\ Len(Value) \in Nat /\ i \in Nat /\ i >= 1
        /\ i <= Len(Value) + 1 /\ Len(lines) \in Nat
    BY LineFacts DEF NextLine
  <1>2. /\ line' = line + 1 /\ i' = 1 /\ rc = "reading"
        /\ UNCHANGED <<reader, lines, tags, warned, rc>>
    BY DEF NextLine
  <1>3. AllTokens(LinesThat(Reads))' = AllTokens(LinesThat(Reads))
    BY <1>2 DEF AllTokens, LinesThat, Reads
  <1>4. TypeOK'
    <2>1. line' <= Len(lines') => Len(Value') \in Nat
      BY <1>1, <1>2, LineFacts DEF Value
    <2>2. i' \in 1..(1 + IF line' <= Len(lines') THEN Len(Value') ELSE 0)
      BY <1>2, <2>1
    <2> QED  BY <1>1, <1>2, <2>2 DEF TypeOK
  <1>5. Between' /\ Only' /\ Once' /\ Result'
    BY <1>2, <1>3 DEF Between, Only, Once, Result, Full
  <1>6. Every'
    <2>1. SUFFICES ASSUME NEW n \in 1..Len(lines), Reads(lines[n]),
                          NEW p \in 1..Len(lines[n].value), NEW q \in 1..Len(lines[n].value),
                          Bounds(lines[n].value, p, q), Passed(n, p)'
                   PROVE  Has(SubSeq(lines[n].value, p, q)) \/ Full
      BY <1>2 DEF Every, Reads, Has, Full
    <2>2. n < line \/ n = line
      BY <1>1, <1>2, <2>1 DEF Passed
    <2>3. n = line => p < i
      BY <1>1, <1>2, <2>1 DEF NextLine, Reading, Value
    <2> QED  BY <2>1, <2>2, <2>3 DEF Every, Passed
  <1> QED  BY <1>4, <1>5, <1>6

LEMMA EndKeeps ==
    ASSUME TokensInv, NoMemory \/ Done \/ UNCHANGED vars
    PROVE  TokensInv'
  <1> USE DEF TokensInv
  <1>1. UNCHANGED <<reader, lines, line, i, tags, warned>>
    BY DEF NoMemory, Done, vars
  <1>2. TypeOK'
    BY <1>1 DEF TypeOK, Value, NoMemory, Done, vars
  <1>3. Between' /\ Only' /\ Once' /\ Every'
    BY <1>1 DEF Between, Value, Only, Once, Every, AllTokens, LinesThat, Reads, Has, Full, Passed
  <1>4. Result'
    <2>1. Done => line = Len(lines) + 1
      BY LineFacts DEF Done
    <2> QED  BY <1>1, <2>1 DEF Result, Full, NoMemory, Done, vars
  <1> QED  BY <1>2, <1>3, <1>4

LEMMA TokensInvariance == Spec => []TokensInv
  <1>1. TokensInv /\ [Next]_vars => TokensInv'
    BY SkipKeeps, TakeKeeps, NextLineKeeps, EndKeeps DEF Next
  <1> QED  BY <1>1, InitTokens, PTL DEF Spec

-----------------------------------------------------------------------------
(* Theorems. *)

(* The position stays within the value, and the array within the limit.      *)
THEOREM TokensTypeCorrect == Spec => []TypeOK
  <1>1. TokensInv => TypeOK
    BY DEF TokensInv
  <1> QED  BY <1>1, TokensInvariance, PTL

(* At the end every token has been passed: it is stored, or the limit was    *)
(* reached and reported.                                                     *)
LEMMA AllPassed ==
    ASSUME TokensInv, rc \in {"OK", "DECLINED"}, NEW a \in AllTokens(LinesThat(Reads))
    PROVE  Has(a) \/ Full
  <1>1. PICK n \in 1..Len(lines) : Reads(lines[n]) /\ a \in TokensOf(lines[n].value)
    BY AllTokensIs
  <1>2. PICK p, q \in 1..Len(lines[n].value) :
            Bounds(lines[n].value, p, q) /\ a = SubSeq(lines[n].value, p, q)
    BY <1>1, TokensOfIs
  <1>3. Passed(n, p)
    <2>1. Len(lines) \in Nat /\ line = Len(lines) + 1
      BY LineFacts DEF TokensInv, Result
    <2> QED  BY <2>1 DEF Passed
  <1> QED  BY <1>1, <1>2, <1>3 DEF TokensInv, Every

(* What the reader leaves in the array are the tokens of the lines it reads: *)
(* nothing else, none twice up to case, and all of them unless the limit has *)
(* been reached and reported.                                                *)
THEOREM ReadsExactlyTheTokens == Spec => []ReadsTheTokens
  <1>1. ASSUME TokensInv PROVE ReadsTheTokens
    <2>1. SUFFICES ASSUME rc \in {"OK", "DECLINED"}
                   PROVE  LET all == AllTokens(LinesThat(Reads)) IN
                          /\ Stored \subseteq all
                          /\ \A m, n \in 1..Len(tags) : SameTag(tags[m], tags[n]) => m = n
                          /\ \/ \A a \in all : \E b \in Stored : SameTag(a, b)
                             \/ warned /\ Len(tags) = MaxTokens
      BY DEF ReadsTheTokens
    <2>2. Stored \subseteq AllTokens(LinesThat(Reads))
      BY <1>1 DEF TokensInv, Only, Stored
    <2>3. \A a : Has(a) => \E b \in Stored : SameTag(a, b)
      BY DEF Has, Stored
    <2>4. (\A a \in AllTokens(LinesThat(Reads)) : Has(a)) \/ Full
      BY <1>1, <2>1, AllPassed
    <2> QED  BY <1>1, <2>2, <2>3, <2>4 DEF TokensInv, Once, Full
  <1> QED  BY <1>1, TokensInvariance, PTL

(* A PURGE request declines, and is purged by its key, exactly when its tag  *)
(* headers have no token: the limit, at least one, never empties the array.  *)
THEOREM KeyOnlyWithoutTags == Spec => []FallsBackOnlyWithoutTags
  <1>1. ASSUME TokensInv PROVE FallsBackOnlyWithoutTags
    <2>1. SUFFICES ASSUME rc \in {"OK", "DECLINED"}, reader = "request"
                   PROVE  rc = "DECLINED" <=> AllTokens(LinesThat(HasHeader)) = {}
      BY DEF FallsBackOnlyWithoutTags
    <2>2. AllTokens(LinesThat(HasHeader)) = AllTokens(LinesThat(Reads))
      BY <2>1 DEF AllTokens, LinesThat, Reads, HasHeader
    <2>3. rc = "DECLINED" <=> tags = <<>>
      BY <1>1, <2>1 DEF TokensInv, Result
    <2>4. tags \in Seq(Seq(Letters)) /\ Len(tags) \in Nat
      BY <1>1 DEF TokensInv, TypeOK
    <2>5. CASE tags = <<>>
      <3>1. Len(tags) = 0 /\ ~Full
        BY <2>5, MaxTokensAssumption DEF Full
      <3>2. \A a : ~Has(a)
        BY <3>1 DEF Has
      <3> QED  BY <1>1, <2>1, <2>2, <2>3, <2>5, <3>1, <3>2, AllPassed
    <2>6. CASE tags # <<>>
      <3>1. 1 \in 1..Len(tags)
        BY <2>4, <2>6, EmptySeq
      <3> QED  BY <1>1, <2>2, <2>3, <2>6, <3>1 DEF TokensInv, Only
    <2> QED  BY <2>5, <2>6
  <1> QED  BY <1>1, TokensInvariance, PTL

(* Case and the body of the file are all that part what is stored from the   *)
(* tags that were sent: without them scan and log phase store the same tags. *)
THEOREM StoresPlainTags == Spec => []PlainTagsAreStored
  <1>1. ASSUME TokensInv PROVE PlainTagsAreStored
    <2>1. SUFFICES ASSUME rc = "OK", PlainTags
                   PROVE  /\ Stored \subseteq AllTokens(LinesThat(HasHeader))
                          /\ warned \/ AllTokens(LinesThat(HasHeader)) \subseteq Stored
      BY DEF PlainTagsAreStored
    <2>2. \A n \in 1..Len(lines) : Reads(lines[n]) <=> HasHeader(lines[n])
      BY <2>1 DEF Reads, HasHeader, PlainTags
    <2>3. AllTokens(LinesThat(HasHeader)) = AllTokens(LinesThat(Reads))
      BY <2>2 DEF AllTokens, LinesThat
    <2>4. Stored \subseteq AllTokens(LinesThat(Reads))
      BY <1>1 DEF TokensInv, Only, Stored
    <2>5. ASSUME ~warned, NEW a \in AllTokens(LinesThat(HasHeader)) PROVE a \in Stored
      <3>1. Has(a)
        BY <1>1, <2>1, <2>3, <2>5, AllPassed DEF Full
      <3>2. PICK b \in Stored : SameTag(a, b)
        BY <3>1 DEF Has, Stored
      <3> QED  BY <2>1, <2>3, <2>4, <3>2 DEF PlainTags
    <2> QED  BY <2>3, <2>4, <2>5
  <1> QED  BY <1>1, TokensInvariance, PTL

=============================================================================

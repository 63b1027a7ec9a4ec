--------------------------- MODULE ForwardingProofs ---------------------------
(***************************************************************************)
(* Theorems about Forwarding, for any requests, targets and deployments,   *)
(* texts of any length over any alphabet without the percent sign, and any *)
(* number of decoding rounds.                                              *)
(***************************************************************************)
EXTENDS Forwarding, FiniteSetTheorems, SequenceTheorems, WellFoundedInduction, TLAPS

-----------------------------------------------------------------------------
(* Decoding.  What is left of a character after n rounds is known without  *)
(* going through them: first its encodings come off, then a plus sign      *)
(* becomes a space.                                                        *)
After(text, n) ==
    [k \in DOMAIN text |->
        IF n <= text[k].d THEN [c |-> text[k].c, d |-> text[k].d - n]
        ELSE IF text[k].c = "+" THEN Space ELSE Plain(text[k].c)]

(* The first of a set of numbers for which something holds.                *)
LEMMA LeastNumber ==
    ASSUME NEW T \in SUBSET Nat, T # {}
    PROVE  \E x \in T : \A y \in T : x <= y
<1>1. PICK x \in T : \A y \in T : ~(<<y, x>> \in OpToRel(<, Nat))
  BY WFMin, NatLessThanWellFounded
<1>2. \A y \in T : ~(y < x)
  BY <1>1 DEF OpToRel
<1> QED BY <1>2

(* A space is not a plus sign.                                             *)
LEMMA SpaceIsPlain == Space = [c |-> " ", d |-> 0] /\ Space.c = " " /\ Space.d = 0
BY DEF Space, Plain

(* One more round.                                                         *)
LEMMA OneRound ==
    ASSUME NEW text, IsText(text), NEW n \in Nat
    PROVE  UnquotePlus(After(text, n)) = After(text, n + 1)
<1> DEFINE a == After(text, n)
           b == After(text, n + 1)
           u == UnquotePlus(a)
<1>1. DOMAIN a = DOMAIN text /\ DOMAIN b = DOMAIN text /\ DOMAIN u = DOMAIN text
  BY DEF After, UnquotePlus
<1>2. ASSUME NEW k \in DOMAIN text PROVE u[k] = b[k]
  <2> DEFINE c == text[k].c
             d == text[k].d
  <2>1. d \in Nat
    BY DEF IsText
  <2>2. a[k] = IF n <= d THEN [c |-> c, d |-> d - n]
               ELSE IF c = "+" THEN Space ELSE Plain(c)
    BY DEF After
  <2>3. b[k] = IF n + 1 <= d THEN [c |-> c, d |-> d - (n + 1)]
               ELSE IF c = "+" THEN Space ELSE Plain(c)
    BY DEF After
  <2>4. u[k] = IF Is(a[k], "+") THEN Space
               ELSE IF a[k].d > 0 THEN [a[k] EXCEPT !.d = @ - 1] ELSE a[k]
    BY <1>1 DEF UnquotePlus
  <2> HIDE DEF a, b, u, c, d
  <2>5. CASE n + 1 <= d
    <3>1. a[k] = [c |-> c, d |-> d - n] /\ b[k] = [c |-> c, d |-> d - (n + 1)]
      BY <2>1, <2>2, <2>3, <2>5
    <3>2. d - n > 0 /\ (d - n) - 1 = d - (n + 1) /\ d - n # 0
      BY <2>1, <2>5
    <3>3. u[k] = [a[k] EXCEPT !.d = @ - 1]
      BY <2>4, <3>1, <3>2 DEF Is
    <3> QED BY <3>1, <3>2, <3>3
  <2>6. CASE n = d
    <3>1. a[k] = Plain(c)
      BY <2>1, <2>2, <2>6 DEF Plain
    <3>2. b[k] = IF c = "+" THEN Space ELSE Plain(c)
      BY <2>1, <2>3, <2>6
    <3>3. a[k].d = 0 /\ a[k].c = c
      BY <3>1 DEF Plain
    <3> QED BY <2>4, <3>1, <3>2, <3>3 DEF Is
  <2>7. CASE n > d
    <3>1. a[k] = IF c = "+" THEN Space ELSE Plain(c)
      BY <2>1, <2>2, <2>7
    <3>2. b[k] = a[k]
      BY <2>1, <2>3, <2>7, <3>1
    <3>3. a[k].d = 0 /\ a[k].c # "+"
      <4>1. " " # "+"
        OBVIOUS
      <4>2. CASE c = "+"
        BY <3>1, <4>1, <4>2, SpaceIsPlain
      <4>3. CASE c # "+"
        BY <3>1, <4>3 DEF Plain
      <4> QED BY <4>2, <4>3
    <3> QED BY <2>4, <3>2, <3>3 DEF Is
  <2> QED BY <2>1, <2>5, <2>6, <2>7
<1>3. u = [k \in DOMAIN text |-> u[k]] /\ b = [k \in DOMAIN text |-> b[k]]
  BY <1>1 DEF UnquotePlus, After
<1> HIDE DEF u, b
<1>4. u = b
  BY <1>2, <1>3
<1> QED BY <1>4 DEF u, b

(* All rounds.                                                             *)
LEMMA AllRounds ==
    ASSUME NEW text, IsText(text)
    PROVE  Decoded(text) = After(text, MaxRounds)
<1> DEFINE Rounds(f) ==
               f = [n \in 0..MaxRounds |-> IF n = 0 THEN text ELSE UnquotePlus(f[n - 1])]
           g == [n \in 0..MaxRounds |-> After(text, n)]
           round == CHOOSE f : Rounds(f)
<1>1. After(text, 0) = text
  <2>1. ASSUME NEW k \in DOMAIN text PROVE After(text, 0)[k] = text[k]
    BY DEF After, IsText
  <2>2. text = [k \in DOMAIN text |-> text[k]]
    BY DEF IsText
  <2>3. DOMAIN After(text, 0) = DOMAIN text
        /\ After(text, 0) = [k \in DOMAIN text |-> After(text, 0)[k]]
    BY DEF After
  <2> QED BY <2>1, <2>2, <2>3
<1>2. Rounds(g)
  <2>1. ASSUME NEW n \in 0..MaxRounds
        PROVE  g[n] = IF n = 0 THEN text ELSE UnquotePlus(g[n - 1])
    <3>1. CASE n = 0
      BY <1>1, <3>1
    <3>2. CASE n # 0
      <4>1. n - 1 \in Nat /\ n - 1 \in 0..MaxRounds /\ (n - 1) + 1 = n
        BY <3>2, MaxRoundsNat
      <4>2. UnquotePlus(After(text, n - 1)) = After(text, (n - 1) + 1)
        BY <4>1, OneRound
      <4> QED BY <3>2, <4>1, <4>2
    <3> QED BY <3>1, <3>2
  <2> QED BY <2>1
<1>3. Rounds(round)
  BY <1>2
<1> HIDE DEF round
<1>4. ASSUME NEW n \in 0..MaxRounds
      PROVE  round[n] = IF n = 0 THEN text ELSE UnquotePlus(round[n - 1])
  BY <1>3
<1> HIDE DEF Rounds
<1>5. \A n \in 0..MaxRounds : round[n] = After(text, n)
  <2> DEFINE T == {n \in 0..MaxRounds : round[n] # After(text, n)}
  <2>1. SUFFICES ASSUME T # {} PROVE FALSE
    OBVIOUS
  <2>2. PICK n \in T : \A m \in T : n <= m
    <3>1. T \in SUBSET Nat
      BY MaxRoundsNat
    <3> QED BY <2>1, <3>1, LeastNumber
  <2>3. n # 0
    BY <1>1, <1>4, <2>2, MaxRoundsNat
  <2>4. n - 1 \in 0..MaxRounds /\ n - 1 \in Nat /\ (n - 1) + 1 = n /\ ~(n <= n - 1)
    BY <2>2, <2>3, MaxRoundsNat
  <2>5. round[n - 1] = After(text, n - 1)
    BY <2>2, <2>4
  <2>6. round[n] = After(text, (n - 1) + 1)
    BY <1>4, <2>2, <2>3, <2>4, <2>5, OneRound
  <2> QED BY <2>2, <2>4, <2>6
<1>6. Decoded(text) = round[MaxRounds]
  BY DEF Decoded, round, Rounds
<1> QED BY <1>5, <1>6, MaxRoundsNat

(* A text that is not encoded too often is decoded to the end ...          *)
LEMMA DecodedText ==
    ASSUME NEW text, IsText(text), Decodable(text)
    PROVE  Decoded(text) = FullyDecoded(text)
<1>1. ASSUME NEW k \in DOMAIN text
      PROVE  After(text, MaxRounds)[k] = FullyDecoded(text)[k]
  <2> DEFINE c == text[k].c
             d == text[k].d
  <2>1. d \in Nat /\ d + (IF c = "+" THEN 1 ELSE 0) <= MaxRounds
    BY DEF IsText, Decodable
  <2>2. After(text, MaxRounds)[k] =
           IF MaxRounds <= d THEN [c |-> c, d |-> d - MaxRounds]
           ELSE IF c = "+" THEN Space ELSE Plain(c)
    BY DEF After
  <2>3. FullyDecoded(text)[k] = IF c = "+" THEN Space ELSE Plain(c)
    BY DEF FullyDecoded
  <2> HIDE DEF c, d
  <2>4. CASE MaxRounds <= d
    <3>1. d = MaxRounds /\ c # "+"
      BY <2>1, <2>4, MaxRoundsNat
    <3> QED BY <2>2, <2>3, <2>4, <3>1, MaxRoundsNat DEF Plain
  <2>5. CASE ~(MaxRounds <= d)
    BY <2>2, <2>3, <2>5
  <2> QED BY <2>4, <2>5
<1>2. After(text, MaxRounds) = FullyDecoded(text)
  BY <1>1 DEF After, FullyDecoded
<1> QED BY <1>2, AllRounds

(* ... and what is decoded to the end stays as it is.                      *)
LEMMA DecodedStays ==
    ASSUME NEW text, IsText(text), Decodable(text)
    PROVE  Decoded(FullyDecoded(text)) = FullyDecoded(text)
<1> DEFINE clear == FullyDecoded(text)
<1>1. /\ DOMAIN clear = DOMAIN text
      /\ \A k \in DOMAIN text : clear[k] = IF text[k].c = "+" THEN Space ELSE Plain(text[k].c)
      /\ clear = [k \in DOMAIN text |-> clear[k]]
  BY DEF FullyDecoded
<1> HIDE DEF clear
<1>2. ASSUME NEW k \in DOMAIN clear
      PROVE  /\ clear[k] = [c |-> clear[k].c, d |-> clear[k].d]
             /\ clear[k].d = 0 /\ clear[k].c # "+"
  <2>1. CASE text[k].c = "+"
    <3>1. clear[k] = Space
      BY <1>1, <2>1
    <3> QED BY <3>1, SpaceIsPlain
  <2>2. CASE text[k].c # "+"
    BY <1>1, <2>2 DEF Plain
  <2> QED BY <2>1, <2>2
<1>3. clear \in Seq({clear[k] : k \in DOMAIN clear})
  <2>1. DOMAIN text = 1..Len(text) /\ Len(text) \in Nat
    BY DEF IsText
  <2>2. clear \in [1..Len(text) -> {clear[k] : k \in DOMAIN clear}]
    BY <1>1, <2>1
  <2> QED BY <2>1, <2>2
<1>4. IsText(clear)
  BY <1>2, <1>3 DEF IsText
<1>5. Decodable(clear) /\ FullyDecoded(clear) = clear
  BY <1>1, <1>2, MaxRoundsNat DEF Decodable, FullyDecoded, Plain
<1>6. Decoded(clear) = clear
  BY <1>4, <1>5, DecodedText
<1> QED BY <1>6 DEF clear

(* However a text is encoded, its normal form is the same.                 *)
LEMMA SameNormalForm ==
    ASSUME NEW text, IsText(text), Decodable(text)
    PROVE  Normalize(text) = Normalize(FullyDecoded(text))
BY DecodedText, DecodedStays DEF Normalize

-----------------------------------------------------------------------------
(* Items at positions.  The i-th position is the one that has i - 1 before *)
(* it; there is one for every i because no two have as many.               *)
LEMMA PositionsInOrder ==
    ASSUME NEW n \in Nat, NEW S \in SUBSET (1..n)
    PROVE  /\ Cardinality(S) \in Nat
           /\ \E nth \in [1..Cardinality(S) -> S] :
                 /\ \A i, j \in 1..Cardinality(S) : i < j => nth[i] < nth[j]
                 /\ \A k \in S : \E i \in 1..Cardinality(S) : nth[i] = k
                 /\ \A seq : ItemsAt(seq, S) = [i \in 1..Cardinality(S) |-> seq[nth[i]]]
<1> DEFINE m == Cardinality(S)
           Before(k) == {j \in S : j < k}
           rank == [k \in S |-> Cardinality(Before(k)) + 1]
           Nth(i) == CHOOSE k \in S : Cardinality({j \in S : j < k}) = i - 1
           nth == [i \in 1..m |-> Nth(i)]
<1>1. IsFiniteSet(S) /\ m \in Nat
  <2>1. IsFiniteSet(1..n)
    BY FS_Interval
  <2> QED BY <2>1, FS_Subset, FS_CardinalityType
<1>2. ASSUME NEW k \in S
      PROVE  /\ IsFiniteSet(Before(k)) /\ Cardinality(Before(k)) \in Nat
             /\ Cardinality(Before(k)) < m
  <2>1. Before(k) \subseteq S \ {k}
    OBVIOUS
  <2>2. IsFiniteSet(S \ {k}) /\ Cardinality(S \ {k}) = m - 1
    BY <1>1, FS_RemoveElement
  <2>3. IsFiniteSet(Before(k)) /\ Cardinality(Before(k)) <= m - 1
    BY <2>1, <2>2, FS_Subset
  <2>4. Cardinality(Before(k)) \in Nat
    BY <2>3, FS_CardinalityType
  <2> HIDE DEF Before
  <2> QED BY <1>1, <2>3, <2>4
<1>3. \A j, k \in S : j \in Int /\ k \in Int
  OBVIOUS
<1>4. ASSUME NEW j \in S, NEW k \in S, j < k PROVE rank[j] < rank[k]
  <2>1. Before(j) \subseteq Before(k) \ {j}
    <3>1. ASSUME NEW i \in S, i < j PROVE i < k /\ i # j
      BY <1>4, <1>3, <3>1
    <3> QED BY <3>1
  <2>2. j \in Before(k)
    BY <1>4
  <2>3. /\ IsFiniteSet(Before(k) \ {j})
        /\ Cardinality(Before(k) \ {j}) = Cardinality(Before(k)) - 1
    BY <1>2, <2>2, FS_RemoveElement
  <2>4. Cardinality(Before(j)) <= Cardinality(Before(k)) - 1
    BY <2>1, <2>3, FS_Subset
  <2>5. Cardinality(Before(j)) \in Nat /\ Cardinality(Before(k)) \in Nat
    BY <1>2
  <2>6. rank[j] = Cardinality(Before(j)) + 1 /\ rank[k] = Cardinality(Before(k)) + 1
    OBVIOUS
  <2> HIDE DEF Before, rank
  <2> QED BY <2>4, <2>5, <2>6
<1>5. rank \in [S -> 1..m]
  <2>1. ASSUME NEW k \in S PROVE Cardinality(Before(k)) + 1 \in 1..m
    <3> HIDE DEF Before, m
    <3> QED BY <1>1, <1>2
  <2> QED BY <2>1
<1>6. ASSUME NEW j \in S, NEW k \in S
      PROVE  /\ rank[j] < rank[k] => j < k
             /\ rank[j] = rank[k] => j = k
  <2>1. /\ j < k => rank[j] < rank[k]
        /\ k < j => rank[k] < rank[j]
    BY <1>4
  <2>2. j \in Int /\ k \in Int /\ rank[j] \in Int /\ rank[k] \in Int
    <3>1. rank[j] \in 1..m /\ rank[k] \in 1..m
      BY <1>5
    <3> QED BY <1>3, <3>1
  <2> HIDE DEF rank
  <2> QED BY <2>1, <2>2
<1>7. rank \in Surjection(S, 1..m)
  <2>1. rank \in Injection(S, 1..m)
    <3>1. ASSUME NEW j \in S, NEW k \in S, rank[j] = rank[k] PROVE j = k
      BY <1>6, <3>1
    <3> HIDE DEF rank
    <3> QED BY <1>5, <3>1 DEF Injection, IsInjective
  <2>2. IsFiniteSet(1..m) /\ Cardinality(1..m) = m
    BY <1>1, FS_Interval
  <2> HIDE DEF rank
  <2> QED BY <2>1, <2>2, FS_Injection
<1>8. ASSUME NEW i \in 1..m PROVE Nth(i) \in S /\ rank[Nth(i)] = i
  <2>1. PICK k \in S : rank[k] = i
    <3> HIDE DEF rank
    <3> QED BY <1>7 DEF Surjection
  <2>2. Cardinality(Before(k)) + 1 = i /\ Cardinality(Before(k)) \in Nat
    BY <1>2, <2>1
  <2>3. Cardinality({j \in S : j < k}) = i - 1
    <3>1. Cardinality(Before(k)) = i - 1
      <4> HIDE DEF Before
      <4> QED BY <2>2
    <3> QED BY <3>1
  <2>4. Nth(i) \in S /\ Cardinality({j \in S : j < Nth(i)}) = i - 1
    BY <2>3
  <2>5. rank[Nth(i)] = Cardinality({j \in S : j < Nth(i)}) + 1
    BY <2>4
  <2> HIDE DEF rank, Nth
  <2> QED BY <1>1, <2>4, <2>5
<1>9. nth \in [1..m -> S]
  BY <1>8
<1>10. ASSUME NEW i \in 1..m, NEW j \in 1..m, i < j PROVE nth[i] < nth[j]
  <2>1. nth[i] \in S /\ nth[j] \in S /\ rank[nth[i]] = i /\ rank[nth[j]] = j
    BY <1>8
  <2> HIDE DEF nth, rank
  <2>2. rank[nth[i]] < rank[nth[j]]
    BY <1>10, <2>1
  <2> QED BY <1>6, <2>1, <2>2
<1>11. ASSUME NEW k \in S PROVE \E i \in 1..m : nth[i] = k
  <2> DEFINE i == rank[k]
  <2>1. i \in 1..m
    BY <1>5
  <2>2. nth[i] \in S /\ rank[nth[i]] = i
    BY <1>8, <2>1
  <2>3. nth[i] = k
    <3> HIDE DEF nth, rank
    <3> QED BY <1>6, <2>2 DEF i
  <2> QED BY <2>1, <2>3
<1>12. ASSUME NEW seq PROVE ItemsAt(seq, S) = [i \in 1..m |-> seq[nth[i]]]
  <2>1. ItemsAt(seq, S) = [i \in 1..m |-> seq[Nth(i)]]
    BY DEF ItemsAt
  <2> QED BY <2>1
<1> HIDE DEF nth, m
<1> QED BY <1>1, <1>9, <1>10, <1>11, <1>12 DEF m

(* All items are the whole sequence.                                       *)
LEMMA AllItems ==
    ASSUME NEW n \in Nat, NEW seq, DOMAIN seq = 1..n, seq = [k \in 1..n |-> seq[k]]
    PROVE  ItemsAt(seq, 1..n) = seq
<1> DEFINE all == 1..n
           Nth(i) == CHOOSE k \in all : Cardinality({j \in all : j < k}) = i - 1
<1>1. Cardinality(all) = n
  BY FS_Interval
<1>2. ASSUME NEW k \in 1..n PROVE Cardinality({j \in all : j < k}) = k - 1
  <2>1. {j \in all : j < k} = 1..k - 1
    OBVIOUS
  <2>2. \A m \in Nat : Cardinality(1..m) = m
    BY FS_Interval
  <2>3. k - 1 \in Nat
    OBVIOUS
  <2> QED BY <2>1, <2>2, <2>3
<1>3. ASSUME NEW i \in 1..n PROVE Nth(i) = i
  <2>1. \A k \in all : Cardinality({j \in all : j < k}) = i - 1 <=> k = i
    <3>1. \A k \in all : Cardinality({j \in all : j < k}) = k - 1
      BY <1>2
    <3>2. \A k \in all : k \in Int /\ i \in Int
      OBVIOUS
    <3>3. i \in Int
      OBVIOUS
    <3> HIDE DEF all
    <3> QED BY <3>1, <3>2, <3>3
  <2>2. i \in all
    OBVIOUS
  <2> HIDE DEF all
  <2> QED BY <2>1, <2>2
<1>4. ItemsAt(seq, all) = [i \in 1..Cardinality(all) |-> seq[Nth(i)]]
  BY DEF ItemsAt
<1> HIDE DEF Nth
<1> QED BY <1>1, <1>3, <1>4

-----------------------------------------------------------------------------
(* The normal form.  After decoding and lower-casing a text is one over an *)
(* alphabet of plain characters, none of which these two would change, or  *)
(* a line break.                                                           *)
Alphabet(A) ==
    /\ Space \in A
    /\ \A x \in A : x = Plain(x.c) /\ x.c \notin {"+", "\n"} \union DOMAIN Upper

(* What stripping and collapsing leave: no comment, and white space only   *)
(* between two characters that are not.                                    *)
NoComments(text) == \A k \in 1..Len(text) : Ends(text, k) = {}
Tidy(text) ==
    \A k \in 1..Len(text) :
        IsWhite(text[k]) => k > 1 /\ k < Len(text) /\ ~IsWhite(text[k - 1])

(* Texts without line breaks end up over such an alphabet ...              *)
LEMMA LoweredText ==
    ASSUME NEW text, IsText(text), Decodable(text), \A k \in DOMAIN text : text[k].c # "\n"
    PROVE  \E A : Alphabet(A) /\ Lower(Decoded(text)) \in Seq(A)
<1> DEFINE clear == FullyDecoded(text)
           low == Lower(clear)
           A == {Space} \union {low[k] : k \in DOMAIN low}
<1>1. /\ DOMAIN low = DOMAIN text /\ DOMAIN clear = DOMAIN text
      /\ low = [k \in DOMAIN text |-> low[k]]
  BY DEF Lower, FullyDecoded
<1>2. Len(text) \in Nat /\ DOMAIN text = 1..Len(text)
  BY DEF IsText
<1>3. " " \notin DOMAIN Upper /\ " " # "+" /\ " " # "\n"
  BY LettersOnly
<1>4. Space = Plain(Space.c) /\ Space.c = " "
  BY DEF Space, Plain
<1>5. ASSUME NEW k \in DOMAIN text
      PROVE  low[k] = Plain(low[k].c) /\ low[k].c \notin {"+", "\n"} \union DOMAIN Upper
  <2>1. \E c : clear[k] = Plain(c) /\ c \notin {"+", "\n"}
    <3>1. clear[k] = IF text[k].c = "+" THEN Space ELSE Plain(text[k].c)
      BY DEF FullyDecoded
    <3> HIDE DEF clear
    <3> QED BY <1>3, <1>4, <3>1
  <2>2. PICK c : clear[k] = Plain(c) /\ c \notin {"+", "\n"}
    BY <2>1
  <2>3. Plain(c).c = c /\ Plain(c).d = 0
    BY DEF Plain
  <2>4. low[k] = IF c \in DOMAIN Upper THEN Plain(Upper[c]) ELSE Plain(c)
    BY <1>1, <2>2, <2>3 DEF Lower
  <2> HIDE DEF low, clear
  <2>5. CASE c \in DOMAIN Upper
    <3>1. Upper[c] \notin {"+", "\n"} \union DOMAIN Upper
      BY <2>5, LettersOnly
    <3>2. low[k].c = Upper[c]
      BY <2>4, <2>5 DEF Plain
    <3> QED BY <2>4, <2>5, <3>1, <3>2
  <2>6. CASE c \notin DOMAIN Upper
    <3>1. low[k].c = c
      BY <2>3, <2>4, <2>6
    <3> QED BY <2>2, <2>4, <2>6, <3>1
  <2> QED BY <2>5, <2>6
<1>6. low \in Seq(A)
  <2>1. \A k \in DOMAIN text : low[k] \in A
    BY <1>1
  <2> HIDE DEF low, A
  <2>2. low \in [1..Len(text) -> A]
    BY <1>1, <1>2, <2>1
  <2> QED BY <1>2, <2>2
<1>7. Alphabet(A)
  <2>1. \A x \in A : x = Space \/ \E k \in DOMAIN text : x = low[k]
    BY <1>1
  <2> HIDE DEF low
  <2> QED BY <1>3, <1>4, <1>5, <2>1 DEF Alphabet
<1>8. Lower(Decoded(text)) = low
  BY DecodedText
<1> HIDE DEF low, A
<1> QED BY <1>6, <1>7, <1>8

(* ... and decoding and lower-casing do nothing to a text over one.        *)
LEMMA LoweredStays ==
    ASSUME NEW A, Alphabet(A), NEW text \in Seq(A)
    PROVE  Lower(Decoded(text)) = text
<1>1. /\ Len(text) \in Nat /\ DOMAIN text = 1..Len(text) /\ text \in [1..Len(text) -> A]
      /\ text = [k \in DOMAIN text |-> text[k]]
  OBVIOUS
<1>2. \A k \in DOMAIN text : /\ text[k] = Plain(text[k].c)
                             /\ text[k].c \notin {"+", "\n"} \union DOMAIN Upper
  BY <1>1 DEF Alphabet
<1>3. \A k \in DOMAIN text : /\ text[k] = [c |-> text[k].c, d |-> text[k].d]
                             /\ text[k].d = 0
  BY <1>2 DEF Plain
<1>4. IsText(text)
  <2>1. text \in [1..Len(text) -> {text[k] : k \in DOMAIN text}]
    BY <1>1
  <2>2. text \in Seq({text[k] : k \in DOMAIN text})
    BY <1>1, <2>1
  <2> QED BY <1>3, <2>2 DEF IsText
<1>5. Decodable(text)
  BY <1>2, <1>3, MaxRoundsNat DEF Decodable
<1>6. FullyDecoded(text) = text
  <2>1. \A k \in DOMAIN text :
           (IF text[k].c = "+" THEN Space ELSE Plain(text[k].c)) = text[k]
    BY <1>2
  <2> QED BY <1>1, <2>1 DEF FullyDecoded
<1>7. Lower(text) = text
  <2>1. \A k \in DOMAIN text :
           (IF text[k].d = 0 /\ text[k].c \in DOMAIN Upper THEN Plain(Upper[text[k].c])
            ELSE text[k]) = text[k]
    BY <1>2
  <2> QED BY <1>1, <2>1 DEF Lower
<1> QED BY <1>4, <1>5, <1>6, <1>7, DecodedText

(* Without line breaks a comment goes from any of its opening signs to any *)
(* closing sign after it.                                                  *)
Opens(text, k) == Is(text[k], "/") /\ Is(text[k + 1], "*")
Closes(text, k) == Is(text[k], "*") /\ Is(text[k + 1], "/")

LEMMA CommentsOf ==
    ASSUME NEW A, Alphabet(A), NEW text \in Seq(A), NEW k \in 1..Len(text)
    PROVE  Ends(text, k) # {} <=>
              Opens(text, k) /\ \E j \in k + 2..Len(text) - 1 : Closes(text, j)
<1>1. Len(text) \in Nat /\ \A j \in 1..Len(text) : text[j] \in A
  OBVIOUS
<1>2. \A j \in 1..Len(text) : text[j] # Newline
  BY <1>1 DEF Alphabet, Newline, Plain
<1>3. ASSUME NEW e \in Ends(text, k)
      PROVE  Opens(text, k) /\ \E j \in k + 2..Len(text) - 1 : Closes(text, j)
  <2>1. /\ e \in k + 3..Len(text) /\ Opens(text, k)
        /\ Is(text[e - 1], "*") /\ Is(text[e], "/")
    BY DEF Ends, Opens
  <2>2. e - 1 \in k + 2..Len(text) - 1 /\ (e - 1) + 1 = e
    BY <1>1, <2>1
  <2> QED BY <2>1, <2>2 DEF Closes
<1>4. ASSUME Opens(text, k), NEW j \in k + 2..Len(text) - 1, Closes(text, j)
      PROVE  j + 1 \in Ends(text, k)
  <2>1. j + 1 \in k + 3..Len(text) /\ (j + 1) - 1 = j
    BY <1>1
  <2>2. \A i \in k + 2..(j + 1) - 2 : i \in 1..Len(text)
    BY <1>1
  <2> QED BY <1>2, <1>4, <2>1, <2>2 DEF Ends, Opens, Closes
<1>5. ASSUME Ends(text, k) # {}
      PROVE  Opens(text, k) /\ \E j \in k + 2..Len(text) - 1 : Closes(text, j)
  <2>1. PICK e \in Ends(text, k) : TRUE
    BY <1>5
  <2> QED BY <1>3
<1>6. ASSUME Opens(text, k), \E j \in k + 2..Len(text) - 1 : Closes(text, j)
      PROVE  Ends(text, k) # {}
  <2>1. PICK j \in k + 2..Len(text) - 1 : Closes(text, j)
    BY <1>6
  <2>2. j + 1 \in Ends(text, k)
    BY <1>4, <1>6, <2>1
  <2> QED BY <2>2
<1> QED BY <1>5, <1>6

(* A set of numbers with an upper bound has a greatest one.                *)
LEMMA GreatestNumber ==
    ASSUME NEW n \in Nat, NEW T \in SUBSET (1..n), T # {}
    PROVE  \E x \in T : \A y \in T : y <= x
<1> DEFINE U == {m \in 0..n : n - m \in T}
<1>1. \A x \in T : x \in 1..n
  OBVIOUS
<1>2. PICK x \in T : TRUE
  OBVIOUS
<1>3. \A y \in T : n - y \in U /\ n - (n - y) = y
  BY <1>1
<1>4. U # {} /\ U \in SUBSET Nat
  <2>1. U \subseteq 0..n
    OBVIOUS
  <2> HIDE DEF U
  <2> QED BY <1>2, <1>3, <2>1
<1>5. PICK m \in U : \A l \in U : m <= l
  <2> HIDE DEF U
  <2> QED BY <1>4, LeastNumber
<1>6. \A y \in T : m <= n - y
  BY <1>3, <1>5
<1>7. n - m \in T /\ m \in 0..n
  BY <1>5
<1>8. \A y \in T : y <= n - m
  BY <1>1, <1>6, <1>7
<1> QED BY <1>7, <1>8

(* Stripping: what it puts out at a position, and where it goes on.  Where *)
(* to begin with the recursion from there leaves the same.                 *)
Out(text, k) == IF Ends(text, k) = {} THEN text[k] ELSE Space
GoesOn(text, k) == IF Ends(text, k) = {} THEN k + 1 ELSE First(Ends(text, k)) + 1

LEMMA GoesForward ==
    ASSUME NEW A, NEW text \in Seq(A), NEW k \in 1..Len(text)
    PROVE  GoesOn(text, k) \in k + 1..Len(text) + 1
<1>1. Len(text) \in Nat
  OBVIOUS
<1>2. CASE Ends(text, k) = {}
  BY <1>1, <1>2 DEF GoesOn
<1>3. CASE Ends(text, k) # {}
  <2>1. Ends(text, k) \subseteq k + 3..Len(text)
    BY DEF Ends
  <2>2. Ends(text, k) \subseteq Nat
    BY <1>1, <2>1
  <2>3. First(Ends(text, k)) \in Ends(text, k)
    <3>1. \E e \in Ends(text, k) : \A f \in Ends(text, k) : e <= f
      BY <1>3, <2>2, LeastNumber
    <3> QED BY <3>1 DEF First
  <2> QED BY <1>1, <1>3, <2>1, <2>3 DEF GoesOn
<1> QED BY <1>2, <1>3

LEMMA StripRecursion ==
    ASSUME NEW A, NEW text \in Seq(A)
    PROVE  \E rest :
              /\ StripComments(text) = rest[1]
              /\ rest[Len(text) + 1] = <<>>
              /\ \A k \in 1..Len(text) : rest[k] = <<Out(text, k)>> \o rest[GoesOn(text, k)]
<1> DEFINE n == Len(text)
           Body(f, k) == IF k > n THEN <<>> ELSE <<Out(text, k)>> \o f[GoesOn(text, k)]
           Solves(f, k) == f = [j \in k..n + 1 |-> Body(f, j)]
           Given(f) == f = [k \in 1..n + 1 |->
                               IF k > Len(text) THEN <<>>
                               ELSE IF Ends(text, k) = {} THEN <<text[k]>> \o f[k + 1]
                               ELSE <<Space>> \o f[First(Ends(text, k)) + 1]]
           T == {m \in 0..n : ~\E f : Solves(f, n + 1 - m)}
           rest == CHOOSE f : Given(f)
<1>1. n \in Nat
  OBVIOUS
<1>2. \A k \in 1..n : GoesOn(text, k) \in k + 1..n + 1
  BY GoesForward
<1>3. T = {}
  <2> SUFFICES ASSUME T # {} PROVE FALSE
    OBVIOUS
  <2>1. PICK m \in T : \A l \in T : m <= l
    <3>1. T \in SUBSET Nat
      BY <1>1
    <3> HIDE DEF T
    <3> QED BY <3>1, LeastNumber
  <2> DEFINE k == n + 1 - m
  <2>2. m \in 0..n /\ ~\E f : Solves(f, k)
    BY <2>1
  <2>3. CASE m = 0
    <3> DEFINE f == [j \in n + 1..n + 1 |-> <<>>]
    <3>1. \A j \in n + 1..n + 1 : Body(f, j) = <<>>
      BY <1>1
    <3>2. f = [j \in n + 1..n + 1 |-> Body(f, j)]
      BY <3>1
    <3>3. k = n + 1
      BY <1>1, <2>3
    <3>4. Solves(f, k)
      BY <3>2, <3>3
    <3> QED BY <2>2, <3>4
  <2>4. CASE m # 0
    <3>1. m - 1 \in 0..n /\ ~(m <= m - 1) /\ n + 1 - (m - 1) = k + 1 /\ k \in 1..n
      BY <1>1, <2>2, <2>4
    <3>2. m - 1 \notin T
      BY <2>1, <3>1
    <3>3. \E f : Solves(f, k + 1)
      BY <3>1, <3>2
    <3>4. PICK g : Solves(g, k + 1)
      BY <3>3
    <3> DEFINE f == [j \in k..n + 1 |-> IF j = k THEN Body(g, k) ELSE g[j]]
    <3>5. ASSUME NEW j \in k..n + 1 PROVE f[j] = Body(f, j)
      <4>1. Body(f, j) = Body(g, j)
        <5>1. CASE j > n
          BY <5>1
        <5>2. CASE ~(j > n)
          <6>1. j \in 1..n /\ GoesOn(text, j) \in j + 1..n + 1
            BY <1>1, <1>2, <3>1, <5>2
          <6>2. GoesOn(text, j) \in k..n + 1 /\ GoesOn(text, j) # k
            BY <1>1, <3>1, <6>1
          <6>3. f[GoesOn(text, j)] = g[GoesOn(text, j)]
            BY <6>2
          <6> QED BY <6>3
        <5> QED BY <5>1, <5>2
      <4>2. f[j] = Body(g, j)
        <5>1. CASE j = k
          BY <5>1
        <5>2. CASE j # k
          <6>1. j \in k + 1..n + 1
            BY <1>1, <3>1, <5>2
          <6>2. g[j] = Body(g, j)
            <7> HIDE DEF Body
            <7> QED BY <3>4, <6>1
          <6> QED BY <5>2, <6>2
        <5> QED BY <5>1, <5>2
      <4> QED BY <4>1, <4>2
    <3>6. Solves(f, k)
      <4>1. f = [j \in k..n + 1 |-> f[j]]
        OBVIOUS
      <4> HIDE DEF f, Body
      <4> QED BY <3>5, <4>1
    <3> HIDE DEF f, Solves
    <3> QED BY <2>2, <3>6
  <2> QED BY <2>3, <2>4
<1>4. ASSUME NEW f, NEW k \in 1..n + 1
      PROVE  Body(f, k) = IF k > Len(text) THEN <<>>
                          ELSE IF Ends(text, k) = {} THEN <<text[k]>> \o f[k + 1]
                          ELSE <<Space>> \o f[First(Ends(text, k)) + 1]
  BY DEF Out, GoesOn
<1>5. \E f : Given(f)
  <2>1. n \in 0..n /\ n + 1 - n = 1
    BY <1>1
  <2>2. n \notin T
    <3> HIDE DEF T
    <3> QED BY <1>3
  <2>3. PICK f : Solves(f, 1)
    <3> HIDE DEF Solves
    <3> QED BY <2>1, <2>2
  <2>4. f = [k \in 1..n + 1 |-> Body(f, k)]
    BY <2>3
  <2> HIDE DEF Body
  <2>5. Given(f)
    BY <1>4, <2>4
  <2> QED BY <2>5
<1>6. Given(rest)
  <2> HIDE DEF Given
  <2> QED BY <1>5
<1>7. StripComments(text) = rest[1]
  BY DEF StripComments
<1> HIDE DEF rest
<1>8. ASSUME NEW k \in 1..n + 1 PROVE rest[k] = Body(rest, k)
  <2> HIDE DEF Body
  <2> QED BY <1>4, <1>6
<1>9. rest[n + 1] = <<>>
  <2>1. n + 1 \in 1..n + 1 /\ n + 1 > n
    BY <1>1
  <2>2. rest[n + 1] = Body(rest, n + 1)
    BY <1>8, <2>1
  <2> QED BY <2>1, <2>2
<1>10. ASSUME NEW k \in 1..n
       PROVE  rest[k] = <<Out(text, k)>> \o rest[GoesOn(text, k)]
  <2>1. k \in 1..n + 1 /\ ~(k > n)
    BY <1>1
  <2>2. rest[k] = Body(rest, k)
    BY <1>8, <2>1
  <2> QED BY <2>1, <2>2
<1> QED BY <1>7, <1>9, <1>10

(* What stripping leaves of a text from position k on: it begins with what *)
(* the text has there or with a space, the closing signs in it were        *)
(* closing signs of the text, no further to the left, and it contains no   *)
(* comment.                                                                *)
Strips(A, text, k, left) ==
    /\ left \in Seq(A)
    /\ left # <<>> => k <= Len(text) /\ left[1] \in {text[k], Space}
    /\ \A i \in 1..Len(left) - 1 :
          Closes(left, i) => \E j \in k + i - 1..Len(text) - 1 : Closes(text, j)
    /\ NoComments(left)

(* One step of the recursion: a new closing sign was one before, and if a  *)
(* comment began with the new character, the text would have one there.    *)
LEMMA StripStep ==
    ASSUME NEW A, Alphabet(A), NEW text \in Seq(A), NEW k \in 1..Len(text),
           NEW r, Strips(A, text, GoesOn(text, k), r)
    PROVE  Strips(A, text, k, <<Out(text, k)>> \o r)
<1> DEFINE n == Len(text)
           g == GoesOn(text, k)
           x == Out(text, k)
           s == <<x>> \o r
<1>1. /\ n \in Nat /\ g \in k + 1..n + 1 /\ r \in Seq(A) /\ Len(r) \in Nat
      /\ r # <<>> => g <= n /\ r[1] \in {text[g], Space}
      /\ \A i \in 1..Len(r) - 1 :
            Closes(r, i) => \E j \in g + i - 1..n - 1 : Closes(text, j)
      /\ NoComments(r)
  BY GoesForward DEF Strips
<1>2. x \in A /\ (x # Space => Ends(text, k) = {} /\ x = text[k] /\ g = k + 1)
  BY DEF Out, GoesOn, Alphabet
<1>3. /\ s \in Seq(A) /\ Len(s) = Len(r) + 1 /\ s[1] = x
      /\ \A i \in 1..Len(r) : s[i + 1] = r[i]
  <2>1. <<x>> \in Seq(A) /\ Len(<<x>>) = 1 /\ <<x>>[1] = x
    BY <1>2
  <2> HIDE DEF x
  <2>2. /\ s \in Seq(A) /\ Len(s) = Len(r) + 1
        /\ \A i \in 1..Len(r) + 1 : s[i] = IF i <= 1 THEN <<x>>[i] ELSE r[i - 1]
    BY <1>1, <2>1, ConcatProperties
  <2> HIDE DEF s
  <2>3. s[1] = x
    BY <1>1, <2>1, <2>2
  <2>4. ASSUME NEW i \in 1..Len(r) PROVE s[i + 1] = r[i]
    <3>1. i + 1 \in 1..Len(r) + 1 /\ ~(i + 1 <= 1) /\ (i + 1) - 1 = i
      BY <1>1
    <3> QED BY <2>2, <3>1
  <2> QED BY <2>2, <2>3, <2>4
<1> HIDE DEF n, g, x, s
<1>4. ~Is(Space, "*") /\ ~Is(Space, "/")
  BY DEF Is, Space, Plain
<1>5. \A i \in 1..Len(s) - 1 : i > 1 => i - 1 \in 1..Len(r) - 1
  BY <1>1, <1>3
<1>6. \A i \in 2..Len(s) : s[i] = r[i - 1]
  <2> SUFFICES ASSUME NEW i \in 2..Len(s) PROVE s[i] = r[i - 1]
    OBVIOUS
  <2>1. i - 1 \in 1..Len(r) /\ (i - 1) + 1 = i
    BY <1>1, <1>3
  <2> QED BY <1>3, <2>1
<1>7. ASSUME NEW i \in 2..Len(s) - 1
      PROVE  /\ i - 1 \in 1..Len(r) - 1
             /\ Closes(s, i) <=> Closes(r, i - 1)
             /\ Opens(s, i) <=> Opens(r, i - 1)
  <2>1. /\ i \in 2..Len(s) /\ i + 1 \in 2..Len(s) /\ (i + 1) - 1 = (i - 1) + 1
        /\ i - 1 \in 1..Len(r) - 1
    BY <1>1, <1>3
  <2>2. s[i] = r[i - 1] /\ s[i + 1] = r[(i - 1) + 1]
    BY <1>6, <2>1
  <2> QED BY <2>1, <2>2 DEF Closes, Opens
<1>8. ASSUME 1 <= Len(s) - 1, x # Space, s[2] # Space
      PROVE  k + 1 <= n /\ g = k + 1 /\ text[k + 1] = s[2] /\ text[k] = x
  <2>1. r # <<>> /\ s[2] = r[1]
    <3>1. 2 \in 2..Len(s) /\ Len(r) >= 1
      BY <1>1, <1>3, <1>8
    <3> QED BY <1>6, <3>1
  <2> QED BY <1>1, <1>2, <1>8, <2>1
<1>9. ASSUME NEW i \in 1..Len(s) - 1, Closes(s, i)
      PROVE  \E j \in k + i - 1..n - 1 : Closes(text, j)
  <2>1. CASE i = 1
    <3>1. Is(x, "*") /\ Is(s[2], "/")
      BY <1>3, <1>9, <2>1 DEF Closes
    <3>2. k + 1 <= n /\ text[k + 1] = s[2] /\ text[k] = x
      BY <1>1, <1>3, <1>4, <1>8, <2>1, <3>1
    <3>3. k \in k + i - 1..n - 1 /\ Closes(text, k)
      BY <1>1, <2>1, <3>1, <3>2 DEF Closes
    <3> QED BY <3>3
  <2>2. CASE i # 1
    <3>1. i \in 2..Len(s) - 1
      BY <1>1, <1>3, <2>2
    <3>2. i - 1 \in 1..Len(r) - 1 /\ Closes(r, i - 1)
      BY <1>7, <1>9, <3>1
    <3>3. PICK j \in g + (i - 1) - 1..n - 1 : Closes(text, j)
      BY <1>1, <3>2
    <3>4. j \in k + i - 1..n - 1
      BY <1>1, <3>2, <3>3
    <3> QED BY <3>3, <3>4
  <2> QED BY <2>1, <2>2
<1>10. NoComments(s)
  <2> SUFFICES ASSUME NEW p \in 1..Len(s), Ends(s, p) # {} PROVE FALSE
    BY DEF NoComments
  <2>1. Opens(s, p) /\ \E j \in p + 2..Len(s) - 1 : Closes(s, j)
    BY <1>3, CommentsOf
  <2>2. PICK j \in p + 2..Len(s) - 1 : Closes(s, j)
    BY <2>1
  <2>3. j \in 2..Len(s) - 1 /\ j - 1 \in (p - 1) + 2..Len(r) - 1
    BY <1>1, <1>3, <2>2
  <2>4. Closes(r, j - 1) /\ j - 1 \in 1..Len(r) - 1
    BY <1>7, <2>2, <2>3
  <2>5. CASE p = 1
    <3>1. Is(x, "/") /\ Is(s[2], "*") /\ 1 <= Len(s) - 1
      BY <1>1, <1>3, <2>1, <2>3, <2>5 DEF Opens
    <3>2. k + 1 <= n /\ g = k + 1 /\ text[k + 1] = s[2] /\ text[k] = x /\ Ends(text, k) = {}
      BY <1>2, <1>4, <1>8, <3>1
    <3>3. Opens(text, k)
      BY <3>1, <3>2 DEF Opens
    <3>4. PICK i \in g + (j - 1) - 1..n - 1 : Closes(text, i)
      BY <1>1, <2>4
    <3>5. i \in k + 2..n - 1
      BY <1>1, <2>3, <2>5, <3>2, <3>4
    <3>6. Ends(text, k) # {}
      BY <3>3, <3>4, <3>5, CommentsOf DEF n
    <3> QED BY <3>2, <3>6
  <2>6. CASE p # 1
    <3>1. p \in 2..Len(s) - 1 /\ p - 1 \in 1..Len(r)
      BY <1>1, <1>3, <2>2, <2>6
    <3>2. Opens(r, p - 1)
      BY <1>7, <2>1, <3>1
    <3>3. Ends(r, p - 1) # {}
      BY <1>1, <2>3, <2>4, <3>1, <3>2, CommentsOf
    <3> QED BY <1>1, <3>1, <3>3 DEF NoComments
  <2> QED BY <2>5, <2>6
<1>11. s # <<>> => k <= n /\ s[1] \in {text[k], Space}
  BY <1>1, <1>2, <1>3
<1> QED BY <1>3, <1>9, <1>10, <1>11 DEF Strips, s, x, n

(* No comment survives stripping ...                                       *)
LEMMA Stripped ==
    ASSUME NEW A, Alphabet(A), NEW text \in Seq(A)
    PROVE  StripComments(text) \in Seq(A) /\ NoComments(StripComments(text))
<1> DEFINE n == Len(text)
<1>1. n \in Nat
  OBVIOUS
<1>2. PICK rest : /\ StripComments(text) = rest[1]
                  /\ rest[n + 1] = <<>>
                  /\ \A k \in 1..n : rest[k] = <<Out(text, k)>> \o rest[GoesOn(text, k)]
  BY StripRecursion
<1> DEFINE T == {k \in 1..n + 1 : ~Strips(A, text, k, rest[k])}
<1>3. T = {}
  <2> SUFFICES ASSUME T # {} PROVE FALSE
    OBVIOUS
  <2>1. PICK k \in T : \A j \in T : j <= k
    <3>1. T \in SUBSET (1..n + 1) /\ n + 1 \in Nat
      BY <1>1
    <3> HIDE DEF T, n
    <3> QED BY <3>1, GreatestNumber
  <2>2. CASE k = n + 1
    <3>1. Strips(A, text, n + 1, <<>>)
      BY DEF Strips, NoComments
    <3> QED BY <1>2, <2>1, <2>2, <3>1
  <2>3. CASE k # n + 1
    <3>1. k \in 1..n
      BY <1>1, <2>1, <2>3
    <3>2. GoesOn(text, k) \in k + 1..n + 1
      BY <3>1, GoesForward
    <3>3. GoesOn(text, k) \in 1..n + 1 /\ ~(GoesOn(text, k) <= k)
      BY <1>1, <3>1, <3>2
    <3>4. Strips(A, text, GoesOn(text, k), rest[GoesOn(text, k)])
      BY <2>1, <3>3
    <3>5. Strips(A, text, k, <<Out(text, k)>> \o rest[GoesOn(text, k)])
      <4> HIDE DEF T, n
      <4> QED BY <3>1, <3>4, StripStep DEF n
    <3>6. Strips(A, text, k, rest[k])
      BY <1>2, <3>1, <3>5
    <3> QED BY <2>1, <3>6
  <2> QED BY <2>2, <2>3
<1>4. 1 \in 1..n + 1
  BY <1>1
<1>5. Strips(A, text, 1, rest[1])
  BY <1>3, <1>4
<1> QED BY <1>2, <1>5 DEF Strips

(* ... and a text without comments stays as it is.                         *)
LEMMA StripStays ==
    ASSUME NEW A, NEW text \in Seq(A), NoComments(text)
    PROVE  StripComments(text) = text
<1> DEFINE n == Len(text)
<1>1. n \in Nat
  OBVIOUS
<1>2. PICK rest : /\ StripComments(text) = rest[1]
                  /\ rest[n + 1] = <<>>
                  /\ \A k \in 1..n : rest[k] = <<Out(text, k)>> \o rest[GoesOn(text, k)]
  BY StripRecursion
<1>3. \A k \in 1..n : rest[k] = <<text[k]>> \o rest[k + 1]
  BY <1>2 DEF NoComments, Out, GoesOn
<1> DEFINE T == {k \in 1..n + 1 : rest[k] # SubSeq(text, k, n)}
<1>4. T = {}
  <2> SUFFICES ASSUME T # {} PROVE FALSE
    OBVIOUS
  <2>1. PICK k \in T : \A j \in T : j <= k
    <3>1. T \in SUBSET (1..n + 1) /\ n + 1 \in Nat
      BY <1>1
    <3> HIDE DEF T, n
    <3> QED BY <3>1, GreatestNumber
  <2>2. CASE k = n + 1
    <3>1. SubSeq(text, n + 1, n) = <<>>
      BY <1>1, SubSeqEmpty
    <3> QED BY <1>2, <2>1, <2>2, <3>1
  <2>3. CASE k # n + 1
    <3>1. k \in 1..n /\ k + 1 \in 1..n + 1 /\ ~(k + 1 <= k) /\ n \in k..n
      BY <1>1, <2>1, <2>3
    <3>2. rest[k + 1] = SubSeq(text, k + 1, n)
      BY <2>1, <3>1
    <3>3. SubSeq(text, k, n) = <<text[k]>> \o SubSeq(text, k + 1, n)
      BY <3>1, SubSeqRecursiveFirst
    <3> QED BY <1>3, <2>1, <3>1, <3>2, <3>3
  <2> QED BY <2>2, <2>3
<1>5. 1 \in 1..n + 1
  BY <1>1
<1>6. rest[1] = SubSeq(text, 1, n)
  BY <1>4, <1>5
<1>7. SubSeq(text, 1, n) = text
  BY SubSeqFull
<1> QED BY <1>2, <1>6, <1>7

(* Collapsing leaves neither white space at an end or next to white space, *)
(* nor a comment: characters that are neighbours now were neighbours.      *)
LEMMA Collapsed ==
    ASSUME NEW A, Alphabet(A), NEW text \in Seq(A), NoComments(text)
    PROVE  /\ Collapse(text) \in Seq(A)
           /\ NoComments(Collapse(text)) /\ Tidy(Collapse(text))
<1> DEFINE n == Len(text)
           P == Kept(text)
           m == Cardinality(P)
           spaced == [k \in DOMAIN text |-> IF IsWhite(text[k]) THEN Space ELSE text[k]]
           c == Collapse(text)
<1>1. n \in Nat /\ DOMAIN text = 1..n /\ \A k \in 1..n : text[k] \in A
  OBVIOUS
<1>2. P \in SUBSET (1..n)
  BY <1>1 DEF Kept
<1>3. m \in Nat
  <2> HIDE DEF P, n
  <2> QED BY <1>1, <1>2, PositionsInOrder
<1>4. PICK nth \in [1..m -> P] :
         /\ \A i, j \in 1..m : i < j => nth[i] < nth[j]
         /\ \A k \in P : \E i \in 1..m : nth[i] = k
         /\ \A seq : ItemsAt(seq, P) = [i \in 1..m |-> seq[nth[i]]]
  <2> HIDE DEF P, n
  <2> QED BY <1>1, <1>2, PositionsInOrder
<1>5. c = [i \in 1..m |-> spaced[nth[i]]]
  BY <1>4 DEF Collapse
<1> HIDE DEF m, c
<1>6. ASSUME NEW k \in 1..n PROVE k \in P <=>
             \/ ~IsWhite(text[k])
             \/ /\ k > 1 /\ ~IsWhite(text[k - 1])
                /\ \E j \in k + 1..n : ~IsWhite(text[j])
  BY <1>1 DEF Kept
<1> HIDE DEF P
<1>7. ASSUME NEW i \in 1..m
      PROVE  /\ nth[i] \in P /\ nth[i] \in 1..n
             /\ c[i] = IF IsWhite(text[nth[i]]) THEN Space ELSE text[nth[i]]
             /\ IsWhite(c[i]) <=> IsWhite(text[nth[i]])
  <2>1. nth[i] \in P /\ nth[i] \in 1..n
    BY <1>2, <1>4
  <2>2. c[i] = spaced[nth[i]]
    BY <1>5
  <2>3. c[i] = IF IsWhite(text[nth[i]]) THEN Space ELSE text[nth[i]]
    BY <1>1, <2>1, <2>2
  <2>4. IsWhite(Space)
    BY DEF IsWhite, Is, Space, Plain
  <2> QED BY <2>1, <2>3, <2>4
<1> HIDE DEF spaced
<1>8. c \in Seq(A) /\ Len(c) = m /\ DOMAIN c = 1..m
  <2>1. \A i \in 1..m : c[i] \in A
    BY <1>1, <1>7 DEF Alphabet
  <2>2. c \in [1..m -> A]
    BY <1>5, <2>1
  <2> QED BY <1>3, <2>2
<1> HIDE DEF n
<1>9. ASSUME NEW i \in 1..m, NEW j \in 1..m
      PROVE  /\ nth[i] < nth[j] => i < j
             /\ i < j => nth[i] < nth[j]
  <2>1. nth[i] \in Int /\ nth[j] \in Int /\ i \in Int /\ j \in Int
    BY <1>1, <1>3, <1>7
  <2>2. (i < j => nth[i] < nth[j]) /\ (j < i => nth[j] < nth[i]) /\ (i = j => nth[i] = nth[j])
    BY <1>4
  <2> QED BY <2>1, <2>2
<1>10. ASSUME NEW i \in 1..m, i + 1 \in 1..m, NEW q \in P, nth[i] < q, q < nth[i + 1]
       PROVE  FALSE
  <2>1. PICK j \in 1..m : nth[j] = q
    BY <1>4
  <2>2. i < j /\ j < i + 1
    BY <1>9, <1>10, <2>1
  <2> QED BY <1>3, <2>2
<1>11. Tidy(c)
  <2> SUFFICES ASSUME NEW i \in 1..m, IsWhite(c[i])
               PROVE  i > 1 /\ i < m /\ ~IsWhite(c[i - 1])
    BY <1>8 DEF Tidy
  <2> DEFINE p == nth[i]
  <2>1. /\ p \in 1..n /\ p > 1 /\ ~IsWhite(text[p - 1])
        /\ \E j \in p + 1..n : ~IsWhite(text[j])
    BY <1>6, <1>7
  <2>2. PICK q \in p + 1..n : ~IsWhite(text[q])
    BY <2>1
  <2> HIDE DEF p
  <2>3. p - 1 \in P /\ p - 1 \in 1..n /\ p - 1 < p
    <3>1. p - 1 \in 1..n /\ p - 1 < p
      BY <1>1, <2>1
    <3> QED BY <1>6, <2>1, <3>1
  <2>4. q \in P /\ p < q
    <3>1. q \in 1..n /\ p < q
      BY <1>1, <2>1, <2>2
    <3> QED BY <1>6, <2>2, <3>1
  <2>5. PICK h \in 1..m : nth[h] = p - 1
    BY <1>4, <2>3
  <2>6. PICK j \in 1..m : nth[j] = q
    BY <1>4, <2>4
  <2>7. h < i /\ i < j
    BY <1>9, <2>3, <2>4, <2>5, <2>6 DEF p
  <2>8. i > 1 /\ i < m /\ i - 1 \in 1..m /\ (i - 1) + 1 = i
    BY <1>3, <2>7
  <2>9. h = i - 1
    <3>1. ~(h < i - 1)
      <4> SUFFICES ASSUME h < i - 1 PROVE FALSE
        OBVIOUS
      <4>1. nth[h] < nth[i - 1] /\ nth[i - 1] < nth[i]
        <5>1. i - 1 < i
          BY <1>3, <2>8
        <5> QED BY <1>9, <2>8, <5>1
      <4>2. nth[i - 1] \in 1..n
        BY <1>7, <2>8
      <4> QED BY <1>1, <2>1, <2>5, <4>1, <4>2 DEF p
    <3> QED BY <1>3, <2>7, <2>8, <3>1
  <2> QED BY <1>7, <2>1, <2>5, <2>8, <2>9
<1>12. ASSUME NEW i \in 1..m, i + 1 \in 1..m, ~IsWhite(c[i]), ~IsWhite(c[i + 1])
       PROVE  /\ nth[i + 1] = nth[i] + 1
              /\ text[nth[i]] = c[i] /\ text[nth[i] + 1] = c[i + 1]
  <2> DEFINE p == nth[i]
             q == nth[i + 1]
  <2>1. /\ p \in 1..n /\ ~IsWhite(text[p]) /\ c[i] = text[p]
        /\ q \in 1..n /\ ~IsWhite(text[q]) /\ c[i + 1] = text[q]
    BY <1>7, <1>12
  <2>2. p < q
    <3>1. i < i + 1
      BY <1>3
    <3> QED BY <1>9, <1>12, <3>1
  <2>3. q = p + 1
    <3> SUFFICES ASSUME q # p + 1 PROVE FALSE
      OBVIOUS
    <3> HIDE DEF p, q
    <3>1. p + 1 \in 1..n /\ p < p + 1 /\ p + 1 < q /\ p + 1 > 1 /\ (p + 1) - 1 = p
          /\ q \in (p + 1) + 1..n
      BY <1>1, <2>1, <2>2
    <3>2. p + 1 \in P
      BY <1>6, <2>1, <3>1
    <3> QED BY <1>10, <1>12, <3>1, <3>2 DEF p, q
  <2> HIDE DEF q
  <2> QED BY <2>1, <2>3 DEF q
<1>13. NoComments(c)
  <2> SUFFICES ASSUME NEW i \in 1..m, Ends(c, i) # {} PROVE FALSE
    BY <1>8 DEF NoComments
  <2>1. Opens(c, i) /\ \E j \in i + 2..m - 1 : Closes(c, j)
    BY <1>8, CommentsOf
  <2>2. PICK j \in i + 2..m - 1 : Closes(c, j)
    BY <2>1
  <2>3. /\ i + 1 \in 1..m /\ j \in 1..m /\ j + 1 \in 1..m /\ i + 1 < j
    BY <1>3, <2>2
  <2>4. \A x : Is(x, "/") \/ Is(x, "*") => ~IsWhite(x)
    BY DEF Is, IsWhite
  <2>5. /\ nth[i + 1] = nth[i] + 1 /\ Opens(text, nth[i])
    BY <1>12, <2>1, <2>3, <2>4 DEF Opens
  <2>6. /\ nth[j + 1] = nth[j] + 1 /\ Closes(text, nth[j])
    BY <1>12, <2>2, <2>3, <2>4 DEF Closes
  <2>7. nth[i + 1] < nth[j]
    BY <1>9, <2>3
  <2>8. nth[i] \in 1..n /\ nth[j] \in 1..n /\ nth[j + 1] \in 1..n
    BY <1>7, <2>3
  <2>9. nth[j] \in nth[i] + 2..n - 1
    BY <1>1, <2>5, <2>6, <2>7, <2>8
  <2>10. Ends(text, nth[i]) # {}
    BY <2>5, <2>6, <2>8, <2>9, CommentsOf DEF n
  <2> QED BY <2>8, <2>10 DEF NoComments, n
<1> QED BY <1>8, <1>11, <1>13 DEF c

(* A text that is tidy stays as it is.                                     *)
LEMMA CollapseStays ==
    ASSUME NEW A, Alphabet(A), NEW text \in Seq(A), Tidy(text)
    PROVE  Collapse(text) = text
<1> DEFINE n == Len(text)
           spaced == [k \in DOMAIN text |-> IF IsWhite(text[k]) THEN Space ELSE text[k]]
<1>1. /\ n \in Nat /\ DOMAIN text = 1..n /\ \A k \in 1..n : text[k] \in A
      /\ text = [k \in 1..n |-> text[k]]
  OBVIOUS
<1>2. ASSUME NEW k \in 1..n PROVE k \in Kept(text)
  <2>1. CASE ~IsWhite(text[k])
    BY <1>1, <2>1 DEF Kept
  <2>2. CASE IsWhite(text[k])
    <3>1. k > 1 /\ k < n /\ ~IsWhite(text[k - 1])
      BY <2>2 DEF Tidy
    <3>2. k + 1 \in 1..n /\ k + 1 \in k + 1..n /\ (k + 1) - 1 = k
      BY <1>1, <3>1
    <3>3. ~IsWhite(text[k + 1])
      BY <2>2, <3>2 DEF Tidy
    <3> QED BY <1>1, <3>1, <3>2, <3>3 DEF Kept
  <2> QED BY <2>1, <2>2
<1>3. Kept(text) = 1..n
  BY <1>1, <1>2 DEF Kept
<1>4. ASSUME NEW k \in 1..n PROVE spaced[k] = text[k]
  <2>1. text[k] = Plain(text[k].c) /\ text[k].c # "\n"
    BY <1>1 DEF Alphabet
  <2>2. IsWhite(text[k]) => text[k] = Space
    BY <2>1 DEF IsWhite, Is, Space
  <2> QED BY <1>1, <2>2
<1>5. spaced = text
  BY <1>1, <1>4
<1>6. Collapse(text) = ItemsAt(spaced, Kept(text))
  BY DEF Collapse
<1> HIDE DEF n, spaced
<1> QED BY <1>1, <1>3, <1>5, <1>6, AllItems

(* The normal form of a text without line breaks is its own normal form.   *)
LEMMA NormalFormStays ==
    ASSUME NEW text, IsText(text), Decodable(text), \A k \in DOMAIN text : text[k].c # "\n"
    PROVE  Normalize(Normalize(text)) = Normalize(text)
<1>1. PICK A : Alphabet(A) /\ Lower(Decoded(text)) \in Seq(A)
  BY LoweredText
<1> DEFINE stripped == StripComments(Lower(Decoded(text)))
           normal == Collapse(stripped)
<1>2. stripped \in Seq(A) /\ NoComments(stripped)
  BY <1>1, Stripped
<1>3. normal \in Seq(A) /\ NoComments(normal) /\ Tidy(normal)
  <2> HIDE DEF stripped
  <2> QED BY <1>1, <1>2, Collapsed
<1>4. normal = Normalize(text)
  BY DEF Normalize
<1> HIDE DEF normal
<1>5. Lower(Decoded(normal)) = normal
  BY <1>1, <1>3, LoweredStays
<1>6. StripComments(normal) = normal
  BY <1>3, StripStays
<1>7. Collapse(normal) = normal
  BY <1>1, <1>3, CollapseStays
<1>8. Normalize(normal) = normal
  BY <1>5, <1>6, <1>7 DEF Normalize
<1> QED BY <1>4, <1>8

-----------------------------------------------------------------------------
(* The path and the query on their way to the site.                        *)
LEMMA PathArrives ==
    ASSUME NEW path, IsText(path), SimplePath(path)
    PROVE  UpstreamPath(path) = PathOf(path) /\ Spilled(path) = <<>>
<1> DEFINE p == PathOf(path)
<1>1. DOMAIN p = DOMAIN path /\ p = [k \in DOMAIN path |-> p[k]]
  BY DEF PathOf
<1>2. ASSUME NEW k \in DOMAIN path
      PROVE  p[k].d = 0 /\ p[k].c \notin {"?", "#", ".", ".."}
  <2>1. /\ path[k] = [c |-> path[k].c, d |-> path[k].d]
        /\ path[k].d \in Nat /\ path[k].d <= 1 /\ path[k].c \notin {"?", "#", ".", ".."}
    BY DEF IsText, SimplePath
  <2>2. p[k] = IF path[k].d > 0 THEN [path[k] EXCEPT !.d = @ - 1] ELSE path[k]
    BY DEF PathOf
  <2> HIDE DEF p
  <2>3. CASE path[k].d > 0
    <3>1. path[k].d = 1
      BY <2>1, <2>3
    <3>2. p[k] = [c |-> path[k].c, d |-> 0]
      BY <2>1, <2>2, <2>3, <3>1
    <3> QED BY <2>1, <3>2
  <2>4. CASE ~(path[k].d > 0)
    BY <2>1, <2>2, <2>4
  <2> QED BY <2>3, <2>4
<1> HIDE DEF p
<1>3. Cut(p) = p
  <2>1. {k \in DOMAIN p : Is(p[k], "?") \/ Is(p[k], "#")} = {}
    BY <1>1, <1>2 DEF Is
  <2> QED BY <2>1 DEF Cut
<1>4. Undotted(p) = p
  <2>1. {k \in DOMAIN p : Is(p[k], ".") \/ Is(p[k], "..")} = {}
    BY <1>1, <1>2 DEF Is
  <2> QED BY <2>1 DEF Undotted
<1>5. PathOf(p) = p
  BY <1>1, <1>2 DEF PathOf
<1>6. Spilled(path) = <<>>
  <2>1. \E n \in Nat : DOMAIN path = 1..n /\ Len(path) = n
    BY DEF IsText
  <2>2. Len(p) = Len(path)
    BY <1>1, <2>1
  <2>3. ~(Len(p) + 1 < Len(p))
    BY <2>1, <2>2
  <2> QED BY <1>3, <2>3 DEF Spilled, p
<1> QED BY <1>3, <1>4, <1>5, <1>6 DEF UpstreamPath, p

(* The parameters are told apart by their keys.                            *)
LEMMA QueryArrives ==
    ASSUME NEW query, query \in Seq({query[k] : k \in DOMAIN query}),
           \A j, k \in DOMAIN query : query[j].key = query[k].key => j = k
    PROVE  Parameters(query) = query
<1> DEFINE n == Len(query)
<1>1. n \in Nat /\ DOMAIN query = 1..n /\ query = [k \in 1..n |-> query[k]]
  OBVIOUS
<1>2. {k \in DOMAIN query : \A j \in 1..k - 1 : query[j].key # query[k].key} = 1..n
  BY <1>1
<1> HIDE DEF n
<1> QED BY <1>1, <1>2, AllItems DEF Parameters

-----------------------------------------------------------------------------
(* Where an exchange is, and what it remembers of the request: the body    *)
(* that was judged, who sent it, and of an answer whether it redirects to  *)
(* the site that served it.                                                *)
Passed(e) ==
    LET r == e.request
        body == GetRequestBody(r.body)
    IN  [host |-> AsSeenBySite(e.served), for |-> r.client,
         path |-> UpstreamPath(r.path), query |-> UpstreamQuery(r),
         bytes |-> body.bytes, encoding |-> body.encoding]

ForwardingInv ==
    /\ fronted \in BOOLEAN
    /\ ex.step \in {"inspected", "sent"} => /\ ex.request \in Requests
                                            /\ ex.ip = ex.request.client
    /\ In("inspected") =>
          ex.judged = Normalize(Read(GetRequestBody(ex.request.body).bytes, "none"))
    /\ In("sent") => ex.upstream = Passed(ex)
    /\ In("answered") /\ ex.toSelf => ex.location = AsSeenBySite(ex.served)
    /\ RedirectsStayBehindProxy

(* Behind a trusted proxy the last address is the one that proxy added.    *)
LEMMA ClientIsKnown ==
    ASSUME NEW r \in Requests, fronted \in BOOLEAN
    PROVE  GetClientIp(r) = r.client
<1> DEFINE S == {r.forged[k] : k \in DOMAIN r.forged}
           f == r.forged
<1>1. f \in Seq(S)
  BY RequestsType
<1> HIDE DEF S, f
<1>2. LET a == Append(f, r.client) IN a # <<>> /\ a[Len(a)] = r.client
  BY <1>1
<1> QED BY <1>2 DEF f, GetClientIp, ForwardedFor, Peer

(* The invariant holds initially ...                                       *)
LEMMA ForwardingInit == Init => ForwardingInv
BY FrontsType DEF Init, Idle, ForwardingInv, In, RedirectsStayBehindProxy

(* ... and every step keeps it.                                            *)
LEMMA ForwardingStep == ForwardingInv /\ [Next]_vars => ForwardingInv'
<1> SUFFICES ASSUME ForwardingInv, [Next]_vars PROVE ForwardingInv'
  OBVIOUS
<1> USE DEF ForwardingInv, RedirectsStayBehindProxy, In
<1>1. CASE Activate
  BY <1>1 DEF Activate
<1>2. CASE UNCHANGED vars
  BY <1>2 DEF vars
<1>3. ASSUME NEW r \in Requests, Inspect(r) PROVE ForwardingInv'
  <2>1. CASE BodyRaises(r.body)
    BY <1>3, <2>1 DEF Inspect
  <2>2. CASE ~BodyRaises(r.body)
    BY <1>3, <2>2, ClientIsKnown DEF Inspect
  <2> QED BY <2>1, <2>2
<1>4. CASE Send
  <2>1. /\ ex.step = "inspected" /\ UNCHANGED fronted
        /\ ex'.step = "sent" /\ ex'.request = ex.request /\ ex'.ip = ex.ip
        /\ ex'.served = ex.served
        /\ ex'.upstream = Passed(ex)
    BY <1>4 DEF Send, Passed
  <2>2. Passed(ex') = Passed(ex)
    BY <2>1 DEF Passed
  <2> QED BY <2>1, <2>2
<1>5. CASE Answer
  <2>1. PICK location \in {Relative, ex.upstream.host} \union Origins :
           ex' = [step |-> "answered", served |-> ex.served,
                  toSelf |-> location = ex.upstream.host, location |-> location]
    BY <1>5 DEF Answer
  <2>2. /\ ex.step = "sent" /\ UNCHANGED fronted
        /\ ex'.step = "answered" /\ ex'.served = ex.served
        /\ ex'.toSelf => ex'.location = ex.upstream.host
    BY <1>5, <2>1 DEF Answer
  <2>3. ex.upstream.host = AsSeenBySite(ex.served)
    BY <2>2 DEF Passed
  <2> QED BY <2>3, <2>2
<1>6. CASE Return
  <2>1. /\ ex.step = "answered" /\ UNCHANGED fronted
        /\ ex' = [ex EXCEPT !.step = "returned",
                            !.location = RewriteLocation(ex.location, ex.served)]
    BY <1>6 DEF Return
  <2> QED BY <2>1 DEF RewriteLocation
<1>7. CASE Close
  BY <1>7 DEF Close, Idle
<1> QED BY <1>1, <1>2, <1>3, <1>4, <1>5, <1>6, <1>7 DEF Next

-----------------------------------------------------------------------------
(* The invariant holds in every reachable state.                           *)
THEOREM ForwardingInvariant == Spec => []ForwardingInv
BY ForwardingInit, ForwardingStep, PTL DEF Spec

(* normalize() reaches the bottom of every mixture of encodings that is no *)
(* deeper than its rounds: the detectors judge what is sent in the clear.  *)
THEOREM TextIsSeen == Spec => []DetectorsSeeTheText
<1>1. ForwardingInv => DetectorsSeeTheText
  <2> SUFFICES ASSUME ForwardingInv, In("inspected"), Inflatable(ex.request.body),
                      Decodable(ex.request.body.text)
               PROVE  ex.judged = Normalize(FullyDecoded(ex.request.body.text))
    BY DEF DetectorsSeeTheText
  <2>1. /\ ex.request \in Requests /\ IsText(ex.request.body.text)
        /\ ex.request.body.packed = "none" => ex.request.body.fault = "ok"
    BY RequestsType DEF ForwardingInv, In
  <2>2. Read(GetRequestBody(ex.request.body).bytes, "none") = ex.request.body.text
    BY <2>1 DEF GetRequestBody, Read, Bytes, Inflatable
  <2> QED BY <2>1, <2>2, SameNormalForm DEF ForwardingInv
<1> QED BY <1>1, ForwardingInvariant, PTL

(* What the detectors judge is in normal form (normalize() is idempotent,  *)
(* as its comment demands), for texts without line breaks.                 *)
THEOREM NormalFormIsStable == Spec => []NormalFormStable
<1>1. ForwardingInv => NormalFormStable
  <2> SUFFICES ASSUME ForwardingInv, In("inspected"), Decodable(ex.request.body.text),
                      \A k \in DOMAIN ex.request.body.text : ex.request.body.text[k].c # "\n"
               PROVE  Normalize(ex.judged) = ex.judged
    BY DEF NormalFormStable
  <2> DEFINE read == Read(GetRequestBody(ex.request.body).bytes, "none")
  <2>1. ex.judged = Normalize(read) /\ ex.request \in Requests
    BY DEF ForwardingInv, In
  <2>2. read \in {ex.request.body.text, Unreadable}
    BY DEF Read, GetRequestBody, Bytes
  <2> HIDE DEF read
  <2>3. IsText(ex.request.body.text)
    BY <2>1, RequestsType
  <2>4. /\ IsText(Unreadable) /\ Decodable(Unreadable)
        /\ \A k \in DOMAIN Unreadable : Unreadable[k].c # "\n"
    <3>1. Unreadable = [k \in 1..1 |-> Plain("unreadable")]
      <4>1. \A x : <<x>> = [k \in 1..1 |-> x]
        OBVIOUS
      <4> QED BY <4>1 DEF Unreadable
    <3>2. /\ DOMAIN Unreadable = 1..1
          /\ \A k \in 1..1 : /\ Unreadable[k] = [c |-> "unreadable", d |-> 0]
                               /\ Unreadable[k].c = "unreadable" /\ Unreadable[k].d = 0
      BY <3>1 DEF Plain
    <3>3. Unreadable \in [1..1 -> {Unreadable[k] : k \in DOMAIN Unreadable}]
      BY <3>1, <3>2
    <3>4. Unreadable \in Seq({Unreadable[k] : k \in DOMAIN Unreadable})
      <4>1. \A S : [1..1 -> S] \subseteq Seq(S)
        OBVIOUS
      <4> QED BY <3>3, <4>1
    <3> HIDE DEF Unreadable
    <3> QED BY <3>2, <3>4, MaxRoundsNat DEF IsText, Decodable
  <2> QED BY <2>1, <2>2, <2>3, <2>4, NormalFormStays
<1> QED BY <1>1, ForwardingInvariant, PTL

(* The site reads the body, path and query the client meant (proxy(),      *)
(* get_request_body()).                                                    *)
THEOREM RequestsSurvive == Spec => []RequestSurvives
<1>1. ForwardingInv => RequestSurvives
  <2> SUFFICES ASSUME ForwardingInv, In("sent") PROVE RequestSurvives
    BY DEF RequestSurvives
  <2> DEFINE r == ex.request
             u == ex.upstream
  <2>1. /\ r \in Requests /\ IsText(r.path)
        /\ r.query \in Seq({r.query[k] : k \in DOMAIN r.query})
        /\ r.body.packed \in {"none", "gzip", "br"}
    BY RequestsType DEF ForwardingInv, In
  <2>2. /\ u.path = UpstreamPath(r.path) /\ u.query = UpstreamQuery(r)
        /\ u.bytes = GetRequestBody(r.body).bytes
        /\ u.encoding = GetRequestBody(r.body).encoding
    BY DEF ForwardingInv, Passed
  <2>3. r.body.packed # "br" => Read(u.bytes, u.encoding) = Read(r.body, r.body.packed)
    BY <2>1, <2>2 DEF GetRequestBody, Read, Bytes
  <2>4. SimplePath(r.path) => u.path = PathOf(r.path)
    BY <2>1, <2>2, PathArrives
  <2>5. SimplePath(r.path) /\ (\A j, k \in DOMAIN r.query :
                                  r.query[j].key = r.query[k].key => j = k)
           => u.query = r.query
    BY <2>1, <2>2, PathArrives, QueryArrives DEF UpstreamQuery
  <2> QED BY <2>3, <2>4, <2>5 DEF RequestSurvives
<1> QED BY <1>1, ForwardingInvariant, PTL

(* Nobody can pass for another client (get_client_ip()).                   *)
THEOREM IdentityIsOne == Spec => []OneIdentity
<1>1. ForwardingInv => OneIdentity
  BY DEF ForwardingInv, OneIdentity, In, Passed
<1> QED BY <1>1, ForwardingInvariant, PTL

(* rewrite_location_header() compares with the target that served the      *)
(* request, whichever is active by the time of the answer.                 *)
THEOREM RedirectsAreKept == Spec => []RedirectsStayBehindProxy
<1>1. ForwardingInv => RedirectsStayBehindProxy
  BY DEF ForwardingInv
<1> QED BY <1>1, ForwardingInvariant, PTL
=============================================================================

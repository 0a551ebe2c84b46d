---------------------------- MODULE StringsProofs ---------------------------
(* Decoding a string, writing it into the SQL and reading it there, for every *)
(* text the scanner can hand over.                                           *)
EXTENDS Strings, FiniteSetTheorems, WellFoundedInduction, SequenceTheorems, TLAPS

-----------------------------------------------------------------------------
(* Positions and recursion *)

\* A nonempty set of naturals has a first one.
LEMMA FirstExists ==
  ASSUME NEW H \in SUBSET Nat, H # {}
  PROVE  \E j \in H : \A m \in H : j <= m
<1> DEFINE Less == {pair \in Nat \X Nat : pair[1] < pair[2]}
<1>1. IsWellFoundedOn(Less, Nat)
  BY NatLessThanWellFounded DEF OpToRel
<1>2. PICK j \in H : \A m \in H : <<m, j>> \notin Less
  <2> HIDE DEF Less
  <2> QED  BY <1>1, WFMin
<1>3. \A m, n \in Nat : <<m, n>> \notin Less => n <= m
  OBVIOUS
<1> HIDE DEF Less
<1> QED  BY <1>2, <1>3

\* And one of positions a last: the first when counted from the other end.
LEMMA LastExists ==
  ASSUME NEW n \in Nat, NEW H \in SUBSET (1 .. n), H # {}
  PROVE  \E j \in H : \A m \in H : m <= j
<1> DEFINE G == {n - j : j \in H}
<1>1. PICK g \in G : \A h \in G : g <= h
  <2>1. \A j \in H : n - j \in Nat
    OBVIOUS
  <2>2. G \in SUBSET Nat /\ G # {}
    BY <2>1
  <2> HIDE DEF G
  <2> QED  BY <2>2, FirstExists
<1>2. PICK j \in H : g = n - j
  OBVIOUS
<1>3. \A m \in H : n - j <= n - m /\ m \in 1 .. n /\ j \in 1 .. n
  BY <1>1, <1>2
<1> QED  BY <1>3

\* Induction along positions: what holds of the first, and of each after one
\* of which it holds, holds of all.
LEMMA Induction ==
  ASSUME NEW n \in Nat, NEW S,
         n > 0 => 1 \in S,
         \A k \in 1 .. n - 1 : k \in S => k + 1 \in S
  PROVE  1 .. n \subseteq S
<1> SUFFICES ASSUME (1 .. n) \ S # {} PROVE FALSE
  OBVIOUS
<1>1. PICK j \in (1 .. n) \ S : \A m \in (1 .. n) \ S : j <= m
  <2>1. (1 .. n) \ S \in SUBSET Nat
    OBVIOUS
  <2> QED  BY <2>1, FirstExists
<1> QED  BY <1>1, j - 1 \in 0 .. n - 1, j - 1 \notin (1 .. n) \ S, j - 1 + 1 = j

\* Recursion: a rule G for the value at d, which looks at values of lower rank
\* only, is kept by some function.
IsRule(G, D, V, rank, N) ==
  /\ V # {} /\ N \in Nat /\ rank \in [D -> 1 .. N]
  /\ G \in [D \X [D -> V] -> V]
  /\ \A d \in D : \A f, h \in [D -> V] :
       (\A e \in D : rank[e] < rank[d] => f[e] = h[e]) => G[<<d, f>>] = G[<<d, h>>]
IsKept(G, D, V) == \E f \in [D -> V] : \A d \in D : f[d] = G[<<d, f>>]

\* What is defined by such a rule exists.
LEMMA Recursion ==
  \A G, D, V, rank, N : IsRule(G, D, V, rank, N) => IsKept(G, D, V)
<1> SUFFICES ASSUME NEW G, NEW D, NEW V, NEW rank, NEW N, IsRule(G, D, V, rank, N)
             PROVE  IsKept(G, D, V)
  OBVIOUS
<1> USE DEF IsRule
<1> DEFINE Kept(f, m) == \A d \in D : rank[d] <= m => f[d] = G[<<d, f>>]
           Missed == {m \in 0 .. N : ~ \E f \in [D -> V] : Kept(f, m)}
<1>1. ASSUME NEW m \in 0 .. N - 1, NEW f \in [D -> V], Kept(f, m)
      PROVE  \E h \in [D -> V] : Kept(h, m + 1)
  <2> DEFINE h == [d \in D |-> IF rank[d] <= m THEN f[d] ELSE G[<<d, f>>]]
  <2>1. /\ h \in [D -> V]
        /\ \A d \in D : rank[d] <= m => h[d] = f[d]
        /\ \A d \in D : rank[d] > m => h[d] = G[<<d, f>>]
        /\ \A d \in D : rank[d] \in 1 .. N
    OBVIOUS
  <2> HIDE DEF h
  <2>2. ASSUME NEW d \in D, rank[d] <= m + 1
        PROVE  h[d] = G[<<d, h>>]
    <3>1. \A e \in D : rank[e] < rank[d] => f[e] = h[e]
      BY <2>1, <2>2
    <3>2. G[<<d, f>>] = G[<<d, h>>]
      BY <2>1, <3>1
    <3> QED  BY <1>1, <2>1, <3>2
  <2> QED  BY <2>1, <2>2
<1>2. 0 \notin Missed
  <2>1. \A d \in D : ~(rank[d] <= 0)
    OBVIOUS
  <2>2. PICK v \in V : TRUE
    OBVIOUS
  <2>3. [d \in D |-> v] \in [D -> V]
    BY <2>2
  <2>4. \E f \in [D -> V] : Kept(f, 0)
    BY <2>1, <2>3
  <2> HIDE DEF Kept
  <2> QED  BY <2>4
<1>3. Missed = {}
  <2>1. SUFFICES ASSUME Missed # {} PROVE FALSE
    OBVIOUS
  <2>2. Missed \in SUBSET Nat
    OBVIOUS
  <2>3. PICK j \in Missed : \A m \in Missed : j <= m
    <3> HIDE DEF Missed
    <3> QED  BY <2>1, <2>2, FirstExists
  <2>4. j - 1 \in 0 .. N - 1 /\ j - 1 \notin Missed /\ j - 1 + 1 = j
    <3>1. j \in 1 .. N
      BY <1>2, <2>3
    <3>2. j - 1 \in 0 .. N - 1 /\ j - 1 + 1 = j /\ ~(j <= j - 1)
      BY <3>1
    <3> HIDE DEF Missed
    <3> QED  BY <2>3, <3>2
  <2> HIDE DEF Kept
  <2> QED  BY <1>1, <2>3, <2>4
<1>4. PICK f \in [D -> V] : Kept(f, N)
  <2> HIDE DEF Kept
  <2> QED  BY <1>3
<1> QED  BY <1>4 DEF IsKept


Decoded == Chars \cup {NL, "\t", "\r"}

\* The inductive invariant: what was written trails what was read, and what was
\* read ends before the closing quote.
IInv ==
  /\ TypeOK
  /\ room = Room(text, use)
  /\ use = "name" /\ pc = "decode" => out = <<>>
  /\ use # "name" => Len(out) <= i - 1
  /\ use = "name" => Len(out) <= Len(text) - 2

\* IInv holds before a character is read,
LEMMA InitIInv == Init => IInv
<1> SUFFICES ASSUME Init PROVE IInv  OBVIOUS
<1>1. PICK q \in {SQ, DQ, BT} :
        \E n \in 0 .. MaxChars : \E b \in [1 .. n -> Chars] : text = <<q>> \o b \o <<q>>
  BY DEF Init, Tokens
<1>2. PICK b \in Seq(Chars) : text = <<q>> \o b \o <<q>>
  <2>1. PICK n \in 0 .. MaxChars : \E b \in [1 .. n -> Chars] : text = <<q>> \o b \o <<q>>
    BY <1>1
  <2>2. n \in Nat
    <3>1. MaxChars \in Nat
      BY StringsAssumption
    <3> QED  BY <3>1, n \in 0 .. MaxChars
  <2> QED  BY <2>1, <2>2
<1>5. q \in Chars
  BY StringsAssumption
<1>3. text \in Seq(Chars) /\ Len(text) >= 2
  BY <1>2, <1>5
<1>4. room \in Nat
  BY <1>3 DEF Init, Room
<1> QED  BY <1>3, <1>4 DEF Init, IInv, TypeOK

\* every step keeps it,
LEMMA StepIInv == IInv /\ [Next]_vars => IInv'
<1> SUFFICES ASSUME IInv, [Next]_vars PROVE IInv'  OBVIOUS
<1> USE DEF IInv, TypeOK
<1>1. Len(text) \in Nat /\ Len(out) \in Nat /\ \A k \in 1 .. Len(text) : text[k] \in Chars
  OBVIOUS
<1>2. CASE DecodeChar
  <2>1. At(i) \in Decoded
    BY <1>1, <1>2 DEF DecodeChar, Decoding, At, Decoded
  <2>2. i + 1 < Len(text) - 1 => Unescaped(At(i + 1)) \in Decoded
    BY <1>1, <1>2 DEF DecodeChar, Decoding, At, Decoded, Unescaped
  <2>3. CASE At(i) = BS /\ i + 1 < Len(text) - 1
    <3>1. out' = Append(out, Unescaped(At(i + 1))) /\ i' = i + 2
      BY <1>2, <2>3 DEF DecodeChar
    <3>2. out' \in Seq(Decoded) /\ Len(out') = Len(out) + 1
      BY <2>2, <2>3, <3>1 DEF Decoded
    <3> QED  BY <1>1, <1>2, <2>3, <3>1, <3>2 DEF DecodeChar, Decoding, Decoded
  <2>4. CASE ~(At(i) = BS /\ i + 1 < Len(text) - 1)
    <3>1. out' = Append(out, At(i)) /\ i' = i + 1
      BY <1>2, <2>4 DEF DecodeChar
    <3>2. out' \in Seq(Decoded) /\ Len(out') = Len(out) + 1
      BY <2>1, <3>1 DEF Decoded
    <3> QED  BY <1>1, <1>2, <2>4, <3>1, <3>2 DEF DecodeChar, Decoding, Decoded
  <2> QED  BY <2>3, <2>4
<1>3. Opening \in Seq(Decoded) /\ Closing \in Seq(Decoded)
  <2>1. SQ \in Decoded /\ DQ \in Decoded /\ "%" \in Decoded
    BY StringsAssumption DEF Decoded
  <2>2. /\ <<DQ>> \in Seq(Decoded) /\ <<SQ>> \in Seq(Decoded)
        /\ <<SQ, "%">> \in Seq(Decoded) /\ <<"%", SQ>> \in Seq(Decoded)
    BY <2>1
  <2> QED  BY <2>2 DEF Opening, Closing
<1>4. CASE EndDecode
  BY <1>3, <1>4 DEF EndDecode, Decoded
<1>5. CASE Strip
  <2>1. out' = SubSeq(text, 2, Len(text) - 1)
    BY <1>5 DEF Strip
  <2>2. out' \in Seq(Chars) /\ Len(out') = Len(text) - 2
    <3>1. \A k \in 2 .. Len(text) - 1 : text[k] \in Chars
      BY <1>1
    <3>2. 2 \in Int /\ Len(text) - 1 \in Int
      BY <1>1
    <3>3. /\ SubSeq(text, 2, Len(text) - 1) \in Seq(Chars)
          /\ Len(SubSeq(text, 2, Len(text) - 1))
               = IF 2 <= Len(text) - 1 THEN Len(text) - 1 - 2 + 1 ELSE 0
      BY <3>1, <3>2, SubSeqProperties
    <3>4. (IF 2 <= Len(text) - 1 THEN Len(text) - 1 - 2 + 1 ELSE 0) = Len(text) - 2
      <4>1. \A n \in Nat :
              n >= 2 => (IF 2 <= n - 1 THEN n - 1 - 2 + 1 ELSE 0) = n - 2
        BY ONLY TRUE
      <4> QED  BY ONLY <1>1, <4>1, IInv, Zenon DEF IInv, TypeOK
    <3> QED  BY ONLY <2>1, <3>3, <3>4, Zenon
  <2>3. out' \in Seq(Decoded)
    BY <2>2 DEF Decoded
  <2> QED  BY <1>1, <1>3, <1>5, <2>2, <2>3 DEF Strip, Decoded
<1>6. CASE EmitChar
  <2>1. out[p] \in Decoded
    BY <1>1, <1>6 DEF EmitChar, Decoded
  <2>2. Written(out[p]) \in Seq(Decoded)
    <3>1. BS \in Decoded
      BY StringsAssumption DEF Decoded
    <3>2. \A c \in Decoded : <<BS, c>> \in Seq(Decoded) /\ <<c, c>> \in Seq(Decoded)
                            /\ <<c>> \in Seq(Decoded)
      BY <3>1
    <3> QED  BY <2>1, <3>2 DEF Written
  <2>3. sql' \in Seq(Decoded)
    BY <1>6, <2>2 DEF EmitChar, Decoded
  <2> QED  BY <1>1, <1>6, <2>3 DEF EmitChar, Decoded
<1>7. CASE EndEmit
  <2>1. sql' \in Seq(Decoded)
    BY <1>3, <1>7 DEF EndEmit, Decoded
  <2> QED  BY <1>7, <2>1 DEF EndEmit, Decoded
<1>8. CASE UNCHANGED vars
  BY <1>8 DEF vars
<1> QED  BY <1>2, <1>4, <1>5, <1>6, <1>7, <1>8 DEF Next

\* and it holds throughout.
LEMMA SpecIInv == Spec => []IInv
  BY InitIInv, StepIInv, PTL DEF Spec

\* The indices of the loops stay inside the text and the decoded string.
THEOREM StringsTypeCorrect == Spec => []TypeOK
<1>1. IInv => TypeOK
  BY DEF IInv
<1> QED  BY <1>1, SpecIInv, PTL

\* Whatever the scanner matched, decoding it and its NUL stay inside the block
\* allocated for them.
THEOREM DecodedFits == Spec => []StringFits
<1>1. IInv => StringFits
  BY DEF IInv, TypeOK, StringFits, Room
<1> QED  BY <1>1, SpecIInv, PTL
-----------------------------------------------------------------------------
(* What is decoded. *)

\* What the scanner's rule counts as escaped follows the recursion.
LEMMA EscapedIs ==
  ASSUME NEW X, NEW body \in Seq(X), NEW k \in 1 .. Len(body)
  PROVE  /\ Escaped(body)[k] = (k > 1 /\ body[k - 1] = BS /\ ~Escaped(body)[k - 1])
         /\ Escaped(body)[k] \in BOOLEAN
<1> DEFINE n == Len(body)
           rank == [j \in 1 .. n |-> j]
           G == [a \in (1 .. n) \X [1 .. n -> BOOLEAN] |->
                   a[1] > 1 /\ body[a[1] - 1] = BS /\ ~a[2][a[1] - 1]]
<1>1. n \in Nat /\ DOMAIN body = 1 .. n
  OBVIOUS
<1>2. G \in [(1 .. n) \X [1 .. n -> BOOLEAN] -> BOOLEAN]
  OBVIOUS
<1>3. \A j \in 1 .. n, f \in [1 .. n -> BOOLEAN] :
        G[<<j, f>>] = (j > 1 /\ body[j - 1] = BS /\ ~f[j - 1])
  OBVIOUS
<1>4. ASSUME NEW j \in 1 .. n, NEW f \in [1 .. n -> BOOLEAN], NEW h \in [1 .. n -> BOOLEAN],
             \A e \in 1 .. n : rank[e] < rank[j] => f[e] = h[e]
      PROVE  G[<<j, f>>] = G[<<j, h>>]
  <2>1. j > 1 => f[j - 1] = h[j - 1]
    BY <1>1, <1>4
  <2> HIDE DEF G
  <2> QED  BY <1>3, <2>1
<1>5. rank \in [1 .. n -> 1 .. n]
  OBVIOUS
<1>6. IsRule(G, 1 .. n, BOOLEAN, rank, n)
  <2> HIDE DEF G, rank, n
  <2> QED  BY <1>1, <1>2, <1>4, <1>5 DEF IsRule
<1>7. PICK f \in [1 .. n -> BOOLEAN] : \A j \in 1 .. n : f[j] = G[<<j, f>>]
  <2> HIDE DEF G, rank, n
  <2>1. IsKept(G, 1 .. n, BOOLEAN)
    BY <1>6, Recursion
  <2> QED  BY <2>1 DEF IsKept
<1>8. f = [j \in DOMAIN body |-> j > 1 /\ body[j - 1] = BS /\ ~f[j - 1]]
  <2>1. \A j \in 1 .. n : f[j] = (j > 1 /\ body[j - 1] = BS /\ ~f[j - 1])
    <3> HIDE DEF G
    <3> QED  BY <1>3, <1>7
  <2> QED  BY <1>1, <2>1
<1>9. Escaped(body) = [j \in DOMAIN body |->
                         j > 1 /\ body[j - 1] = BS /\ ~Escaped(body)[j - 1]]
  BY <1>8 DEF Escaped
<1> QED  BY <1>1, <1>9

\* The characters of the body that are left after decoding, up to n, and what
\* each of them is decoded to.
Kept(body, n) == {l \in 1 .. n : l \in DOMAIN body /\ (Escaped(body)[l] \/ body[l] # BS)}
Value(body, l) == IF Escaped(body)[l] THEN Unescaped(body[l]) ELSE body[l]

\* The string s is what is left of the body up to n.
IsDecoded(s, body, n) ==
  /\ Len(s) = Cardinality(Kept(body, n))
  /\ \A l \in Kept(body, n) : s[Cardinality(Kept(body, l))] = Value(body, l)

\* The characters kept are finitely many,
LEMMA KeptFinite ==
  ASSUME NEW body, NEW n \in Nat
  PROVE  IsFiniteSet(Kept(body, n)) /\ Cardinality(Kept(body, n)) \in Nat
<1>1. IsFiniteSet(1 .. n) /\ Kept(body, n) \subseteq 1 .. n
  BY FS_Interval DEF Kept
<1> QED  BY <1>1, FS_Subset, FS_CardinalityType

\* and what is kept of a beginning is kept of a longer one.
LEMMA KeptGrows ==
  ASSUME NEW body, NEW m \in Nat, NEW n \in Nat, m <= n
  PROVE  /\ Kept(body, m) \subseteq Kept(body, n)
         /\ Cardinality(Kept(body, m)) <= Cardinality(Kept(body, n))
<1>1. 1 .. m \subseteq 1 .. n
  OBVIOUS
<1>2. Kept(body, m) \subseteq Kept(body, n)
  BY <1>1 DEF Kept
<1> QED  BY <1>2, KeptFinite, FS_Subset

\* A kept character, after some that are not, is the next one of the string.
LEMMA DecodeOne ==
  ASSUME NEW X, NEW s \in Seq(X), NEW body, NEW m \in Nat, NEW n \in Nat, m < n,
         n \in Kept(body, n), NEW c \in X, c = Value(body, n),
         \A l \in m + 1 .. n - 1 : l \notin Kept(body, n),
         IsDecoded(s, body, m)
  PROVE  IsDecoded(Append(s, c), body, n)
<1>1. Kept(body, n) = Kept(body, m) \cup {n}
  <2>1. \A l \in 1 .. n : l \in 1 .. m \/ l \in m + 1 .. n - 1 \/ l = n
    OBVIOUS
  <2>2. 1 .. m \subseteq 1 .. n /\ n \in 1 .. n
    OBVIOUS
  <2> QED  BY <2>1, <2>2 DEF Kept
<1>2. n \notin Kept(body, m)
  BY DEF Kept
<1>3. Cardinality(Kept(body, n)) = Cardinality(Kept(body, m)) + 1
  BY <1>1, <1>2, KeptFinite, FS_AddElement
<1>4. Len(s) \in Nat /\ Len(s) = Cardinality(Kept(body, m))
  BY DEF IsDecoded
<1>5. ASSUME NEW l \in Kept(body, m)
      PROVE  Cardinality(Kept(body, l)) \in 1 .. Len(s)
  <2>1. l \in Nat /\ l <= m /\ l \in Kept(body, l)
    BY DEF Kept
  <2>2. Cardinality(Kept(body, l)) <= Len(s)
    BY <1>4, <2>1, KeptGrows
  <2>3. Cardinality(Kept(body, l)) # 0
    BY <2>1, KeptFinite, FS_EmptySet
  <2> QED  BY <2>1, <2>2, <2>3, <1>4, KeptFinite
<1>6. /\ Len(Append(s, c)) = Len(s) + 1
      /\ \A j \in 1 .. Len(s) : Append(s, c)[j] = s[j]
      /\ Append(s, c)[Len(s) + 1] = c
  OBVIOUS
<1>7. ASSUME NEW l \in Kept(body, n)
      PROVE  Append(s, c)[Cardinality(Kept(body, l))] = Value(body, l)
  <2>1. CASE l = n
    BY <1>3, <1>4, <1>6, <2>1
  <2>2. CASE l # n
    <3>1. l \in Kept(body, m)
      BY <1>1, <2>2
    <3> QED  BY <1>5, <1>6, <3>1 DEF IsDecoded
  <2> QED  BY <2>1, <2>2
<1> QED  BY <1>3, <1>4, <1>6, <1>7 DEF IsDecoded
-----------------------------------------------------------------------------
Body == SubSeq(text, 2, Len(text) - 1)

\* The invariant of decode_string: it stands at the start of a character or of
\* an escape, and has written what is left of the text before.
DecodeInv ==
  use # "name" =>
    /\ Body # <<>> => Escaped(Body)[Len(Body)] \/ Body[Len(Body)] # BS
    /\ IsDecoded(out, Body, i - 1)
    /\ i <= Len(Body) => ~Escaped(Body)[i]
    /\ pc # "decode" => i = Len(Body) + 1

\* The characters between a literal's quotes.
LEMMA BodyIs ==
  ASSUME TypeOK
  PROVE  /\ Body \in Seq(Chars) /\ Len(Body) = Len(text) - 2
         /\ Len(text) \in Nat /\ Len(text) >= 2
         /\ \A k \in 1 .. Len(Body) : Body[k] = text[k + 1] /\ Body[k] = At(k)
<1>1. /\ text \in Seq(Chars) /\ Len(text) \in Nat /\ Len(text) >= 2
      /\ \A k \in 1 .. Len(text) : text[k] \in Chars
  BY DEF TypeOK
<1>2. \A k \in 2 .. Len(text) - 1 : text[k] \in Chars
  BY <1>1
<1>3. 2 \in Int /\ Len(text) - 1 \in Int
  BY <1>1
<1>4. /\ Body \in Seq(Chars)
      /\ Len(Body) = IF 2 <= Len(text) - 1 THEN Len(text) - 1 - 2 + 1 ELSE 0
      /\ \A k \in 1 .. Len(text) - 1 - 2 + 1 : Body[k] = text[2 + k - 1]
  BY <1>2, <1>3, SubSeqProperties DEF Body
<1>5. Len(Body) = Len(text) - 2
  <2>1. \A n \in Nat : n >= 2 => (IF 2 <= n - 1 THEN n - 1 - 2 + 1 ELSE 0) = n - 2
    OBVIOUS
  <2> QED  BY <1>1, <1>4, <2>1
<1>6. ASSUME NEW k \in 1 .. Len(Body)
      PROVE  Body[k] = text[k + 1]
  <2>1. k \in 1 .. Len(text) - 1 - 2 + 1 /\ 2 + k - 1 = k + 1
    BY <1>1, <1>5
  <2> QED  BY <1>4, <2>1
<1> QED  BY <1>1, <1>4, <1>5, <1>6 DEF At

\* What was decoded is what was read, to begin with,
LEMMA InitDecode == Init => DecodeInv
<1> SUFFICES ASSUME Init, use # "name" PROVE DecodeInv  BY DEF DecodeInv
<1>1. PICK q \in {SQ, DQ}, b \in UNION {[1 .. n -> Chars] : n \in 0 .. MaxChars} :
        text = <<q>> \o b \o <<q>> /\ IsString(b, q)
  BY DEF Init, Tokens
<1>2. b \in Seq(Chars) /\ q \in Chars
  <2>1. PICK n \in 0 .. MaxChars : b \in [1 .. n -> Chars]
    OBVIOUS
  <2>2. MaxChars \in Nat /\ SQ \in Chars /\ DQ \in Chars
    BY StringsAssumption
  <2>3. n \in Nat
    BY <2>2
  <2> QED  BY <2>1, <2>2, <2>3
<1>3. Body = b
  <2>1. TypeOK
    BY InitIInv DEF IInv
  <2>2. /\ Len(text) = Len(b) + 2 /\ Len(b) \in Nat
        /\ \A k \in 1 .. Len(b) : text[k + 1] = b[k]
    <3>1. <<q>> \in Seq(Chars) /\ Len(<<q>>) = 1
      BY <1>2
    <3>2. /\ <<q>> \o b \in Seq(Chars) /\ Len(<<q>> \o b) = Len(b) + 1
          /\ \A k \in 1 .. Len(b) : (<<q>> \o b)[k + 1] = b[k]
      BY <1>2, <3>1
    <3> HIDE DEF Tokens
    <3>3. /\ Len((<<q>> \o b) \o <<q>>) = Len(b) + 2
          /\ \A k \in 1 .. Len(b) : ((<<q>> \o b) \o <<q>>)[k + 1] = b[k]
      BY <1>2, <3>1, <3>2
    <3> QED  BY <1>1, <1>2, <3>3
  <2>3. Len(Body) = Len(b) /\ \A k \in 1 .. Len(b) : Body[k] = b[k]
    BY <2>1, <2>2, BodyIs
  <2> QED  BY <1>2, <2>1, <2>3, BodyIs, SeqEqual
<1>4. b # <<>> => Escaped(b)[Len(b)] \/ b[Len(b)] # BS
  BY <1>1 DEF IsString
<1>5. IsDecoded(<<>>, b, 0)
  <2>1. Kept(b, 0) = {}
    BY DEF Kept
  <2> QED  BY <2>1, FS_EmptySet DEF IsDecoded
<1>6. 1 <= Len(b) => ~Escaped(b)[1]
  BY <1>2, EscapedIs
<1> QED  BY <1>3, <1>4, <1>5, <1>6 DEF Init, DecodeInv

\* and after each step.
LEMMA StepDecode == IInv /\ DecodeInv /\ [Next]_vars => DecodeInv'
<1> SUFFICES ASSUME IInv, DecodeInv, [Next]_vars, use' # "name" PROVE DecodeInv'
  BY DEF DecodeInv
<1>1. text' = text /\ use' = use /\ Body' = Body /\ use # "name"
  BY DEF Next, vars, DecodeChar, EndDecode, Strip, EmitChar, EndEmit, Body
<1>2. /\ Body \in Seq(Chars) /\ Len(Body) = Len(text) - 2 /\ Len(Body) \in Nat
      /\ \A k \in 1 .. Len(Body) : Body[k] = At(k) /\ Body[k] \in Chars
      /\ i \in 1 .. Len(Body) + 1 /\ out \in Seq(Decoded)
  <2>1. TypeOK
    BY DEF IInv
  <2>2. i \in 1 .. Len(text) - 1 /\ out \in Seq(Decoded)
    BY <2>1 DEF TypeOK, Decoded
  <2> QED  BY <2>1, <2>2, BodyIs
<1>3. CASE out' = out /\ i' = i /\ (pc' = "decode" => pc = "decode")
           /\ (pc' # "decode" /\ pc = "decode" => i = Len(Body) + 1)
  BY <1>1, <1>3 DEF DecodeInv
<1>4. CASE DecodeChar
  <2>1. /\ pc = "decode" /\ pc' = pc /\ i < Len(text) - 1 /\ i \in 1 .. Len(Body)
    BY <1>2, <1>4 DEF DecodeChar, Decoding
  <2>2. ~Escaped(Body)[i] /\ IsDecoded(out, Body, i - 1) /\ At(i) = Body[i]
    BY <1>1, <1>2, <2>1 DEF DecodeInv
  <2>3. CASE Body[i] = BS
    <3>1. i # Len(Body)
      <4>1. Body # <<>>
        BY <1>2, <2>1
      <4> QED  BY <1>1, <2>2, <2>3, <4>1 DEF DecodeInv
    <3>2. i + 1 \in 1 .. Len(Body) /\ i + 1 < Len(text) - 1
      BY <1>2, <2>1, <3>1
    <3>3. out' = Append(out, Unescaped(At(i + 1))) /\ i' = i + 2
      BY <1>4, <2>2, <2>3, <3>2 DEF DecodeChar
    <3>4. Escaped(Body)[i + 1]
      BY <1>2, <2>1, <2>2, <2>3, <3>2, EscapedIs
    <3>5. Value(Body, i + 1) = Unescaped(At(i + 1))
      BY <1>2, <3>2, <3>4 DEF Value
    <3>6. i + 1 \in Kept(Body, i + 1)
      BY <1>2, <3>2, <3>4 DEF Kept
    <3>7. \A l \in i .. i : l \notin Kept(Body, i + 1)
      BY <2>2, <2>3 DEF Kept
    <3>8. Unescaped(At(i + 1)) \in Decoded
      BY <1>2, <3>2 DEF Unescaped, Decoded
    <3>9. IsDecoded(out', Body, i + 1)
      <4>1. i - 1 \in Nat /\ i + 1 \in Nat /\ i - 1 < i + 1
            /\ (i - 1) + 1 = i /\ (i + 1) - 1 = i
        BY <2>1
      <4> QED  BY <1>2, <2>2, <3>3, <3>5, <3>6, <3>7, <3>8, <4>1, DecodeOne
    <3>10. i + 2 <= Len(Body) => ~Escaped(Body)[i + 2]
      <4>1. SUFFICES ASSUME i + 2 <= Len(Body) PROVE ~Escaped(Body)[i + 2]
        OBVIOUS
      <4>2. i + 2 \in 1 .. Len(Body) /\ (i + 2) - 1 = i + 1
        BY <2>1, <4>1
      <4> QED  BY <1>2, <3>4, <4>2, EscapedIs
    <3>11. i' - 1 = i + 1
      BY <2>1, <3>3
    <3> QED  BY <1>1, <2>1, <3>3, <3>9, <3>10, <3>11 DEF DecodeInv
  <2>4. CASE Body[i] # BS
    <3>1. out' = Append(out, Body[i]) /\ i' = i + 1
      BY <1>4, <2>2, <2>4 DEF DecodeChar
    <3>2. Value(Body, i) = Body[i] /\ Body[i] \in Decoded
      BY <1>2, <2>1, <2>2 DEF Value, Decoded
    <3>3. i \in Kept(Body, i)
      BY <1>2, <2>1, <2>4 DEF Kept
    <3>4. IsDecoded(out', Body, i)
      <4>1. i - 1 \in Nat /\ i \in Nat /\ i - 1 < i /\ (i - 1) + 1 .. i - 1 = {}
        BY <2>1
      <4> QED  BY <1>2, <2>2, <3>1, <3>2, <3>3, <4>1, DecodeOne
    <3>5. i + 1 <= Len(Body) => ~Escaped(Body)[i + 1]
      <4>1. SUFFICES ASSUME i + 1 <= Len(Body) PROVE ~Escaped(Body)[i + 1]
        OBVIOUS
      <4>2. i + 1 \in 1 .. Len(Body) /\ (i + 1) - 1 = i
        BY <2>1, <4>1
      <4> QED  BY <1>2, <2>4, <4>2, EscapedIs
    <3>6. i' - 1 = i
      BY <2>1, <3>1
    <3> QED  BY <1>1, <2>1, <3>1, <3>4, <3>5, <3>6 DEF DecodeInv
  <2> QED  BY <2>3, <2>4
<1>5. CASE EndDecode
  <2>1. i = Len(Body) + 1
    BY <1>2, <1>5 DEF EndDecode
  <2> QED  BY <1>3, <1>5, <2>1 DEF EndDecode
<1>6. CASE Strip
  BY <1>1, <1>6 DEF Strip
<1>7. CASE EmitChar \/ EndEmit \/ UNCHANGED vars
  <2>1. out' = out /\ i' = i /\ (pc' = "decode" => pc = "decode")
        /\ ~(pc' # "decode" /\ pc = "decode")
    BY <1>7 DEF EmitChar, EndEmit, vars
  <2> QED  BY <1>3, <2>1
<1> QED  BY <1>4, <1>5, <1>6, <1>7 DEF Next

\* decode_string returns the string the scanner's rule matched, for texts of
\* any length.
THEOREM DecodesWhatMatched == Spec => []DecodedAsMatched
<1>1. IInv /\ DecodeInv => DecodedAsMatched
  <2> SUFFICES ASSUME IInv, DecodeInv, pc # "decode", use # "name"
               PROVE  DecodedAsMatched
    BY DEF DecodedAsMatched
  <2> DEFINE kept == {l \in DOMAIN Body : Escaped(Body)[l] \/ Body[l] # BS}
  <2>1. IsDecoded(out, Body, Len(Body)) /\ DOMAIN Body = 1 .. Len(Body)
        /\ Len(Body) \in Nat
    BY BodyIs DEF IInv, DecodeInv
  <2>2. kept = Kept(Body, Len(Body))
    BY <2>1 DEF Kept
  <2>3. ASSUME NEW n \in kept
        PROVE  {l \in kept : l <= n} = Kept(Body, n)
    <3>1. n \in 1 .. Len(Body)
      BY <2>1
    <3>2. \A l : l \in 1 .. n <=> l \in 1 .. Len(Body) /\ l <= n
      BY <2>1, <3>1
    <3> QED  BY <2>1, <3>2 DEF Kept
  <2>4. /\ Len(out) = Cardinality(kept)
        /\ \A n \in kept : out[Cardinality({l \in kept : l <= n})]
             = IF Escaped(Body)[n] THEN Unescaped(Body[n]) ELSE Body[n]
    <3> HIDE DEF kept
    <3> QED  BY <2>1, <2>2, <2>3 DEF IsDecoded, Value
  <2> QED  BY <2>4 DEF DecodedAsMatched, Body
<1> QED  BY <1>1, InitDecode, StepDecode, SpecIInv, PTL DEF Spec

-----------------------------------------------------------------------------
(* What SQLite computes, as equations: the recursion of each definition has a *)
(* solution, so it is one.                                                   *)

Begins(s, q) ==
  s \in Seq(Decoded) /\ Len(q) <= Len(s) /\ \A k \in 1 .. Len(q) : s[k] = q[k]

\* What QuoteEnd, Dequoted and Like compute, as equations.
IsEnds(f, s) ==
  \A k \in 2 .. Len(s) + 2 :
    f[k] = IF k > Len(s) THEN 0
           ELSE IF s[k] # s[1] THEN f[k + 1]
           ELSE IF k < Len(s) /\ s[k + 1] = s[1] THEN f[k + 2] ELSE k
IsValues(f, s) ==
  /\ f \in [2 .. Len(s) + 2 -> Seq(Decoded)]
  /\ \A k \in 2 .. Len(s) + 2 :
       f[k] = IF k >= Len(s) THEN <<>>
              ELSE <<s[k]>> \o f[IF s[k] = s[1] THEN k + 2 ELSE k + 1]
LikeRule(f, pattern, value, j, k) ==
  IF j > Len(pattern) THEN k > Len(value)
  ELSE IF pattern[j] = "%"
  THEN f[<<j + 1, k>>] \/ (k <= Len(value) /\ f[<<j, k + 1>>])
  ELSE IF k > Len(value) THEN FALSE
  ELSE IF pattern[j] = BS
  THEN j < Len(pattern) /\ pattern[j + 1] = value[k] /\ f[<<j + 2, k + 1>>]
  ELSE pattern[j] \in {"_", value[k]} /\ f[<<j + 1, k + 1>>]

IsLike(f, pattern, value) ==
  /\ f \in [(1 .. Len(pattern) + 1) \X (1 .. Len(value) + 1) -> BOOLEAN]
  /\ \A j \in 1 .. Len(pattern) + 1, k \in 1 .. Len(value) + 1 :
       f[<<j, k>>] = LikeRule(f, pattern, value, j, k)

\* The end of a quoted token is found by a function of the position.
LEMMA QuoteEndIs ==
  ASSUME NEW s \in Seq(Decoded)
  PROVE  \E f : IsEnds(f, s) /\ QuoteEnd(s) = f[2]
<1> DEFINE n == Len(s)
           D == 2 .. n + 2
           rank == [k \in D |-> n + 3 - k]
           G == [a \in D \X [D -> Nat] |->
                   IF a[1] > n THEN 0
                   ELSE IF s[a[1]] # s[1] THEN a[2][a[1] + 1]
                   ELSE IF a[1] < n /\ s[a[1] + 1] = s[1] THEN a[2][a[1] + 2] ELSE a[1]]
<1>1. n \in Nat
  OBVIOUS
<1>2. \A k \in D, f \in [D -> Nat] :
        G[<<k, f>>] = IF k > n THEN 0
                      ELSE IF s[k] # s[1] THEN f[k + 1]
                      ELSE IF k < n /\ s[k + 1] = s[1] THEN f[k + 2] ELSE k
  OBVIOUS
<1>3. /\ \A k \in D : k \in Nat /\ (k <= n => k + 1 \in D) /\ (k < n => k + 2 \in D)
      /\ 2 \in D
  BY <1>1
<1>4. G \in [D \X [D -> Nat] -> Nat]
  <2>1. ASSUME NEW k \in D, NEW f \in [D -> Nat]
        PROVE  (IF k > n THEN 0
                ELSE IF s[k] # s[1] THEN f[k + 1]
                ELSE IF k < n /\ s[k + 1] = s[1] THEN f[k + 2] ELSE k) \in Nat
    <3> HIDE DEF D
    <3>1. k > n \/ k <= n
      BY <1>1, <1>3
    <3> HIDE DEF n
    <3> QED  BY <1>3, <3>1
  <2> HIDE DEF D, n
  <2> QED  BY <2>1
<1>5. ASSUME NEW k \in D, NEW f \in [D -> Nat], NEW h \in [D -> Nat],
             \A e \in D : rank[e] < rank[k] => f[e] = h[e]
      PROVE  G[<<k, f>>] = G[<<k, h>>]
  <2>1. /\ k <= n => f[k + 1] = h[k + 1]
        /\ k < n => f[k + 2] = h[k + 2]
    <3>1. \A e \in D : e > k => rank[e] < rank[k]
      BY <1>1
    <3>2. k + 1 > k /\ k + 2 > k
      BY <1>3
    <3> HIDE DEF D, rank, n
    <3> QED  BY <1>3, <1>5, <3>1, <3>2
  <2>2. k > n \/ k <= n
    BY <1>1, <1>3
  <2> HIDE DEF G, D, n
  <2> QED  BY <1>2, <2>1, <2>2, SMTT(30)
<1>6. rank \in [D -> 1 .. n + 1] /\ n + 1 \in Nat
  BY <1>1
<1>7. IsRule(G, D, Nat, rank, n + 1)
  <2>1. Nat # {}
    OBVIOUS
  <2> HIDE DEF G, rank, n, D
  <2> QED  BY <1>4, <1>5, <1>6, <2>1 DEF IsRule
<1>8. PICK f \in [D -> Nat] : \A k \in D : f[k] = G[<<k, f>>]
  <2> HIDE DEF G, rank, n, D
  <2>1. IsKept(G, D, Nat)
    BY <1>7, Recursion
  <2> QED  BY <2>1 DEF IsKept
<1>9. f = [k \in D |-> IF k > n THEN 0
                       ELSE IF s[k] # s[1] THEN f[k + 1]
                       ELSE IF k < n /\ s[k + 1] = s[1] THEN f[k + 2] ELSE k]
  <2> HIDE DEF G, n, D
  <2>1. ASSUME NEW k \in D
        PROVE  f[k] = IF k > n THEN 0
                      ELSE IF s[k] # s[1] THEN f[k + 1]
                      ELSE IF k < n /\ s[k + 1] = s[1] THEN f[k + 2] ELSE k
    <3>1. f[k] = G[<<k, f>>]
      BY <1>8
    <3> QED  BY <1>2, <3>1
  <2> QED  BY <2>1
<1> DEFINE Solves(g) == g = [k \in 2 .. Len(s) + 2 |->
                               IF k > Len(s) THEN 0
                               ELSE IF s[k] # s[1] THEN g[k + 1]
                               ELSE IF k < Len(s) /\ s[k + 1] = s[1] THEN g[k + 2] ELSE k]
           c == CHOOSE g : Solves(g)
<1>10. Solves(f)
  BY <1>9
<1>11. Solves(c)
  <2> HIDE DEF Solves
  <2> QED  BY <1>10
<1>12. QuoteEnd(s) = c[2]
  BY DEF QuoteEnd
<1>13. IsEnds(c, s)
  <2> HIDE DEF c
  <2> QED  BY <1>11 DEF IsEnds
<1> QED  BY <1>12, <1>13

\* The same of what the token stands for.
LEMMA DequotedIs ==
  ASSUME NEW s \in Seq(Decoded)
  PROVE  \E f : IsValues(f, s) /\ Dequoted(s) = f[2]
<1> DEFINE n == Len(s)
           D == 2 .. n + 2
           V == Seq(Decoded)
           rank == [k \in D |-> n + 3 - k]
           After(k) == IF s[k] = s[1] THEN k + 2 ELSE k + 1
           G == [a \in D \X [D -> V] |->
                   IF a[1] >= n THEN <<>> ELSE <<s[a[1]]>> \o a[2][After(a[1])]]
<1>1. n \in Nat /\ \A k \in 1 .. n : s[k] \in Decoded
  OBVIOUS
<1>2. \A k \in D, f \in [D -> V] :
        G[<<k, f>>] = IF k >= n THEN <<>> ELSE <<s[k]>> \o f[After(k)]
  OBVIOUS
<1>3. \A k \in D : /\ k \in Nat
                   /\ k < n \/ k >= n
                   /\ k < n => After(k) \in D /\ After(k) > k /\ s[k] \in Decoded
  BY <1>1
<1>4. G \in [D \X [D -> V] -> V]
  <2>1. ASSUME NEW k \in D, NEW f \in [D -> V]
        PROVE  (IF k >= n THEN <<>> ELSE <<s[k]>> \o f[After(k)]) \in V
    <3>1. CASE k < n
      <4>1. After(k) \in D /\ s[k] \in Decoded
        BY <1>3, <3>1
      <4> HIDE DEF D, After
      <4>2. f[After(k)] \in V
        BY <4>1
      <4>3. <<s[k]>> \o f[After(k)] \in V
        BY <4>1, <4>2
      <4> HIDE DEF V
      <4> QED  BY <1>3, <3>1, <4>3
    <3>2. CASE k >= n
      BY <3>2
    <3> QED  BY <1>3, <3>1, <3>2
  <2> HIDE DEF D, V, n, After
  <2> QED  BY <2>1
<1>5. ASSUME NEW k \in D, NEW f \in [D -> V], NEW h \in [D -> V],
             \A e \in D : rank[e] < rank[k] => f[e] = h[e]
      PROVE  G[<<k, f>>] = G[<<k, h>>]
  <2>1. k < n => f[After(k)] = h[After(k)]
    <3>1. \A e \in D : e > k => rank[e] < rank[k]
      BY <1>1
    <3> HIDE DEF D, rank, n, After
    <3> QED  BY <1>3, <1>5, <3>1
  <2> HIDE DEF G, D, n, After, V
  <2> QED  BY <1>2, <1>3, <2>1
<1>6. rank \in [D -> 1 .. n + 1] /\ n + 1 \in Nat
  BY <1>1
<1>7. IsRule(G, D, V, rank, n + 1)
  <2>1. V # {}
    OBVIOUS
  <2> HIDE DEF G, rank, n, D, V
  <2> QED  BY <1>4, <1>5, <1>6, <2>1 DEF IsRule
<1>8. PICK f \in [D -> V] : \A k \in D : f[k] = G[<<k, f>>]
  <2> HIDE DEF G, rank, n, D, V
  <2>1. IsKept(G, D, V)
    BY <1>7, Recursion
  <2> QED  BY <2>1 DEF IsKept
<1> DEFINE Solves(g) == g = [k \in 2 .. Len(s) + 2 |->
                               IF k >= Len(s) THEN <<>>
                               ELSE <<s[k]>> \o g[IF s[k] = s[1] THEN k + 2 ELSE k + 1]]
           c == CHOOSE g : Solves(g)
<1>9. ASSUME NEW g \in [D -> V], \A k \in D : g[k] = G[<<k, g>>]
      PROVE  Solves(g)
  <2> HIDE DEF G, n, D, V
  <2>1. ASSUME NEW k \in D
        PROVE  g[k] = IF k >= n THEN <<>>
                      ELSE <<s[k]>> \o g[IF s[k] = s[1] THEN k + 2 ELSE k + 1]
    <3>1. g[k] = G[<<k, g>>]
      BY <1>9
    <3> QED  BY <1>2, <3>1
  <2> QED  BY <2>1 DEF D, n
<1>10. Solves(f)
  <2> HIDE DEF Solves, G, D, V
  <2> QED  BY <1>8, <1>9
<1>11. Solves(c)
  <2> HIDE DEF Solves
  <2> QED  BY <1>10
<1>12. Dequoted(s) = c[2]
  BY DEF Dequoted
<1>13. \A k \in D : c[k] = IF k >= n THEN <<>> ELSE <<s[k]>> \o c[After(k)]
  <2> HIDE DEF c
  <2> QED  BY <1>11
<1>14. \A k \in D : c[k] \in V
  <2> DEFINE H == {k \in 1 .. n + 2 : k >= 2 /\ c[k] \notin V}
  <2>1. SUFFICES ASSUME H # {} PROVE FALSE
    <3>1. \A k \in D : k \in 1 .. n + 2 /\ k >= 2
      BY <1>1
    <3> HIDE DEF D, c, V, n
    <3> QED  BY <3>1
  <2>2. PICK j \in H : \A m \in H : m <= j
    <3>1. H \in SUBSET (1 .. n + 2) /\ n + 2 \in Nat
      BY <1>1
    <3> HIDE DEF H, n
    <3> QED  BY <2>1, <3>1, LastExists
  <2>3. j \in D /\ c[j] \notin V
    BY <1>1, <2>2
  <2>4. CASE j >= n
    <3>1. <<>> \in V
      OBVIOUS
    <3> HIDE DEF c, D, n, V, After
    <3> QED  BY <1>13, <2>3, <2>4, <3>1
  <2>5. CASE j < n
    <3>1. After(j) \in D /\ After(j) > j /\ s[j] \in Decoded
      BY <1>3, <2>3, <2>5
    <3>2. After(j) \notin H
      <4>1. ~(After(j) <= j)
        BY <3>1, <1>3, <2>3
      <4> QED  BY <2>2, <4>1
    <3>3. c[After(j)] \in V
      <4> HIDE DEF c, V, After
      <4> QED  BY <3>1, <3>2, <1>1
    <3>4. <<s[j]>> \o c[After(j)] \in V
      <4> HIDE DEF c, After
      <4> QED  BY <3>1, <3>3
    <3>5. ~(j >= n)
      BY <1>3, <2>3, <2>5
    <3> HIDE DEF c, D, n, V, After
    <3> QED  BY <1>13, <2>3, <3>4, <3>5
  <2> QED  BY <1>3, <2>3, <2>4, <2>5
<1>15. c \in [D -> V]
  <2>1. c = [k \in D |-> IF k >= n THEN <<>>
                          ELSE <<s[k]>> \o c[IF s[k] = s[1] THEN k + 2 ELSE k + 1]]
    <3> HIDE DEF c
    <3> QED  BY <1>11
  <2> HIDE DEF c, V, D
  <2> QED  BY <1>14, <2>1
<1>16. IsValues(c, s)
  <2> HIDE DEF c
  <2> QED  BY <1>13, <1>15 DEF IsValues
<1> QED  BY <1>12, <1>16

\* LIKE is the function of two positions that obeys its rule.
LEMMA LikeIs ==
  ASSUME NEW P \in Seq(Decoded), NEW v \in Seq(Decoded)
  PROVE  \E f : IsLike(f, P, v) /\ Like(P, v) = f[<<1, 1>>]
<1> DEFINE m == Len(P)
           n == Len(v)
           D == (1 .. m + 1) \X (1 .. n + 1)
           rank == [d \in D |-> (m + 1 - d[1]) + (n + 1 - d[2]) + 1]
           G == [a \in D \X [D -> BOOLEAN] |-> LikeRule(a[2], P, v, a[1][1], a[1][2])]
<1>1. m \in Nat /\ n \in Nat
  OBVIOUS
<1>2. \A d \in D, f \in [D -> BOOLEAN] : G[<<d, f>>] = LikeRule(f, P, v, d[1], d[2])
  OBVIOUS
<1>3. \A j \in 1 .. m + 1, k \in 1 .. n + 1 :
        /\ j \in Nat /\ k \in Nat
        /\ j > m \/ j <= m
        /\ k > n \/ k <= n
        /\ j <= m => j + 1 \in 1 .. m + 1
        /\ j < m => j + 2 \in 1 .. m + 1
        /\ k <= n => k + 1 \in 1 .. n + 1
  BY <1>1
<1>4. ASSUME NEW f, NEW j, NEW k
      PROVE  LikeRule(f, P, v, j, k) \in BOOLEAN
  <2> DEFINE Any == f[<<j + 1, k>>] \/ (k <= n /\ f[<<j, k + 1>>])
             Escape == j < m /\ P[j + 1] = v[k] /\ f[<<j + 2, k + 1>>]
             Plain == P[j] \in {"_", v[k]} /\ f[<<j + 1, k + 1>>]
  <2>1. LikeRule(f, P, v, j, k) =
          IF j > m THEN k > n
          ELSE IF P[j] = "%" THEN Any
          ELSE IF k > n THEN FALSE
          ELSE IF P[j] = BS THEN Escape ELSE Plain
    BY DEF LikeRule
  <2>2. /\ Any \in BOOLEAN /\ Escape \in BOOLEAN /\ Plain \in BOOLEAN
        /\ FALSE \in BOOLEAN
    BY Zenon
  <2>3. (k > n) \in BOOLEAN
    BY SMT
  <2> HIDE DEF Any, Escape, Plain, m, n
  <2> QED  BY <2>1, <2>2, <2>3, Zenon
<1>5. G \in [D \X [D -> BOOLEAN] -> BOOLEAN]
  <2>1. ASSUME NEW a \in D \X [D -> BOOLEAN]
        PROVE  LikeRule(a[2], P, v, a[1][1], a[1][2]) \in BOOLEAN
    BY <1>4, Zenon
  <2> HIDE DEF D
  <2> QED  BY <2>1
<1>6. ASSUME NEW d \in D, NEW f \in [D -> BOOLEAN], NEW h \in [D -> BOOLEAN],
             \A e \in D : rank[e] < rank[d] => f[e] = h[e]
      PROVE  G[<<d, f>>] = G[<<d, h>>]
  <2>1. PICK j \in 1 .. m + 1, k \in 1 .. n + 1 : d = <<j, k>>
    OBVIOUS
  <2>2. \A a \in 1 .. m + 1, b \in 1 .. n + 1 :
          rank[<<a, b>>] = (m + 1 - a) + (n + 1 - b) + 1 /\ <<a, b>> \in D
    BY <1>1
  <2>3. \A a \in 1 .. m + 1, b \in 1 .. n + 1 :
          a + b > j + k => rank[<<a, b>>] < rank[<<j, k>>]
    <3> HIDE DEF D, rank
    <3> QED  BY <1>1, <2>2
  <2>4. \A a \in 1 .. m + 1, b \in 1 .. n + 1 : a + b > j + k => f[<<a, b>>] = h[<<a, b>>]
    <3> HIDE DEF D, rank, m, n
    <3> QED  BY <1>6, <2>1, <2>2, <2>3
  <2>5. /\ j <= m => f[<<j + 1, k>>] = h[<<j + 1, k>>]
        /\ k <= n => f[<<j, k + 1>>] = h[<<j, k + 1>>]
        /\ j <= m /\ k <= n => f[<<j + 1, k + 1>>] = h[<<j + 1, k + 1>>]
        /\ j < m /\ k <= n => f[<<j + 2, k + 1>>] = h[<<j + 2, k + 1>>]
    <3>1. /\ (j + 1) + k > j + k /\ j + (k + 1) > j + k
          /\ (j + 1) + (k + 1) > j + k /\ (j + 2) + (k + 1) > j + k
      BY <1>1
    <3> HIDE DEF D, rank, m, n
    <3> QED  BY <1>3, <2>4, <3>1
  <2>6. LikeRule(f, P, v, j, k) = LikeRule(h, P, v, j, k)
    <3>1. (j > m \/ j <= m) /\ (k > n \/ k <= n)
      BY <1>3
    <3> QED  BY <2>5, <3>1 DEF LikeRule
  <2>7. G[<<d, f>>] = LikeRule(f, P, v, j, k) /\ G[<<d, h>>] = LikeRule(h, P, v, j, k)
    <3> HIDE DEF D, G, rank, m, n
    <3>1. d[1] = j /\ d[2] = k
      BY <2>1
    <3> QED  BY <1>2, <3>1
  <2> QED  BY <2>6, <2>7
<1>7. rank \in [D -> 1 .. m + n + 1] /\ m + n + 1 \in Nat
  <2>1. ASSUME NEW j \in 1 .. m + 1, NEW k \in 1 .. n + 1
        PROVE  (m + 1 - j) + (n + 1 - k) + 1 \in 1 .. m + n + 1
    BY <1>1
  <2>2. \A d \in D : (m + 1 - d[1]) + (n + 1 - d[2]) + 1 \in 1 .. m + n + 1
    <3> HIDE DEF m, n
    <3> QED  BY <2>1
  <2>3. rank \in [D -> 1 .. m + n + 1]
    <3> HIDE DEF D, m, n
    <3> QED  BY <2>2
  <2> QED  BY <1>1, <2>3
<1>8. IsRule(G, D, BOOLEAN, rank, m + n + 1)
  <2>1. BOOLEAN # {}
    OBVIOUS
  <2> HIDE DEF G, rank, m, n, D
  <2> QED  BY <1>5, <1>6, <1>7, <2>1 DEF IsRule
<1>9. PICK f \in [D -> BOOLEAN] : \A d \in D : f[d] = G[<<d, f>>]
  <2> HIDE DEF G, rank, n, D, m
  <2>1. IsKept(G, D, BOOLEAN)
    BY <1>8, Recursion
  <2> QED  BY <2>1 DEF IsKept
<1> DEFINE Solves(g) ==
             g = [at \in (1 .. Len(P) + 1) \X (1 .. Len(v) + 1) |->
                    LikeRule(g, P, v, at[1], at[2])]
           c == CHOOSE g : Solves(g)
<1>10. ASSUME NEW g \in [D -> BOOLEAN], \A d \in D : g[d] = G[<<d, g>>]
       PROVE  Solves(g)
  <2>1. \A d \in D : g[d] = LikeRule(g, P, v, d[1], d[2])
    <3> HIDE DEF D, G
    <3> QED  BY <1>2, <1>10
  <2> HIDE DEF G
  <2> QED  BY <2>1
<1>11. Solves(f)
  <2> HIDE DEF Solves, G, D
  <2> QED  BY <1>9, <1>10
<1>12. Solves(c)
  <2> HIDE DEF Solves
  <2> QED  BY <1>11
<1>13. Like(P, v) = c[<<1, 1>>]
  BY DEF Like, LikeRule
<1>14. c \in [D -> BOOLEAN]
  <2>1. \A d \in D : LikeRule(c, P, v, d[1], d[2]) \in BOOLEAN
    <3> HIDE DEF c, D
    <3> QED  BY <1>4
  <2> HIDE DEF c
  <2> QED  BY <1>12, <2>1
<1>15. \A j \in 1 .. m + 1, k \in 1 .. n + 1 : c[<<j, k>>] = LikeRule(c, P, v, j, k)
  <2> HIDE DEF c
  <2> QED  BY <1>12
<1>16. IsLike(c, P, v)
  <2> HIDE DEF c
  <2> QED  BY <1>14, <1>15 DEF IsLike
<1> QED  BY <1>13, <1>16

-----------------------------------------------------------------------------
(* A token as it grows. *)

\* A token that has been written as far as q does not end there, however it
\* goes on; and what it stands for then begins with m.
Grown(q, m) ==
  /\ q \in Seq(Decoded) /\ q # <<>> /\ m \in Seq(Decoded)
  /\ \A s, f : Begins(s, q) /\ Len(s) > Len(q) /\ IsEnds(f, s) => f[2] = f[Len(q) + 1]
  /\ \A s, f : Begins(s, q) /\ Len(s) > Len(q) /\ IsValues(f, s) => f[2] = m \o f[Len(q) + 1]

\* A text that begins with q and then w.
LEMMA BeginsShorter ==
  ASSUME NEW q \in Seq(Decoded), q # <<>>, NEW w \in Seq(Decoded), NEW s, Begins(s, q \o w)
  PROVE  /\ s \in Seq(Decoded) /\ Len(s) \in Nat /\ Len(q) \in Nat /\ Len(w) \in Nat
         /\ Len(q) >= 1 /\ Len(q \o w) = Len(q) + Len(w) /\ Len(s) >= Len(q) + Len(w)
         /\ Begins(s, q)
         /\ s[1] = q[1]
         /\ \A k \in 1 .. Len(w) : s[Len(q) + k] = w[k]
<1>1. s \in Seq(Decoded) /\ Len(s) \in Nat /\ Len(q) \in Nat /\ Len(w) \in Nat /\ Len(q) >= 1
  BY DEF Begins
<1>2. /\ Len(q \o w) = Len(q) + Len(w)
      /\ \A k \in 1 .. Len(q) : (q \o w)[k] = q[k]
      /\ \A k \in 1 .. Len(w) : (q \o w)[Len(q) + k] = w[k]
  OBVIOUS
<1>3. Len(s) >= Len(q) + Len(w)
  BY <1>1, <1>2 DEF Begins
<1>4. \A k \in 1 .. Len(q) : s[k] = q[k]
  BY <1>1, <1>2 DEF Begins
<1>5. \A k \in 1 .. Len(w) : s[Len(q) + k] = w[k]
  <2>1. \A k \in 1 .. Len(w) : Len(q) + k \in 1 .. Len(q \o w)
    BY <1>1, <1>2
  <2> QED  BY <1>2, <2>1 DEF Begins
<1> QED  BY <1>1, <1>2, <1>3, <1>4, <1>5 DEF Begins

\* Concatenation is associative, one character at a time.
LEMMA ConcatOne ==
  ASSUME NEW m \in Seq(Decoded), NEW c \in Decoded, NEW u \in Seq(Decoded)
  PROVE  m \o (<<c>> \o u) = (m \o <<c>>) \o u
<1> DEFINE w == <<c>>
<1>1. w \in Seq(Decoded)
  OBVIOUS
<1> HIDE DEF w
<1>2. m \o (w \o u) = (m \o w) \o u
  BY <1>1, ConcatAssociative
<1> QED  BY <1>2 DEF w

\* Reading back the pattern just begun,
LEMMA GrownStart ==
  ASSUME NEW Q \in Decoded
  PROVE  Grown(<<Q>>, <<>>)
<1>1. ASSUME NEW s, NEW f, Begins(s, <<Q>>), Len(s) > Len(<<Q>>), IsValues(f, s)
      PROVE  f[2] = <<>> \o f[Len(<<Q>>) + 1]
  <2>1. s \in Seq(Decoded) /\ Len(s) \in Nat /\ 2 \in 2 .. Len(s) + 2
    BY <1>1 DEF Begins
  <2>2. f[2] \in Seq(Decoded)
    BY <1>1, <2>1 DEF IsValues
  <2> QED  BY <2>2
<1> QED  BY <1>1 DEF Grown

\* grown by a character that stands for itself,
LEMMA GrownPlain ==
  ASSUME NEW q, NEW m, Grown(q, m), NEW c \in Decoded, c # q[1]
  PROVE  Grown(Append(q, c), Append(m, c))
<1>1. q \in Seq(Decoded) /\ q # <<>> /\ m \in Seq(Decoded) /\ <<c>> \in Seq(Decoded)
  BY DEF Grown
<1>2. Append(q, c) = q \o <<c>> /\ Append(m, c) = m \o <<c>> /\ Len(<<c>>) = 1 /\ <<c>>[1] = c
  BY <1>1
<1>3. ASSUME NEW s, Begins(s, q \o <<c>>), Len(s) > Len(q \o <<c>>)
      PROVE  /\ Begins(s, q) /\ Len(s) > Len(q) /\ s \in Seq(Decoded)
             /\ Len(q) + 1 \in 2 .. Len(s) + 2 /\ Len(q) + 1 < Len(s)
             /\ Len(q) + 2 \in 2 .. Len(s) + 2 /\ Len(q) + 1 + 1 = Len(q) + 2
             /\ ~(Len(q) + 1 > Len(s)) /\ ~(Len(q) + 1 >= Len(s))
             /\ s[Len(q) + 1] = c /\ s[Len(q) + 1] # s[1] /\ Len(q \o <<c>>) + 1 = Len(q) + 2
  <2>1. /\ s \in Seq(Decoded) /\ Len(s) \in Nat /\ Len(q) \in Nat
        /\ Len(q \o <<c>>) = Len(q) + 1
        /\ Begins(s, q) /\ s[1] = q[1] /\ s[Len(q) + 1] = c /\ Len(q) >= 1
    <3>1. /\ s \in Seq(Decoded) /\ Len(s) \in Nat /\ Len(q) \in Nat
          /\ Len(q) >= 1 /\ Len(q \o <<c>>) = Len(q) + Len(<<c>>)
          /\ Begins(s, q) /\ s[1] = q[1]
          /\ \A k \in 1 .. Len(<<c>>) : s[Len(q) + k] = <<c>>[k]
      <4> DEFINE w == <<c>>
      <4>1. w \in Seq(Decoded) /\ Begins(s, q \o w)
        BY <1>1, <1>3
      <4> HIDE DEF w
      <4>2. /\ s \in Seq(Decoded) /\ Len(s) \in Nat /\ Len(q) \in Nat
            /\ Len(q) >= 1 /\ Len(q \o w) = Len(q) + Len(w)
            /\ Begins(s, q) /\ s[1] = q[1]
            /\ \A k \in 1 .. Len(w) : s[Len(q) + k] = w[k]
        BY <1>1, <4>1, BeginsShorter
      <4> QED  BY <4>2 DEF w
    <3>2. 1 \in 1 .. Len(<<c>>)
      BY <1>2
    <3> QED  BY <1>2, <3>1, <3>2
  <2> QED  BY <1>3, <2>1
<1>4. ASSUME NEW s, NEW f, Begins(s, q \o <<c>>), Len(s) > Len(q \o <<c>>), IsEnds(f, s)
      PROVE  f[2] = f[Len(q \o <<c>>) + 1]
  <2>1. f[2] = f[Len(q) + 1]
    BY <1>3, <1>4 DEF Grown
  <2>2. f[Len(q) + 1] = f[Len(q) + 2]
    BY <1>3, <1>4 DEF IsEnds
  <2> QED  BY <1>3, <1>4, <2>1, <2>2
<1>5. ASSUME NEW s, NEW f, Begins(s, q \o <<c>>), Len(s) > Len(q \o <<c>>), IsValues(f, s)
      PROVE  f[2] = (m \o <<c>>) \o f[Len(q \o <<c>>) + 1]
  <2>1. f[2] = m \o f[Len(q) + 1]
    BY <1>3, <1>5 DEF Grown
  <2>2. f[Len(q) + 1] = <<c>> \o f[Len(q) + 2]
    BY <1>3, <1>5 DEF IsValues
  <2>3. f[Len(q) + 2] \in Seq(Decoded)
    BY <1>3, <1>5 DEF IsValues
  <2>4. m \o (<<c>> \o f[Len(q) + 2]) = (m \o <<c>>) \o f[Len(q) + 2]
    <3> DEFINE u == f[Len(q) + 2]
    <3> HIDE DEF u
    <3>1. u \in Seq(Decoded)
      BY <2>3 DEF u
    <3>2. m \o (<<c>> \o u) = (m \o <<c>>) \o u
      BY <1>1, <3>1, ConcatOne
    <3> QED  BY <3>2 DEF u
  <2> QED  BY <1>3, <1>5, <2>1, <2>2, <2>4
<1>6. q \o <<c>> \in Seq(Decoded) /\ q \o <<c>> # <<>> /\ m \o <<c>> \in Seq(Decoded)
  BY <1>1
<1> QED  BY <1>2, <1>4, <1>5, <1>6 DEF Grown

\* and by a doubled quote.
LEMMA GrownQuote ==
  ASSUME NEW q, NEW m, Grown(q, m), NEW Q, Q = q[1]
  PROVE  Grown(q \o <<Q, Q>>, Append(m, Q))
<1>1. q \in Seq(Decoded) /\ q # <<>> /\ m \in Seq(Decoded) /\ Q \in Decoded
      /\ <<Q, Q>> \in Seq(Decoded)
  BY DEF Grown
<1>2. Append(m, Q) = m \o <<Q>> /\ Len(<<Q, Q>>) = 2 /\ <<Q, Q>>[1] = Q /\ <<Q, Q>>[2] = Q
  BY <1>1
<1>3. ASSUME NEW s, Begins(s, q \o <<Q, Q>>), Len(s) > Len(q \o <<Q, Q>>)
      PROVE  /\ Begins(s, q) /\ Len(s) > Len(q) /\ s \in Seq(Decoded)
             /\ Len(q) + 1 \in 2 .. Len(s) + 2 /\ Len(q) + 1 < Len(s)
             /\ Len(q) + 3 \in 2 .. Len(s) + 2 /\ Len(q) + 1 + 2 = Len(q) + 3
             /\ ~(Len(q) + 1 > Len(s)) /\ ~(Len(q) + 1 >= Len(s))
             /\ s[Len(q) + 1] = Q /\ s[Len(q) + 1 + 1] = Q /\ s[1] = Q
             /\ Len(q \o <<Q, Q>>) + 1 = Len(q) + 3
  <2>1. /\ s \in Seq(Decoded) /\ Len(s) \in Nat /\ Len(q) \in Nat
        /\ Len(q \o <<Q, Q>>) = Len(q) + 2
        /\ Begins(s, q) /\ s[1] = q[1]
        /\ s[Len(q) + 1] = Q /\ s[Len(q) + 2] = Q /\ Len(q) >= 1
    <3>1. /\ s \in Seq(Decoded) /\ Len(s) \in Nat /\ Len(q) \in Nat
          /\ Len(q) >= 1 /\ Len(q \o <<Q, Q>>) = Len(q) + Len(<<Q, Q>>)
          /\ Begins(s, q) /\ s[1] = q[1]
          /\ \A k \in 1 .. Len(<<Q, Q>>) : s[Len(q) + k] = <<Q, Q>>[k]
      <4> DEFINE w == <<Q, Q>>
      <4>1. w \in Seq(Decoded) /\ Begins(s, q \o w)
        BY <1>1, <1>3
      <4> HIDE DEF w
      <4>2. /\ s \in Seq(Decoded) /\ Len(s) \in Nat /\ Len(q) \in Nat
            /\ Len(q) >= 1 /\ Len(q \o w) = Len(q) + Len(w)
            /\ Begins(s, q) /\ s[1] = q[1]
            /\ \A k \in 1 .. Len(w) : s[Len(q) + k] = w[k]
        BY <1>1, <4>1, BeginsShorter
      <4> QED  BY <4>2 DEF w
    <3>2. 1 \in 1 .. Len(<<Q, Q>>) /\ 2 \in 1 .. Len(<<Q, Q>>)
      BY <1>2
    <3> QED  BY <1>2, <3>1, <3>2
  <2> QED  BY <1>3, <2>1
<1>4. ASSUME NEW s, NEW f, Begins(s, q \o <<Q, Q>>), Len(s) > Len(q \o <<Q, Q>>), IsEnds(f, s)
      PROVE  f[2] = f[Len(q \o <<Q, Q>>) + 1]
  <2>1. f[2] = f[Len(q) + 1]
    BY <1>3, <1>4 DEF Grown
  <2>2. f[Len(q) + 1] = f[Len(q) + 3]
    BY <1>3, <1>4 DEF IsEnds
  <2> QED  BY <1>3, <1>4, <2>1, <2>2
<1>5. ASSUME NEW s, NEW f, Begins(s, q \o <<Q, Q>>), Len(s) > Len(q \o <<Q, Q>>), IsValues(f, s)
      PROVE  f[2] = (m \o <<Q>>) \o f[Len(q \o <<Q, Q>>) + 1]
  <2>1. f[2] = m \o f[Len(q) + 1]
    BY <1>3, <1>5 DEF Grown
  <2>2. f[Len(q) + 1] = <<Q>> \o f[Len(q) + 3]
    BY <1>3, <1>5 DEF IsValues
  <2>3. f[Len(q) + 3] \in Seq(Decoded)
    BY <1>3, <1>5 DEF IsValues
  <2>4. m \o (<<Q>> \o f[Len(q) + 3]) = (m \o <<Q>>) \o f[Len(q) + 3]
    <3> DEFINE u == f[Len(q) + 3]
    <3> HIDE DEF u
    <3>1. u \in Seq(Decoded)
      BY <2>3 DEF u
    <3>2. m \o (<<Q>> \o u) = (m \o <<Q>>) \o u
      BY <1>1, <3>1, ConcatOne
    <3> QED  BY <3>2 DEF u
  <2> QED  BY <1>3, <1>5, <2>1, <2>2, <2>4
<1>6. q \o <<Q, Q>> \in Seq(Decoded) /\ q \o <<Q, Q>> # <<>> /\ m \o <<Q>> \in Seq(Decoded)
  BY <1>1
<1> QED  BY <1>2, <1>4, <1>5, <1>6 DEF Grown

\* The quote that closes the token is where SQLite has it end.
LEMMA GrownClosed ==
  ASSUME NEW q, NEW m, Grown(q, m), NEW s, s = Append(q, q[1])
  PROVE  QuoteEnd(s) = Len(s) /\ Dequoted(s) = m
<1>1. q \in Seq(Decoded) /\ q # <<>> /\ m \in Seq(Decoded) /\ q[1] \in Decoded
  BY DEF Grown
<1>2. /\ s \in Seq(Decoded) /\ Len(s) = Len(q) + 1 /\ Begins(s, q) /\ Len(s) > Len(q)
      /\ s[Len(s)] = s[1] /\ Len(s) \in 2 .. Len(s) + 2 /\ Len(s) \in Nat
  BY <1>1 DEF Begins
<1>3. QuoteEnd(s) = Len(s)
  <2>1. PICK f : IsEnds(f, s) /\ QuoteEnd(s) = f[2]
    BY <1>2, QuoteEndIs
  <2>2. f[2] = f[Len(s)]
    BY <1>2, <2>1 DEF Grown
  <2>3. f[Len(s)] = Len(s)
    BY <1>2, <2>1 DEF IsEnds
  <2> QED  BY <2>1, <2>2, <2>3
<1>4. Dequoted(s) = m
  <2>1. PICK f : IsValues(f, s) /\ Dequoted(s) = f[2]
    BY <1>2, DequotedIs
  <2>2. f[2] = m \o f[Len(s)]
    BY <1>2, <2>1 DEF Grown
  <2>3. f[Len(s)] = <<>>
    <3>1. Len(s) >= Len(s)
      BY <1>2
    <3> QED  BY <1>2, <2>1, <3>1 DEF IsValues
  <2> QED  BY <1>1, <2>1, <2>2, <2>3
<1> QED  BY <1>3, <1>4

-----------------------------------------------------------------------------
(* A pattern as it grows. *)

\* Whether w stands in v from k on.
Occurs(w, v, k) ==
  k + Len(w) <= Len(v) + 1 /\ \A j \in 1 .. Len(w) : v[k + j - 1] = w[j]

\* Past its first o characters, a pattern that begins with m matches from k on
\* what has w there and is matched, after w, by what follows m.
Covers(m, w, o) ==
  /\ m \in Seq(Decoded) /\ w \in Seq(Decoded)
  /\ o \in {0, 1} /\ Len(m) >= o /\ (o = 1 => m[1] = "%")
  /\ \A P, v, f, k :
       Begins(P, m) /\ v \in Seq(Decoded) /\ IsLike(f, P, v) /\ k \in 1 .. Len(v) + 1 =>
         (f[<<o + 1, k>>] <=> Occurs(w, v, k) /\ f[<<Len(m) + 1, k + Len(w)>>])

\* Nothing is covered by an empty pattern, nor past the % that opens one.
LEMMA CoversStart == Covers(<<>>, <<>>, 0) /\ ("%" \in Decoded => Covers(<<"%">>, <<>>, 1))
<1>1. ASSUME NEW v \in Seq(Decoded), NEW k \in 1 .. Len(v) + 1
      PROVE  Occurs(<<>>, v, k) /\ k + Len(<<>>) = k
  BY DEF Occurs
<1>2. Covers(<<>>, <<>>, 0)
  <2>1. <<>> \in Seq(Decoded) /\ Len(<<>>) = 0
    OBVIOUS
  <2> QED  BY <1>1, <2>1 DEF Covers
<1>3. ASSUME "%" \in Decoded PROVE Covers(<<"%">>, <<>>, 1)
  <2>1. <<>> \in Seq(Decoded) /\ <<"%">> \in Seq(Decoded) /\ Len(<<"%">>) = 1 /\ <<"%">>[1] = "%"
    BY <1>3
  <2> QED  BY <1>1, <2>1 DEF Covers
<1> QED  BY <1>2, <1>3

\* What occurs in a text occurs in a longer one.
LEMMA OccursMore ==
  ASSUME NEW w \in Seq(Decoded), NEW c, NEW v \in Seq(Decoded), NEW k \in 1 .. Len(v) + 1
  PROVE  /\ Occurs(Append(w, c), v, k) <=>
              /\ Occurs(w, v, k)
              /\ k + Len(w) <= Len(v) /\ v[k + Len(w)] = c
         /\ Len(Append(w, c)) = Len(w) + 1 /\ Len(w) \in Nat
<1>1. /\ Len(w) \in Nat /\ Len(v) \in Nat /\ Len(Append(w, c)) = Len(w) + 1
      /\ \A j \in 1 .. Len(w) : Append(w, c)[j] = w[j]
      /\ Append(w, c)[Len(w) + 1] = c
      /\ k + (Len(w) + 1) - 1 = k + Len(w)
  OBVIOUS
<1>2. 1 .. Len(w) + 1 = (1 .. Len(w)) \cup {Len(w) + 1}
  BY <1>1
<1>3. (\A j \in 1 .. Len(w) + 1 : v[k + j - 1] = Append(w, c)[j]) <=>
        /\ \A j \in 1 .. Len(w) : v[k + j - 1] = w[j]
        /\ v[k + Len(w)] = c
  <2>1. (\A j \in 1 .. Len(w) + 1 : v[k + j - 1] = Append(w, c)[j]) <=>
          /\ \A j \in 1 .. Len(w) : v[k + j - 1] = Append(w, c)[j]
          /\ v[k + (Len(w) + 1) - 1] = Append(w, c)[Len(w) + 1]
    BY <1>2
  <2> QED  BY <1>1, <2>1
<1>4. k + (Len(w) + 1) <= Len(v) + 1 <=> k + Len(w) <= Len(v)
  BY <1>1
<1>5. k + Len(w) <= Len(v) => k + Len(w) <= Len(v) + 1
  BY <1>1
<1> QED  BY <1>1, <1>3, <1>4, <1>5 DEF Occurs

\* What follows m when one more character of the string has been written.
LEMMA CoversMore ==
  ASSUME NEW m, NEW w, NEW o, Covers(m, w, o), NEW c \in Decoded, NEW e \in Seq(Decoded),
         NEW n \in Nat, n = Len(m \o e),
         \A P, v, f, k : Begins(P, m \o e) /\ v \in Seq(Decoded) /\ IsLike(f, P, v)
                           /\ k \in 1 .. Len(v) + 1 =>
           (f[<<Len(m) + 1, k>>] <=> k <= Len(v) /\ v[k] = c /\ f[<<n + 1, k + 1>>])
  PROVE  Covers(m \o e, Append(w, c), o)
<1>1. m \in Seq(Decoded) /\ w \in Seq(Decoded) /\ Len(m) \in Nat /\ Len(w) \in Nat /\ Len(e) \in Nat
      /\ o \in {0, 1} /\ Len(m) >= o
  BY DEF Covers
<1>2. /\ m \o e \in Seq(Decoded) /\ Append(w, c) \in Seq(Decoded)
      /\ Len(m \o e) = Len(m) + Len(e)
      /\ \A k \in 1 .. Len(m) : (m \o e)[k] = m[k]
  BY <1>1
<1>3. Len(m \o e) >= o /\ (o = 1 => (m \o e)[1] = "%")
  BY <1>1, <1>2 DEF Covers
<1>4. ASSUME NEW P, NEW v \in Seq(Decoded), NEW f, NEW k \in 1 .. Len(v) + 1,
             Begins(P, m \o e), IsLike(f, P, v)
      PROVE  f[<<o + 1, k>>] <=>
               Occurs(Append(w, c), v, k) /\ f[<<n + 1, k + Len(Append(w, c))>>]
  <2>1. Begins(P, m)
    BY <1>1, <1>2, <1>4 DEF Begins
  <2>2. f[<<o + 1, k>>] <=> Occurs(w, v, k) /\ f[<<Len(m) + 1, k + Len(w)>>]
    BY <1>4, <2>1 DEF Covers
  <2>3. /\ Occurs(Append(w, c), v, k) <=>
             Occurs(w, v, k) /\ k + Len(w) <= Len(v) /\ v[k + Len(w)] = c
        /\ Len(Append(w, c)) = Len(w) + 1
    BY <1>1, OccursMore
  <2>4. Occurs(w, v, k) => k + Len(w) \in 1 .. Len(v) + 1
    BY <1>1 DEF Occurs
  <2>5. Occurs(w, v, k) =>
          (f[<<Len(m) + 1, k + Len(w)>>] <=>
             k + Len(w) <= Len(v) /\ v[k + Len(w)] = c /\ f[<<n + 1, k + Len(w) + 1>>])
    BY <1>4, <2>4
  <2>6. k + (Len(w) + 1) = k + Len(w) + 1
    BY <1>1
  <2> QED  BY <2>2, <2>3, <2>5, <2>6
<1> QED  BY <1>1, <1>2, <1>3, <1>4 DEF Covers

\* A character that means itself in a pattern.
IsPlain(c) == c \notin {"%", "_", BS}

\* A plain character stands for itself in a pattern,
LEMMA CoversPlain ==
  ASSUME NEW m, NEW w, NEW o, Covers(m, w, o), NEW c \in Decoded, IsPlain(c)
  PROVE  Covers(Append(m, c), Append(w, c), o)
<1> DEFINE e == <<c>>
<1>1. m \in Seq(Decoded) /\ Len(m) \in Nat /\ e \in Seq(Decoded)
  <2>1. m \in Seq(Decoded)
    BY DEF Covers
  <2> QED  BY <2>1
<1>2. /\ m \o e = Append(m, c) /\ Len(m \o e) = Len(m) + 1 /\ Len(m \o e) \in Nat
      /\ (m \o e)[Len(m) + 1] = c
  BY <1>1
<1>3. ASSUME NEW P, NEW v \in Seq(Decoded), NEW f, NEW k \in 1 .. Len(v) + 1,
             Begins(P, m \o e), IsLike(f, P, v)
      PROVE  f[<<Len(m) + 1, k>>] <=> k <= Len(v) /\ v[k] = c /\ f[<<Len(m \o e) + 1, k + 1>>]
  <2>1. /\ Len(m) + 1 \in 1 .. Len(P) + 1 /\ ~(Len(m) + 1 > Len(P))
        /\ P[Len(m) + 1] = c
    BY <1>1, <1>2, <1>3 DEF Begins
  <2>2. f[<<Len(m) + 1, k>>] = LikeRule(f, P, v, Len(m) + 1, k)
    BY <1>3, <2>1 DEF IsLike
  <2>3. (k > Len(v) \/ k <= Len(v)) /\ ~(k > Len(v) /\ k <= Len(v))
    <3>1. Len(v) \in Nat
      OBVIOUS
    <3> QED  BY <3>1
  <2>4. Len(m \o e) + 1 = (Len(m) + 1) + 1
    BY <1>2
  <2> HIDE DEF e
  <2> QED  BY <2>1, <2>2, <2>3, <2>4 DEF LikeRule, IsPlain
<1> HIDE DEF e
<1>4. Covers(m \o e, Append(w, c), o)
  BY <1>1, <1>2, <1>3, CoversMore
<1> QED  BY <1>2, <1>4

\* and an escaped one for the character escaped.
LEMMA CoversEscaped ==
  ASSUME NEW m, NEW w, NEW o, Covers(m, w, o), NEW c \in Decoded
  PROVE  Covers(m \o <<BS, c>>, Append(w, c), o)
<1> DEFINE e == <<BS, c>>
<1>1. m \in Seq(Decoded) /\ Len(m) \in Nat /\ e \in Seq(Decoded)
  <2>1. m \in Seq(Decoded)
    BY DEF Covers
  <2>2. BS \in Decoded
    BY StringsAssumption DEF Decoded
  <2> QED  BY <2>1, <2>2
<1>2. /\ Len(m \o e) = Len(m) + 2 /\ Len(m \o e) \in Nat
      /\ (m \o e)[Len(m) + 1] = BS /\ (m \o e)[Len(m) + 2] = c
  BY <1>1
<1>3. ASSUME NEW P, NEW v \in Seq(Decoded), NEW f, NEW k \in 1 .. Len(v) + 1,
             Begins(P, m \o e), IsLike(f, P, v)
      PROVE  f[<<Len(m) + 1, k>>] <=> k <= Len(v) /\ v[k] = c /\ f[<<Len(m \o e) + 1, k + 1>>]
  <2>1. /\ Len(m) + 1 \in 1 .. Len(P) + 1 /\ ~(Len(m) + 1 > Len(P)) /\ Len(m) + 1 < Len(P)
        /\ P[Len(m) + 1] = BS /\ P[(Len(m) + 1) + 1] = c
    <3>1. Len(P) \in Nat /\ Len(P) >= Len(m) + 2
      BY <1>1, <1>2, <1>3 DEF Begins
    <3>2. Len(m) + 1 \in 1 .. Len(m \o e) /\ Len(m) + 2 \in 1 .. Len(m \o e)
          /\ (Len(m) + 1) + 1 = Len(m) + 2
      BY <1>1, <1>2
    <3> QED  BY <1>1, <1>2, <1>3, <3>1, <3>2 DEF Begins
  <2>2. f[<<Len(m) + 1, k>>] = LikeRule(f, P, v, Len(m) + 1, k)
    BY <1>3, <2>1 DEF IsLike
  <2>3. (k > Len(v) \/ k <= Len(v)) /\ ~(k > Len(v) /\ k <= Len(v))
    <3>1. Len(v) \in Nat
      OBVIOUS
    <3> QED  BY <3>1
  <2>4. Len(m \o e) + 1 = (Len(m) + 1) + 2
    BY <1>2
  <2>5. BS # "%"
    BY DEF BS
  <2> HIDE DEF e
  <2> QED  BY <2>1, <2>2, <2>3, <2>4, <2>5 DEF LikeRule
<1>4. Covers(m \o e, Append(w, c), o)
  <2> HIDE DEF e
  <2> QED  BY <1>1, <1>2, <1>3, CoversMore
<1> QED  BY <1>4

\* A "%" matches up to any place from which the rest matches.
LEMMA Wildcard ==
  ASSUME NEW P \in Seq(Decoded), NEW v \in Seq(Decoded), NEW f, IsLike(f, P, v),
         NEW j \in 1 .. Len(P), P[j] = "%", NEW k \in 1 .. Len(v) + 1
  PROVE  f[<<j, k>>] <=> \E l \in k .. Len(v) + 1 : f[<<j + 1, l>>]
<1> DEFINE n == Len(v) + 1
           Any(b) == \E l \in b .. n : f[<<j + 1, l>>]
           S == {a \in 1 .. n : f[<<j, n + 1 - a>>] <=> Any(n + 1 - a)}
<1>1. Len(v) \in Nat /\ n \in Nat /\ n > 0 /\ Len(P) \in Nat
      /\ j \in 1 .. Len(P) + 1 /\ ~(j > Len(P))
  OBVIOUS
<1>2. ASSUME NEW b \in 1 .. n
      PROVE  f[<<j, b>>] <=> f[<<j + 1, b>>] \/ (b <= Len(v) /\ f[<<j, b + 1>>])
  <2>1. f[<<j, b>>] = LikeRule(f, P, v, j, b)
    BY <1>1 DEF IsLike
  <2> QED  BY <1>1, <2>1 DEF LikeRule
<1>3. 1 \in S
  <2>1. n + 1 - 1 = n /\ n \in 1 .. n /\ ~(n <= Len(v)) /\ n .. n = {n} /\ 1 \in 1 .. n
    BY <1>1
  <2>2. f[<<j, n>>] <=> f[<<j + 1, n>>]
    <3> HIDE DEF n
    <3> QED  BY <1>2, <2>1
  <2>3. Any(n) <=> f[<<j + 1, n>>]
    <3> HIDE DEF n
    <3> QED  BY <2>1
  <2> HIDE DEF Any, n
  <2> QED  BY <2>1, <2>2, <2>3
<1>4. ASSUME NEW a \in 1 .. n - 1, a \in S
      PROVE  a + 1 \in S
  <2> DEFINE b == n + 1 - (a + 1)
  <2>1. /\ b \in 1 .. n /\ b <= Len(v) /\ b + 1 = n + 1 - a /\ a + 1 \in 1 .. n
        /\ b .. n = {b} \cup (b + 1 .. n)
    BY <1>1, <1>4
  <2> HIDE DEF b
  <2>2. f[<<j, b + 1>>] <=> Any(b + 1)
    BY <1>4, <2>1
  <2>3. Any(b) <=> f[<<j + 1, b>>] \/ Any(b + 1)
    BY <2>1
  <2>4. f[<<j, b>>] <=> Any(b)
    <3> HIDE DEF Any, n
    <3> QED  BY <1>2, <2>1, <2>2, <2>3
  <2> HIDE DEF Any, n
  <2> QED  BY <2>1, <2>4 DEF b
<1>5. 1 .. n \subseteq S
  <2> HIDE DEF S, n
  <2> QED  BY <1>1, <1>3, <1>4, Induction
<1>6. n + 1 - k \in 1 .. n /\ n + 1 - (n + 1 - k) = k
  BY <1>1
<1>7. f[<<j, k>>] <=> Any(k)
  <2> HIDE DEF Any, n
  <2> QED  BY <1>5, <1>6
<1> QED  BY <1>7

\* How the patterns end and begin.
LEMMA LikeEnds ==
  ASSUME NEW m, NEW w, NEW o, Covers(m, w, o), NEW v \in Seq(Decoded),
         NEW f, IsLike(f, m, v), NEW k \in 1 .. Len(v) + 1
  PROVE  f[<<o + 1, k>>] <=> Occurs(w, v, k) /\ k + Len(w) = Len(v) + 1
<1>1. m \in Seq(Decoded) /\ w \in Seq(Decoded) /\ Len(m) \in Nat /\ Len(w) \in Nat /\ Len(v) \in Nat
  <2>1. m \in Seq(Decoded) /\ w \in Seq(Decoded)
    BY DEF Covers
  <2> QED  BY <2>1
<1>2. Begins(m, m)
  BY <1>1 DEF Begins
<1>3. f[<<o + 1, k>>] <=> Occurs(w, v, k) /\ f[<<Len(m) + 1, k + Len(w)>>]
  BY <1>2 DEF Covers
<1>4. ASSUME Occurs(w, v, k)
      PROVE  f[<<Len(m) + 1, k + Len(w)>>] <=> k + Len(w) = Len(v) + 1
  <2>1. k + Len(w) \in 1 .. Len(v) + 1 /\ Len(m) + 1 \in 1 .. Len(m) + 1 /\ Len(m) + 1 > Len(m)
    BY <1>1, <1>4 DEF Occurs
  <2>2. f[<<Len(m) + 1, k + Len(w)>>] = LikeRule(f, m, v, Len(m) + 1, k + Len(w))
    BY <2>1 DEF IsLike
  <2>3. f[<<Len(m) + 1, k + Len(w)>>] <=> k + Len(w) > Len(v)
    <3> DEFINE l == k + Len(w)
    <3> HIDE DEF l
    <3>1. f[<<Len(m) + 1, l>>] = LikeRule(f, m, v, Len(m) + 1, l)
      BY <2>2 DEF l
    <3>2. f[<<Len(m) + 1, l>>] <=> l > Len(v)
      BY <2>1, <3>1 DEF LikeRule
    <3> QED  BY <3>2 DEF l
  <2>4. k + Len(w) > Len(v) <=> k + Len(w) = Len(v) + 1
    BY <1>1, <2>1
  <2> QED  BY <2>3, <2>4
<1> QED  BY <1>3, <1>4

\* A pattern closed by % matches from k on exactly when its text occurs there.
LEMMA LikeOpen ==
  ASSUME NEW m, NEW w, NEW o, Covers(m, w, o), NEW v \in Seq(Decoded), NEW P, P = Append(m, "%"),
         "%" \in Decoded, NEW f, IsLike(f, P, v), NEW k \in 1 .. Len(v) + 1
  PROVE  f[<<o + 1, k>>] <=> Occurs(w, v, k)
<1>1. m \in Seq(Decoded) /\ w \in Seq(Decoded) /\ Len(m) \in Nat /\ Len(w) \in Nat /\ Len(v) \in Nat
  <2>1. m \in Seq(Decoded) /\ w \in Seq(Decoded)
    BY DEF Covers
  <2> QED  BY <2>1
<1>2. /\ P \in Seq(Decoded) /\ Len(P) = Len(m) + 1 /\ P[Len(m) + 1] = "%"
      /\ \A b \in 1 .. Len(m) : P[b] = m[b]
  BY <1>1
<1>3. Begins(P, m)
  BY <1>1, <1>2 DEF Begins
<1>4. f[<<o + 1, k>>] <=> Occurs(w, v, k) /\ f[<<Len(m) + 1, k + Len(w)>>]
  BY <1>3 DEF Covers
<1>5. ASSUME Occurs(w, v, k)
      PROVE  f[<<Len(m) + 1, k + Len(w)>>]
  <2>1. /\ k + Len(w) \in 1 .. Len(v) + 1 /\ Len(v) + 1 \in k + Len(w) .. Len(v) + 1
        /\ Len(m) + 1 \in 1 .. Len(P) /\ Len(v) + 1 \in 1 .. Len(v) + 1
        /\ (Len(m) + 1) + 1 \in 1 .. Len(P) + 1 /\ (Len(m) + 1) + 1 > Len(P)
    BY <1>1, <1>2, <1>5 DEF Occurs
  <2>2. f[<<(Len(m) + 1) + 1, Len(v) + 1>>]
    <3>1. f[<<(Len(m) + 1) + 1, Len(v) + 1>>] = LikeRule(f, P, v, (Len(m) + 1) + 1, Len(v) + 1)
      BY <2>1 DEF IsLike
    <3>2. Len(v) + 1 > Len(v)
      BY <1>1
    <3> QED  BY <2>1, <3>1, <3>2 DEF LikeRule
  <2>3. \A l \in 1 .. Len(v) + 1 :
          f[<<Len(m) + 1, l>>] <=> \E b \in l .. Len(v) + 1 : f[<<(Len(m) + 1) + 1, b>>]
    <3> DEFINE j == Len(m) + 1
    <3>1. j \in 1 .. Len(P) /\ P[j] = "%"
      BY <1>2, <2>1
    <3> HIDE DEF j
    <3>2. \A l \in 1 .. Len(v) + 1 :
            f[<<j, l>>] <=> \E b \in l .. Len(v) + 1 : f[<<j + 1, b>>]
      <4>1. P \in Seq(Decoded)
        BY <1>2
      <4> QED  BY <3>1, <4>1, Wildcard, Zenon
    <3> QED  BY <3>2 DEF j
  <2> QED  BY <2>1, <2>2, <2>3
<1> QED  BY <1>4, <1>5

\* What a pattern that has or has not a "%" at either end matches.
LEMMA LikeAffix ==
  ASSUME NEW m, NEW w, NEW o, Covers(m, w, o), NEW v \in Seq(Decoded), "%" \in Decoded
  PROVE  /\ Like(m, v) <=> \E k \in 1 .. Len(v) + 1 :
                              /\ Occurs(w, v, k) /\ k + Len(w) = Len(v) + 1
                              /\ o = 0 => k = 1
         /\ Like(Append(m, "%"), v) <=> \E k \in 1 .. Len(v) + 1 :
                              Occurs(w, v, k) /\ (o = 0 => k = 1)
<1> DEFINE K == 1 .. Len(v) + 1
<1>1. /\ m \in Seq(Decoded) /\ Len(m) \in Nat /\ o \in {0, 1} /\ Len(m) >= o
      /\ (o = 1 => m[1] = "%") /\ 1 \in K /\ Len(v) \in Nat
  BY DEF Covers
<1>2. ASSUME NEW P \in Seq(Decoded), NEW f, IsLike(f, P, v), o = 1 => Len(P) >= 1 /\ P[1] = "%"
      PROVE  f[<<1, 1>>] <=> \E k \in K : f[<<o + 1, k>>] /\ (o = 0 => k = 1)
  <2>1. CASE o = 0
    <3>1. o + 1 = 1
      BY <2>1
    <3> HIDE DEF K
    <3> QED  BY <1>1, <2>1, <3>1
  <2>2. CASE o = 1
    <3>1. 1 \in 1 .. Len(P)
      BY <1>2, <2>2
    <3>2. f[<<1, 1>>] <=> \E k \in K : f[<<1 + 1, k>>]
      BY <1>1, <1>2, <2>2, <3>1, Wildcard
    <3> QED  BY <2>2, <3>2
  <2> QED  BY <1>1, <2>1, <2>2
<1>3. Like(m, v) <=> \E k \in K : Occurs(w, v, k) /\ k + Len(w) = Len(v) + 1 /\ (o = 0 => k = 1)
  <2>1. PICK f : IsLike(f, m, v) /\ Like(m, v) = f[<<1, 1>>]
    BY <1>1, LikeIs
  <2>2. \A k \in K : f[<<o + 1, k>>] <=> Occurs(w, v, k) /\ k + Len(w) = Len(v) + 1
    BY <2>1, LikeEnds
  <2>3. f[<<1, 1>>] <=> \E k \in K : f[<<o + 1, k>>] /\ (o = 0 => k = 1)
    BY <1>1, <1>2, <2>1
  <2> HIDE DEF K
  <2> QED  BY <2>1, <2>2, <2>3
<1>4. Like(Append(m, "%"), v) <=> \E k \in K : Occurs(w, v, k) /\ (o = 0 => k = 1)
  <2> DEFINE P == Append(m, "%")
  <2>1. /\ P \in Seq(Decoded) /\ Len(P) = Len(m) + 1
        /\ \A b \in 1 .. Len(m) : P[b] = m[b]
    BY <1>1
  <2>2. o = 1 => Len(P) >= 1 /\ P[1] = "%"
    BY <1>1, <2>1
  <2>3. P = Append(m, "%")
    OBVIOUS
  <2> HIDE DEF P
  <2>4. PICK f : IsLike(f, P, v) /\ Like(P, v) = f[<<1, 1>>]
    BY <2>1, LikeIs
  <2>5. \A k \in K : f[<<o + 1, k>>] <=> Occurs(w, v, k)
    BY <2>3, <2>4, LikeOpen
  <2>6. f[<<1, 1>>] <=> \E k \in K : f[<<o + 1, k>>] /\ (o = 0 => k = 1)
    BY <1>2, <2>1, <2>2, <2>4
  <2> HIDE DEF K
  <2> QED  BY <2>3, <2>4, <2>5, <2>6
<1> QED  BY <1>3, <1>4

-----------------------------------------------------------------------------
(* The SQL written. *)

Quote == IF use = "name" THEN DQ ELSE SQ
Offset == IF use \in {"ends", "contains"} THEN 1 ELSE 0

\* The token q is still open, and stands for m: the string w, or the pattern of
\* what has w.
Stands(q, m, w) ==
  /\ Grown(q, m) /\ q[1] = Quote
  /\ use \in Affixes => Covers(m, w, Offset)
  /\ use \notin Affixes => m = w

\* The invariant of append_ident, append_string and append_like_pattern: the
\* token is still open, and stands for what has been written so far.
EmitInv ==
  /\ pc = "decode" => sql = <<>> /\ p = 1
  /\ pc = "emit" => \E m : Stands(sql, m, SubSeq(out, 1, p - 1))
  /\ ReadAsOne
  /\ MatchesAffix

\* The quotes, the wildcards and the backslash are characters a text can hold.
LEMMA Quotes ==
  /\ SQ \in Decoded /\ DQ \in Decoded /\ BS \in Decoded /\ "%" \in Decoded /\ "_" \in Decoded
  /\ Quote \in Decoded /\ "%" # SQ /\ BS # SQ /\ "_" # SQ
<1>1. SQ \in Decoded /\ DQ \in Decoded /\ BS \in Decoded /\ "%" \in Decoded /\ "_" \in Decoded
  BY StringsAssumption DEF Decoded
<1>2. "%" # SQ /\ BS # SQ /\ "_" # SQ
  BY DEF SQ, BS
<1> QED  BY <1>1, <1>2 DEF Quote

\* The opening quote, and the wildcard after it.
LEMMA Opens ==
  ASSUME use \in Uses
  PROVE  \E m : Stands(Opening, m, <<>>)
<1>1. CASE use \in {"ends", "contains"}
  <2>1. Opening = Append(<<SQ>>, "%") /\ Opening[1] = SQ /\ Quote = SQ /\ Offset = 1
        /\ use \in Affixes /\ <<SQ>>[1] = SQ /\ Append(<<>>, "%") = <<"%">>
    BY <1>1 DEF Opening, Quote, Offset, Affixes
  <2>2. Grown(Append(<<SQ>>, "%"), Append(<<>>, "%"))
    <3>1. Grown(<<SQ>>, <<>>)
      BY GrownStart, Quotes
    <3>2. "%" # <<SQ>>[1]
      BY Quotes, <2>1
    <3> QED  BY <3>1, <3>2, GrownPlain, Quotes
  <2>3. Covers(<<"%">>, <<>>, 1)
    BY CoversStart, Quotes
  <2> QED  BY <2>1, <2>2, <2>3 DEF Stands
<1>2. CASE use \notin {"ends", "contains"}
  <2>1. Opening = <<Quote>> /\ Opening[1] = Quote /\ Offset = 0
    BY <1>2 DEF Opening, Quote, Offset
  <2>2. Grown(<<Quote>>, <<>>)
    BY GrownStart, Quotes
  <2> QED  BY <2>1, <2>2, CoversStart DEF Stands
<1> QED  BY <1>1, <1>2

\* One character more.
LEMMA Writes ==
  ASSUME NEW q, NEW m, NEW w, NEW c \in Decoded, Stands(q, m, w)
  PROVE  \E n : Stands(q \o Written(c), n, Append(w, c))
<1> USE DEF Stands
<1>1. q \in Seq(Decoded) /\ q # <<>> /\ m \in Seq(Decoded)
  BY DEF Grown
<1>2. ASSUME NEW r \in Seq(Decoded), NEW a \in Decoded, NEW b \in Decoded
      PROVE  Append(Append(r, a), b) = r \o <<a, b>> /\ r \o <<a>> = Append(r, a)
  OBVIOUS
<1>5. \A e \in Seq(Decoded) : (q \o e)[1] = q[1]
  BY <1>1
<1>6. Append(q, BS)[1] = q[1]
  BY <1>1
<1>7. \A a, b \in Decoded : <<a, b>> \in Seq(Decoded) /\ <<a>> \in Seq(Decoded)
  OBVIOUS
<1>3. CASE use \in Affixes /\ ~IsPlain(c)
  <2>1. Written(c) = <<BS, c>> /\ Quote = SQ
    BY <1>3 DEF Written, IsPlain, Quote, Affixes
  <2>2. c # SQ
    BY <1>3 DEF IsPlain, SQ, BS
  <2>3. Grown(Append(q, BS), Append(m, BS))
    BY <2>1, GrownPlain, Quotes
  <2>4. Grown(Append(Append(q, BS), c), Append(Append(m, BS), c))
    <3>1. c # Append(q, BS)[1]
      BY <1>6, <2>1, <2>2, Quotes
    <3> QED  BY <2>3, <3>1, GrownPlain
  <2>5. Grown(q \o <<BS, c>>, m \o <<BS, c>>)
    <3>1. BS \in Decoded
      BY Quotes
    <3>2. Append(Append(q, BS), c) = q \o <<BS, c>>
      BY <1>1, <1>2, <3>1
    <3>3. Append(Append(m, BS), c) = m \o <<BS, c>>
      BY <1>1, <1>2, <3>1
    <3> QED  BY <2>4, <3>2, <3>3, Zenon
  <2>6. Covers(m \o <<BS, c>>, Append(w, c), Offset)
    BY <1>3, CoversEscaped
  <2>7. Written(c) \in Seq(Decoded) /\ Grown(q \o Written(c), m \o <<BS, c>>)
    BY <1>7, <2>1, <2>5, Quotes
  <2>8. (q \o Written(c))[1] = Quote
    BY <1>5, <2>7
  <2> QED  BY <1>3, <2>6, <2>7, <2>8, Zenon
<1>4. CASE ~(use \in Affixes /\ ~IsPlain(c))
  <2>1. CASE c = Quote
    <3>1. Written(c) = <<c, c>>
      BY <1>4, <2>1 DEF Written, IsPlain, Quote
    <3>2. Grown(q \o <<c, c>>, Append(m, c))
      BY <2>1, GrownQuote
    <3>3. use \in Affixes => Covers(Append(m, c), Append(w, c), Offset)
      BY <1>4, CoversPlain
    <3>4. Written(c) \in Seq(Decoded) /\ Grown(q \o Written(c), Append(m, c))
      BY <1>7, <3>1, <3>2
    <3>5. (q \o Written(c))[1] = Quote
      BY <1>5, <3>4
    <3>6. use \notin Affixes => Append(m, c) = Append(w, c)
      OBVIOUS
    <3> QED  BY <3>3, <3>4, <3>5, <3>6, Zenon
  <2>2. CASE c # Quote
    <3>1. Written(c) = <<c>>
      BY <1>4, <2>2 DEF Written, IsPlain, Quote
    <3>2. Grown(Append(q, c), Append(m, c))
      BY <2>2, GrownPlain
    <3>3. use \in Affixes => Covers(Append(m, c), Append(w, c), Offset)
      BY <1>4, CoversPlain
    <3>4. Written(c) \in Seq(Decoded) /\ Grown(q \o Written(c), Append(m, c))
      BY <1>7, <3>1, <3>2, <1>1, <1>2
    <3>5. (q \o Written(c))[1] = Quote
      BY <1>5, <3>4
    <3>6. use \notin Affixes => Append(m, c) = Append(w, c)
      OBVIOUS
    <3> QED  BY <3>3, <3>4, <3>5, <3>6, Zenon
  <2> QED  BY <2>1, <2>2
<1> QED  BY <1>3, <1>4

\* Where the string stands in a value, as the SQL's author has it.
LEMMA OccursIs ==
  ASSUME NEW w \in Seq(Decoded), NEW v \in Seq(Decoded), NEW from \in 0 .. Len(v) - Len(w)
  PROVE  SubSeq(v, from + 1, from + Len(w)) = w <=> Occurs(w, v, from + 1)
<1> DEFINE sub == SubSeq(v, from + 1, from + Len(w))
<1>1. /\ Len(w) \in Nat /\ Len(v) \in Nat /\ from + 1 \in Int /\ from + Len(w) \in Int
      /\ from \in Nat /\ from + 1 + Len(w) <= Len(v) + 1
  OBVIOUS
<1>2. \A k \in from + 1 .. from + Len(w) : v[k] \in Decoded
  BY <1>1
<1>3. /\ sub \in Seq(Decoded)
      /\ Len(sub) = IF from + 1 <= from + Len(w) THEN from + Len(w) - (from + 1) + 1 ELSE 0
      /\ \A k \in 1 .. from + Len(w) - (from + 1) + 1 : sub[k] = v[from + 1 + k - 1]
  BY <1>1, <1>2, SubSeqProperties
<1>4. Len(sub) = Len(w) /\ from + Len(w) - (from + 1) + 1 = Len(w)
  <2>1. \A a, b \in Nat : /\ (IF a + 1 <= a + b THEN a + b - (a + 1) + 1 ELSE 0) = b
                          /\ a + b - (a + 1) + 1 = b
    OBVIOUS
  <2> HIDE DEF sub
  <2> QED  BY <1>1, <1>3, <2>1
<1>5. \A k \in 1 .. Len(w) : sub[k] = v[from + 1 + k - 1]
  BY <1>3, <1>4
<1>6. sub = w <=> \A k \in 1 .. Len(w) : sub[k] = w[k]
  <2> HIDE DEF sub
  <2>1. ASSUME \A k \in 1 .. Len(w) : sub[k] = w[k] PROVE sub = w
    BY <1>3, <1>4, <2>1
  <2> QED  BY <2>1
<1>7. sub = w <=> \A k \in 1 .. Len(w) : v[from + 1 + k - 1] = w[k]
  <2> HIDE DEF sub
  <2> QED  BY <1>5, <1>6
<1> QED  BY <1>1, <1>7 DEF Occurs

\* A sequence is the last of its beginnings, each one element longer.
LEMMA WholeIs ==
  ASSUME NEW X, NEW s \in Seq(X)
  PROVE  /\ SubSeq(s, 1, Len(s)) = s /\ SubSeq(s, 1, 0) = <<>>
         /\ \A k \in 1 .. Len(s) : SubSeq(s, 1, k) = Append(SubSeq(s, 1, k - 1), s[k])
  OBVIOUS

\* Two characters written one after the other.
LEMMA AppendTwo ==
  ASSUME NEW r \in Seq(Decoded), NEW a \in Decoded, NEW b \in Decoded
  PROVE  r \o <<a, b>> = Append(Append(r, a), b)
  OBVIOUS

\* What was emitted covers what was decoded, to begin with,
LEMMA InitEmit == Init => EmitInv
  BY DEF Init, EmitInv, ReadAsOne, MatchesAffix

\* after each step,
LEMMA StepEmit == IInv /\ EmitInv /\ [Next]_vars => EmitInv'
<1> SUFFICES ASSUME IInv, EmitInv, [Next]_vars PROVE EmitInv'
  OBVIOUS
<1>1. /\ use \in Uses /\ out \in Seq(Decoded) /\ Len(out) \in Nat
      /\ p \in 1 .. Len(out) + 1 /\ sql \in Seq(Decoded)
  BY DEF IInv, TypeOK, Decoded
<1>2. ASSUME pc = "decode", p' = p, use' = use, sql' = Opening, pc' = "emit", out' \in Seq(Decoded)
      PROVE  EmitInv'
  <2>1. p' = 1 /\ p' - 1 = 0
    BY <1>2 DEF EmitInv
  <2>2. SubSeq(out', 1, p' - 1) = <<>>
    BY <1>2, <2>1, WholeIs
  <2>3. Quote' = Quote /\ Offset' = Offset
    BY <1>2 DEF Quote, Offset
  <2>4. \E m : Stands(sql, m, SubSeq(out, 1, p - 1))'
    <3>1. PICK m : Stands(Opening, m, <<>>)
      BY <1>1, Opens
    <3>2. Stands(sql, m, SubSeq(out, 1, p - 1))'
      BY <1>2, <2>2, <2>3, <3>1 DEF Stands
    <3> QED  BY <3>2
  <2>5. pc' # "decode" /\ pc' # "done"
    BY <1>2
  <2> QED  BY <2>4, <2>5 DEF EmitInv, ReadAsOne, MatchesAffix
<1>3. CASE DecodeChar
  <2>1. pc = "decode" /\ pc' = "decode" /\ sql' = sql /\ p' = p
    BY <1>3 DEF DecodeChar, Decoding
  <2> QED  BY <2>1 DEF EmitInv, ReadAsOne, MatchesAffix
<1>4. CASE EndDecode
  BY <1>1, <1>2, <1>4 DEF EndDecode
<1>5. CASE Strip
  <2>1. out' \in Seq(Decoded)
    BY StepIInv DEF IInv, TypeOK, Decoded
  <2> QED  BY <1>2, <1>5, <2>1 DEF Strip
<1>6. CASE EmitChar
  <2>1. /\ pc = "emit" /\ pc' = "emit" /\ use' = use /\ out' = out /\ p' = p + 1
        /\ sql' = sql \o Written(out[p]) /\ p \in 1 .. Len(out) /\ out[p] \in Decoded
        /\ p' - 1 = p
    BY <1>1, <1>6 DEF EmitChar
  <2>2. PICK m : Stands(sql, m, SubSeq(out, 1, p - 1))
    BY <2>1 DEF EmitInv
  <2>3. SubSeq(out', 1, p' - 1) = Append(SubSeq(out, 1, p - 1), out[p])
    BY <1>1, <2>1, WholeIs
  <2>4. PICK n : Stands(sql \o Written(out[p]), n, Append(SubSeq(out, 1, p - 1), out[p]))
    BY <2>1, <2>2, Writes
  <2>5. Quote' = Quote /\ Offset' = Offset
    BY <2>1 DEF Quote, Offset
  <2>6. Stands(sql, n, SubSeq(out, 1, p - 1))'
    BY <2>1, <2>3, <2>4, <2>5 DEF Stands
  <2>7. pc' # "decode" /\ pc' # "done"
    BY <2>1
  <2> QED  BY <2>6, <2>7 DEF EmitInv, ReadAsOne, MatchesAffix
<1>7. CASE EndEmit
  <2>1. /\ pc = "emit" /\ pc' = "done" /\ use' = use /\ out' = out /\ p' = p
        /\ sql' = sql \o Closing /\ p = Len(out) + 1 /\ p - 1 = Len(out)
    BY <1>1, <1>7 DEF EndEmit
  <2>2. PICK m : Stands(sql, m, SubSeq(out, 1, p - 1))
    BY <2>1 DEF EmitInv
  <2>3. SubSeq(out, 1, p - 1) = out
    BY <1>1, <2>1, WholeIs
  <2>4. /\ Grown(sql, m) /\ sql[1] = Quote /\ sql # <<>>
        /\ use \in Affixes => Covers(m, out, Offset)
        /\ use \notin Affixes => m = out
    BY <2>2, <2>3 DEF Stands, Grown
  <2>5. \A a \in Decoded : sql \o <<a>> = Append(sql, a) /\ Append(sql, a)[1] = Quote
    BY <1>1, <2>4
  <2> DEFINE Open == use \in {"starts", "contains"}
             P == IF Open THEN Append(m, "%") ELSE m
  <2>6. QuoteEnd(sql') = Len(sql') /\ Dequoted(sql') = P
    <3>1. CASE Open
      <4>1. sql' = Append(Append(sql, "%"), SQ) /\ Quote = SQ
        <5>1. Closing = <<"%", SQ>> /\ Quote = SQ
          BY <3>1 DEF Closing, Quote
        <5>2. sql \o <<"%", SQ>> = Append(Append(sql, "%"), SQ)
          BY <1>1, AppendTwo, Quotes
        <5> QED  BY <2>1, <5>1, <5>2
      <4>2. Append(sql, "%")[1] = SQ
        BY <2>5, <4>1, Quotes
      <4>3. Grown(Append(sql, "%"), Append(m, "%"))
        BY <2>4, <4>1, GrownPlain, Quotes
      <4> QED  BY <3>1, <4>1, <4>2, <4>3, GrownClosed
    <3>2. CASE ~Open
      <4>1. Closing = <<Quote>>
        BY <3>2 DEF Closing, Quote
      <4>2. sql' = Append(sql, Quote)
        BY <2>1, <2>5, <4>1, Quotes
      <4> QED  BY <2>4, <3>2, <4>2, GrownClosed
    <3> QED  BY <3>1, <3>2
  <2>7. use \in {"literal", "name"} => P = out
    BY <2>4 DEF Affixes
  <2>8. ReadAsOne'
    <3> HIDE DEF P
    <3> QED  BY <2>1, <2>6, <2>7 DEF ReadAsOne
  <2>9. MatchesAffix'
    <3>1. SUFFICES ASSUME use \in Affixes, NEW s \in Subjects
          PROVE  Like(P, s) <=> \E from \in 0 .. Len(s) - Len(out) :
                                  /\ SubSeq(s, from + 1, from + Len(out)) = out
                                  /\ use = "starts" => from = 0
                                  /\ use = "ends" => from = Len(s) - Len(out)
      <4> HIDE DEF P
      <4> QED  BY <2>1, <2>6 DEF MatchesAffix
    <3>2. s \in Seq(Decoded) /\ Len(s) \in Nat
      <4>1. s \in Seq(Chars)
        BY StringsAssumption
      <4> QED  BY <4>1 DEF Decoded
    <3>3. Covers(m, out, Offset)
      BY <2>4, <3>1
    <3>4. /\ Like(m, s) <=> \E k \in 1 .. Len(s) + 1 :
                               /\ Occurs(out, s, k) /\ k + Len(out) = Len(s) + 1
                               /\ Offset = 0 => k = 1
          /\ Like(Append(m, "%"), s) <=> \E k \in 1 .. Len(s) + 1 :
                               Occurs(out, s, k) /\ (Offset = 0 => k = 1)
      BY <3>2, <3>3, LikeAffix, Quotes
    <3>5. ASSUME NEW k \in 1 .. Len(s) + 1, Occurs(out, s, k)
          PROVE  /\ k - 1 \in 0 .. Len(s) - Len(out) /\ k - 1 + 1 = k
                 /\ SubSeq(s, (k - 1) + 1, (k - 1) + Len(out)) = out
                 /\ k = 1 => k - 1 = 0
                 /\ k + Len(out) = Len(s) + 1 => k - 1 = Len(s) - Len(out)
      <4>1. k - 1 \in 0 .. Len(s) - Len(out) /\ k - 1 + 1 = k
        BY <1>1, <3>2, <3>5 DEF Occurs
      <4>2. SubSeq(s, (k - 1) + 1, (k - 1) + Len(out)) = out
        BY <1>1, <3>2, <3>5, <4>1, OccursIs
      <4> QED  BY <1>1, <3>2, <4>1, <4>2
    <3>6. ASSUME NEW from \in 0 .. Len(s) - Len(out), SubSeq(s, from + 1, from + Len(out)) = out
          PROVE  /\ from + 1 \in 1 .. Len(s) + 1 /\ Occurs(out, s, from + 1)
                 /\ from = 0 => from + 1 = 1
                 /\ from = Len(s) - Len(out) => from + 1 + Len(out) = Len(s) + 1
      <4>1. Occurs(out, s, from + 1)
        BY <1>1, <3>2, <3>6, OccursIs
      <4>2. from + 1 \in 1 .. Len(s) + 1
        BY <1>1, <3>2
      <4>3. from = Len(s) - Len(out) => from + 1 + Len(out) = Len(s) + 1
        BY <1>1, <3>2
      <4> QED  BY <4>1, <4>2, <4>3
    <3>7. CASE use = "starts"
      <4>1. Open /\ Offset = 0 /\ use # "ends" /\ P = Append(m, "%")
        BY <3>7 DEF Offset
      <4> HIDE DEF P
      <4> QED  BY <3>4, <3>5, <3>6, <3>7, <4>1
    <3>8. CASE use = "ends"
      <4>1. ~Open /\ Offset = 1 /\ use # "starts" /\ P = m
        BY <3>8 DEF Offset
      <4> HIDE DEF P
      <4>2. Like(P, s) <=> \E k \in 1 .. Len(s) + 1 : Occurs(out, s, k) /\ k + Len(out) = Len(s) + 1
        BY <3>4, <4>1
      <4> QED  BY <3>5, <3>6, <3>8, <4>1, <4>2
    <3>9. CASE use = "contains"
      <4>1. Open /\ Offset = 1 /\ use # "ends" /\ use # "starts" /\ P = Append(m, "%")
        BY <3>9 DEF Offset
      <4> HIDE DEF P
      <4>2. Like(P, s) <=> \E k \in 1 .. Len(s) + 1 : Occurs(out, s, k)
        BY <3>4, <4>1
      <4> QED  BY <3>5, <3>6, <4>1, <4>2
    <3> QED  BY <3>1, <3>7, <3>8, <3>9 DEF Affixes
  <2> QED  BY <2>1, <2>8, <2>9 DEF EmitInv
<1>8. CASE UNCHANGED vars
  <2>1. /\ use' = use /\ out' = out /\ p' = p /\ sql' = sql /\ pc' = pc
    BY <1>8 DEF vars
  <2>2. Quote' = Quote /\ Offset' = Offset
    BY <2>1 DEF Quote, Offset
  <2> QED  BY <2>1, <2>2 DEF EmitInv, Stands, ReadAsOne, MatchesAffix
<1> QED  BY <1>3, <1>4, <1>5, <1>6, <1>7, <1>8 DEF Next

\* and throughout.
LEMMA SpecEmit == Spec => []EmitInv
  BY SpecIInv, InitEmit, StepEmit, PTL DEF Spec

\* What append_ident and append_string wrote is one token to SQLite, whatever
\* quotes are in it, and stands for the string it was made of.
THEOREM ReadsOneToken == Spec => []ReadAsOne
<1>1. EmitInv => ReadAsOne
  BY DEF EmitInv
<1> QED  BY <1>1, SpecEmit, PTL

\* The pattern of STARTS WITH, ENDS WITH and CONTAINS matches the values meant
\* and no others.
THEOREM MatchesOnlyAffix == Spec => []MatchesAffix
<1>1. EmitInv => MatchesAffix
  BY DEF EmitInv
<1> QED  BY <1>1, SpecEmit, PTL
=============================================================================

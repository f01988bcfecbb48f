------------------------- MODULE VerificationProofs -------------------------
(***************************************************************************)
(* The reading of challenges: every number below a thousand is read as it  *)
(* was meant.                                                              *)
(*                                                                         *)
(* The fold over the words is a recursive function over sets of positions  *)
(* (Reads).  It is unrolled once, for every sequence (Unrolled); a number  *)
(* below a thousand has at most four words, which are then read one by one.*)
(***************************************************************************)
EXTENDS Verification, SumLemmas, SequenceTheorems

-----------------------------------------------------------------------------
\* The fold.

\* g is the table of the fold over the words f, for the subsets of T.
Reads(f, g, T) ==
  g = [s \in SUBSET T |-> IF s = {} THEN NoNumber
                          ELSE ReadWord(g[s \ {Max(s)}], f[Max(s)])]

\* A finite set of positions of words.
Positions(P) == IsFiniteSet(P) /\ P \subseteq Nat

LEMMA Fewest ==
  ASSUME NEW P, Positions(P), NEW C, C \subseteq SUBSET P, C # {}
  PROVE  \E s \in C : \A t \in C : t \subseteq s => t = s
<1>1. IsFiniteSet(P)
  BY DEF Positions
<1> QED
  BY <1>1, Minimal

LEMMA FirstPositions == \A k \in Nat : Positions(1..k)
BY FS_Interval DEF Positions

\* A set of positions that is not empty has a last one.
LEMMA LastPosition ==
  ASSUME NEW P, Positions(P), NEW s \in SUBSET P, s # {}
  PROVE  Max(s) \in s /\ \A x \in s : x <= Max(s)
<1> DEFINE C == {t \in SUBSET P : t # {} /\ ~ \E x \in t : \A y \in t : y <= x}
<1>1. C = {}
  <2> SUFFICES ASSUME C # {} PROVE FALSE
    OBVIOUS
  <2>1. PICK t \in C : \A u \in C : u \subseteq t => u = t
    <3>1. C \subseteq SUBSET P
      OBVIOUS
    <3> HIDE DEF C
    <3> QED BY <3>1, Fewest
  <2>2. PICK x \in t : TRUE
    OBVIOUS
  <2>3. t \ {x} \notin C
    BY <2>1, <2>2
  <2>4. CASE t \ {x} = {}
    BY <2>2, <2>4 DEF Positions
  <2>5. CASE t \ {x} # {}
    <3>1. PICK z \in t \ {x} : \A y \in t \ {x} : y <= z
      BY <2>3, <2>5
    <3>2. x \in Int /\ z \in Int /\ \A y \in t : y \in Int
      BY DEF Positions
    <3>3. (\A y \in t : y <= z) \/ (\A y \in t : y <= x)
      BY <3>1, <3>2
    <3> QED BY <3>1, <3>3, <2>2
  <2> QED BY <2>4, <2>5
<1>2. \E x \in s : \A y \in s : x >= y
  <2>1. s \notin C BY <1>1
  <2>2. PICK x \in s : \A y \in s : y <= x BY <2>1
  <2>3. x \in Int /\ \A y \in s : y \in Int BY DEF Positions
  <2> QED BY <2>2, <2>3
<1>3. Max(s) \in s /\ \A y \in s : Max(s) >= y
  BY <1>2, Zenon DEF Max
<1>4. \A y \in s : y \in Int
  BY DEF Positions
<1> QED
  BY <1>3, <1>4

\* The last of the first k positions is k.
LEMMA LastOfFirst ==
  ASSUME NEW k \in Nat \ {0}
  PROVE  Max(1..k) = k /\ (1..k) \ {Max(1..k)} = 1..(k - 1)
<1> DEFINE s == 1..k
<1>1. s \in SUBSET (1..k) /\ s # {} /\ k \in s
  OBVIOUS
<1>2. Max(s) \in s /\ k <= Max(s)
  <2> HIDE DEF s
  <2>1. Positions(1..k) BY FirstPositions
  <2> QED BY <1>1, <2>1, LastPosition
<1>3. Max(s) = k
  BY <1>2
<1> HIDE DEF s
<1> QED
  BY <1>3 DEF s

\* Two tables agree where both are defined.
LEMMA ReadsAgree ==
  ASSUME NEW f, NEW U, NEW V, Positions(U), NEW g, NEW h, Reads(f, g, U), Reads(f, h, V)
  PROVE  \A s \in (SUBSET U) \cap (SUBSET V) : g[s] = h[s]
<1> DEFINE C == {s \in (SUBSET U) \cap (SUBSET V) : g[s] # h[s]}
<1> SUFFICES ASSUME C # {} PROVE FALSE
  OBVIOUS
<1>1. C \subseteq SUBSET U
  OBVIOUS
<1>2. PICK s \in C : \A t \in C : t \subseteq s => t = s
  <2> HIDE DEF C
  <2> QED BY <1>1, Fewest
<1>3. g[s] = (IF s = {} THEN NoNumber ELSE ReadWord(g[s \ {Max(s)}], f[Max(s)]))
  BY Zenon DEF Reads
<1>4. h[s] = (IF s = {} THEN NoNumber ELSE ReadWord(h[s \ {Max(s)}], f[Max(s)]))
  BY Zenon DEF Reads
<1>5. s # {}
  BY <1>3, <1>4
<1>6. Max(s) \in s
  BY <1>5, LastPosition
<1>7. s \ {Max(s)} \notin C
  BY <1>2, <1>6
<1>8. g[s \ {Max(s)}] = h[s \ {Max(s)}]
  BY <1>7
<1> QED
  BY <1>3, <1>4, <1>5, <1>8

\* Every sequence has a table: the recursion of the fold is well founded.
LEMMA ReadsExists ==
  ASSUME NEW P, Positions(P), NEW f
  PROVE  \E g : Reads(f, g, P)
<1> DEFINE C == {T \in SUBSET P : ~ \E g : Reads(f, g, T)}
<1> SUFFICES ASSUME C # {} PROVE FALSE
  OBVIOUS
<1>2. PICK T \in C : \A U \in C : U \subseteq T => U = T
  <2>1. C \subseteq SUBSET P
    OBVIOUS
  <2> HIDE DEF C
  <2> QED BY <2>1, Fewest
<1> DEFINE tab(U) == CHOOSE g : Reads(f, g, U)
           rest(s) == s \ {Max(s)}
           h == [s \in SUBSET T |-> IF s = {} THEN NoNumber
                                   ELSE ReadWord(tab(rest(s))[rest(s)], f[Max(s)])]
<1>3. \A s \in SUBSET T : s # {} => Max(s) \in s
  BY LastPosition
<1>4. ASSUME NEW U \in SUBSET T, U # T PROVE Reads(f, tab(U), U)
  <2>1. U \notin C
    BY <1>2, <1>4
  <2> QED
    BY <2>1
<1>5. ASSUME NEW s \in SUBSET T, s # {}
      PROVE  h[rest(s)] = tab(rest(s))[rest(s)]
  <2> DEFINE u == rest(s)
             v == rest(u)
  <2>1. u \in SUBSET T /\ u # T
    BY <1>5, <1>3
  <2>2. Reads(f, tab(u), u)
    BY <2>1, <1>4
  <2>3. tab(u)[u] = IF u = {} THEN NoNumber ELSE ReadWord(tab(u)[v], f[Max(u)])
    <3> HIDE DEF tab, u
    <3> QED BY <2>2, Zenon DEF Reads
  <2>4. h[u] = IF u = {} THEN NoNumber ELSE ReadWord(tab(v)[v], f[Max(u)])
    <3> HIDE DEF tab, u
    <3> QED BY <2>1, Zenon
  <2>5. CASE u = {}
    <3>1. h[u] = tab(u)[u]
      <4> HIDE DEF h, tab, u, v
      <4> QED BY <2>5, <2>3, <2>4
    <3> QED BY <3>1
  <2>6. CASE u # {}
    <3>1. v \in SUBSET T /\ v # T /\ v \subseteq u
      BY <2>1
    <3>2. Reads(f, tab(v), v)
      BY <3>1, <1>4
    <3>3. tab(u)[v] = tab(v)[v]
      <4>1. Positions(u)
        BY <2>1, FS_Subset DEF Positions
      <4> HIDE DEF tab, u, v
      <4>2. \A w \in (SUBSET u) \cap (SUBSET v) : tab(u)[w] = tab(v)[w]
        BY <4>1, <2>2, <3>2, ReadsAgree
      <4> QED BY <4>2, <3>1
    <3>4. h[u] = tab(u)[u]
      <4> HIDE DEF h, tab, u, v
      <4> QED BY <3>3, <2>6, <2>3, <2>4
    <3> QED BY <3>4
  <2> QED BY <2>5, <2>6
<1>6. Reads(f, h, T)
  <2> DEFINE k == [s \in SUBSET T |-> IF s = {} THEN NoNumber
                                      ELSE ReadWord(h[rest(s)], f[Max(s)])]
  <2>1. ASSUME NEW s \in SUBSET T PROVE h[s] = k[s]
    <3>1. CASE s = {} BY <3>1, Zenon
    <3>2. CASE s # {}
      <4>1. h[s] = ReadWord(tab(rest(s))[rest(s)], f[Max(s)])
        <5> HIDE DEF tab, rest
        <5> QED BY <3>2, Zenon
      <4>2. k[s] = ReadWord(h[rest(s)], f[Max(s)])
        <5> HIDE DEF h, rest
        <5> QED BY <3>2, Zenon
      <4>3. h[rest(s)] = tab(rest(s))[rest(s)]
        BY <3>2, <1>5
      <4> HIDE DEF h, k, tab, rest
      <4> QED BY <4>1, <4>2, <4>3
    <3> QED BY <3>1, <3>2
  <2>2. h = k
    <3>1. \A s \in SUBSET T : h[s] = k[s]
      <4> HIDE DEF h, k
      <4> QED BY <2>1
    <3> HIDE DEF tab, rest
    <3> QED BY <3>1, Zenon
  <2> HIDE DEF h
  <2> QED BY <2>2, Zenon DEF Reads
<1>7. T \in C OBVIOUS
<1> HIDE DEF h
<1> QED
  BY <1>6, <1>7

\* The fold, word by word: h[k] is what is known after k words.
LEMMA Unrolled ==
  ASSUME NEW n \in Nat, NEW f, DOMAIN f = 1..n
  PROVE  \E h : /\ h[0] = NoNumber
                /\ \A k \in 1..n : h[k] = ReadWord(h[k - 1], f[k])
                /\ ExtractNumber(f) = h[n].value
<1> DEFINE g == CHOOSE g : Reads(f, g, 1..n)
           h == [k \in 0..n |-> g[1..k]]
<1>1. Reads(f, g, 1..n)
  <2> DEFINE P == 1..n
  <2>1. Positions(P)
    BY FirstPositions
  <2>2. \E t : Reads(f, t, P)
    <3> HIDE DEF P
    <3> QED BY <2>1, ReadsExists
  <2> QED
    BY <2>2, Zenon
<1>2. ExtractNumber(f) = g[1..n].value
  BY DEF ExtractNumber, FoldLeft, MapThenFoldSet, Reads
<1> HIDE DEF g
<1>3. h[0] = NoNumber
  <2>1. h[0] = g[1..0] /\ 1..0 = {} /\ {} \in SUBSET (1..n)
    OBVIOUS
  <2>2. g[{}] = NoNumber
    BY <1>1, Zenon DEF Reads
  <2> QED
    BY <2>1, <2>2
<1>4. ASSUME NEW k \in 1..n PROVE h[k] = ReadWord(h[k - 1], f[k])
  <2> DEFINE s == 1..k
  <2>1. s \in SUBSET (1..n) /\ s # {}
    <3>1. k \in s OBVIOUS
    <3>2. \A x \in s : x \in 1..n OBVIOUS
    <3> HIDE DEF s
    <3> QED BY <3>1, <3>2
  <2>2. Max(s) = k /\ s \ {Max(s)} = 1..(k - 1)
    BY LastOfFirst
  <2>3. h[k] = g[s] /\ h[k - 1] = g[1..(k - 1)]
    OBVIOUS
  <2>4. g[s] = ReadWord(g[s \ {Max(s)}], f[Max(s)])
    <3> HIDE DEF s
    <3> QED BY <1>1, <2>1, Zenon DEF Reads
  <2> HIDE DEF h, s
  <2> QED BY <2>2, <2>3, <2>4
<1> QED
  <2>1. h[n] = g[1..n]
    OBVIOUS
  <2> HIDE DEF h
  <2> QED BY <1>2, <1>3, <1>4, <2>1

-----------------------------------------------------------------------------
\* The words.

\* A token is the word w, and is recognised as it.
Clear(token, w) ==
  token.word = w /\ ~ (token.stretched /\ w \in Doubled)

\* The words for small numbers and for tens are different words.
LEMMA Different ==
  /\ \A i, j \in 1..19 : Ones[i] = Ones[j] => i = j
  /\ \A i, j \in 1..9 : Tens[i] = Tens[j] => i = j
  /\ \A i \in 1..19, j \in 2..9 : Ones[i] # Tens[j]
  /\ \A i \in 1..19 : Ones[i] \notin {"zero", "hundred", "thousand"}
  /\ \A i \in 1..9 : Tens[i] \notin {"zero", "hundred", "thousand"}
BY DEF Ones, Tens

LEMMA Lists == Len(Ones) = 19 /\ Len(Tens) = 9
BY DEF Ones, Tens

\* A clear word for a small number is looked up as that number,
LEMMA OnesRead ==
  ASSUME NEW i \in 1..19, NEW token, Clear(token, Ones[i])
  PROVE  Lookup(token) = i /\ Magnitude(token) = 0
<1>1. token.word = Ones[i] /\ ~ (token.stretched /\ token.word \in Doubled)
  BY DEF Clear
<1>2. Contains(Ones, token.word) /\ token.word \notin {"zero", "hundred", "thousand"}
  BY <1>1, Lists, Different DEF Contains
<1>3. (CHOOSE j \in 1..19 : Ones[j] = token.word) = i
  BY <1>1, Different
<1> QED
  BY <1>1, <1>2, <1>3, Zenon DEF Lookup, Magnitude

\* one for tens as the tens,
LEMMA TensRead ==
  ASSUME NEW i \in 2..9, NEW token, Clear(token, Tens[i])
  PROVE  Lookup(token) = 10 * i /\ Magnitude(token) = 0
<1>1. token.word = Tens[i] /\ ~ (token.stretched /\ token.word \in Doubled)
  BY DEF Clear
<1>2. ~ Contains(Ones, token.word)
  BY <1>1, Lists, Different DEF Contains
<1>3. Contains(Tens, token.word) /\ token.word \notin {"zero", "hundred", "thousand"}
  BY <1>1, Lists, Different DEF Contains
<1>4. (CHOOSE j \in 2..9 : Tens[j] = token.word) = i
  BY <1>1, Different
<1> QED
  BY <1>1, <1>2, <1>3, <1>4, Zenon DEF Lookup, Magnitude

\* and "zero" and "hundred" as what they are.
LEMMA OthersRead ==
  ASSUME NEW token
  PROVE  /\ Clear(token, "zero") => Lookup(token) = 0 /\ Magnitude(token) = 0
         /\ Clear(token, "hundred") => Magnitude(token) = 100
<1>1. "zero" \notin Doubled
  <2>1. \A i \in 13..19 : Ones[i] # "zero"
    BY Different
  <2> QED BY <2>1 DEF Doubled
<1> QED
  BY <1>1 DEF Clear, Lookup, Magnitude

\* After some number words and nothing else, value is known.
Known(acc, at, value) ==
  /\ acc \in [at : Nat, run : BOOLEAN, value : Int]
  /\ acc.at = at /\ (acc.run <=> at > 0)
  /\ value = IF at = 0 THEN 0 ELSE acc.value

LEMMA NothingKnown == Known(NoNumber, 0, 0)
BY DEF NoNumber, Known

\* A word for a small number is added;
LEMMA SmallWord ==
  ASSUME NEW acc, NEW at \in Nat, NEW value \in Int, Known(acc, at, value), NEW token,
         NEW small \in Nat, Lookup(token) = small, Magnitude(token) = 0
  PROVE  Known(ReadWord(acc, token), at + 1, value + small)
<1> DEFINE next == [acc EXCEPT !.at = @ + 1]
<1>1. next \in [at : Nat, run : BOOLEAN, value : Int] /\ next.at = at + 1 /\ next.value = acc.value
  BY DEF Known
<1>2. ReadWord(acc, token) =
        [next EXCEPT !.value = (IF acc.run THEN @ ELSE 0) + small, !.run = TRUE]
  <2>1. ~ (Magnitude(token) > 0) /\ small >= 0
    OBVIOUS
  <2> QED BY <2>1, Zenon DEF ReadWord
<1> HIDE DEF next
<1>3. (IF acc.run THEN next.value ELSE 0) = value
  BY <1>1 DEF Known
<1>4. ReadWord(acc, token) = [next EXCEPT !.value = value + small, !.run = TRUE]
  BY <1>2, <1>3
<1> DEFINE new == ReadWord(acc, token)
<1>5. new \in [at : Nat, run : BOOLEAN, value : Int]
  <2> DEFINE sum == [next EXCEPT !.value = value + small]
  <2>1. sum \in [at : Nat, run : BOOLEAN, value : Int]
    BY <1>1
  <2>2. new = [sum EXCEPT !.run = TRUE]
    BY <1>4
  <2> HIDE DEF sum, new
  <2> QED
    BY <2>1, <2>2
<1>6. new.at = at + 1 /\ new.run /\ new.value = value + small
  BY <1>1, <1>4
<1> HIDE DEF new
<1>7. Known(new, at + 1, value + small)
  BY <1>5, <1>6 DEF Known
<1> QED
  BY <1>7 DEF new

\* "hundred" multiplies.
LEMMA Hundred ==
  ASSUME NEW acc, NEW at \in Nat, NEW value \in Int, Known(acc, at, value), at > 0,
         NEW token, Clear(token, "hundred")
  PROVE  Known(ReadWord(acc, token), at + 1, value * 100)
<1> DEFINE next == [acc EXCEPT !.at = @ + 1]
<1>1. /\ next \in [at : Nat, run : BOOLEAN, value : Int] /\ next.at = at + 1
      /\ next.value = value /\ next.run = acc.run /\ acc.run
  BY DEF Known
<1>2. ReadWord(acc, token) = [next EXCEPT !.value = @ * 100]
  <2>1. Magnitude(token) = 100
    BY OthersRead, Zenon
  <2>2. Magnitude(token) > 0
    BY <2>1
  <2> QED BY <1>1, <2>1, <2>2, Zenon DEF ReadWord, Scale
<1> HIDE DEF next
<1> DEFINE new == ReadWord(acc, token)
<1>3. new \in [at : Nat, run : BOOLEAN, value : Int]
  BY <1>1, <1>2
<1>4. new.at = at + 1 /\ new.run /\ new.value = value * 100
  BY <1>1, <1>2
<1> HIDE DEF new
<1>5. Known(new, at + 1, value * 100)
  BY <1>3, <1>4 DEF Known
<1> QED
  BY <1>5 DEF new

-----------------------------------------------------------------------------
\* The numbers.

NumberWord == {Ones[i] : i \in 1..19} \cup {Tens[i] : i \in 1..9} \cup {"zero", "hundred"}

LEMMA NumberWords ==
  /\ \A i \in 1..19 : Ones[i] \in NumberWord
  /\ \A i \in 1..9 : Tens[i] \in NumberWord
  /\ "zero" \in NumberWord /\ "hundred" \in NumberWord
BY DEF NumberWord

LEMMA OneAndOne ==
  ASSUME NEW a \in NumberWord, NEW b \in NumberWord
  PROVE  <<a>> \o <<b>> = <<a, b>>
<1> DEFINE s == <<a>>
           t == <<b>>
<1>1. s \in Seq(NumberWord) /\ t \in Seq(NumberWord) /\ Len(s) = 1 /\ Len(t) = 1
      /\ s[1] = a /\ t[1] = b
  OBVIOUS
<1>2. /\ s \o t \in Seq(NumberWord) /\ Len(s \o t) = 2
      /\ (s \o t)[1] = a /\ (s \o t)[2] = b
  <2> HIDE DEF s, t
  <2>1. /\ s \o t \in Seq(NumberWord) /\ Len(s \o t) = Len(s) + Len(t)
        /\ \A i \in 1..(Len(s) + Len(t)) :
             (s \o t)[i] = IF i <= Len(s) THEN s[i] ELSE t[i - Len(s)]
    BY <1>1, ConcatProperties, Zenon
  <2> QED BY <1>1, <2>1
<1>3. <<a, b>> \in Seq(NumberWord) /\ Len(<<a, b>>) = 2 /\ <<a, b>>[1] = a /\ <<a, b>>[2] = b
  OBVIOUS
<1> HIDE DEF s, t
<1>4. s \o t = <<a, b>>
  <2>1. \A i \in 1..Len(s \o t) : (s \o t)[i] = <<a, b>>[i]
    <3>1. \A i \in 1..Len(s \o t) : i = 1 \/ i = 2 BY <1>2
    <3> QED BY <1>2, <1>3, <3>1, Zenon
  <2>2. Len(s \o t) = Len(<<a, b>>) BY <1>2, <1>3
  <2> QED BY <1>2, <1>3, <2>1, <2>2, SeqEqual, Zenon
<1> QED
  BY <1>4 DEF s, t

\* A number below a hundred is no word, one word or two.
LEMMA WordsBelow100 ==
  ASSUME NEW m \in 0..99
  PROVE  \/ m = 0 /\ Below100(m) = <<>>
         \/ m \in 1..19 /\ Below100(m) = <<Ones[m]>>
         \/ \E t \in 2..9 : m = 10 * t /\ Below100(m) = <<Tens[t]>>
         \/ \E t \in 2..9, u \in 1..9 : m = 10 * t + u /\ Below100(m) = <<Tens[t], Ones[u]>>
<1>1. m = 10 * (m \div 10) + (m % 10) /\ m % 10 \in 0..9 /\ m \div 10 \in 0..9
  OBVIOUS
<1> DEFINE t == m \div 10
           u == m % 10
<1>2. CASE m < 20
  BY <1>2 DEF Below100
<1>3. CASE m >= 20 /\ u = 0
  <2>1. t \in 2..9
    BY <1>1, <1>3
  <2>2. Below100(m) = <<Tens[t]>> \o <<>>
    BY <1>3 DEF Below100
  <2>3. Below100(m) = <<Tens[t]>>
    BY <2>2
  <2> QED
    BY <1>1, <1>3, <2>1, <2>3
<1>4. CASE m >= 20 /\ u # 0
  <2>1. t \in 2..9 /\ u \in 1..9
    BY <1>1, <1>4
  <2>2. Below100(m) = <<Tens[t]>> \o <<Ones[u]>>
    BY <1>4 DEF Below100
  <2>3. Below100(m) = <<Tens[t], Ones[u]>>
    BY <2>1, <2>2, NumberWords, OneAndOne
  <2> QED
    BY <1>1, <2>1, <2>3
<1> QED
  BY <1>2, <1>3, <1>4

LEMMA WordsTyped == ASSUME NEW m \in 0..99 PROVE Below100(m) \in Seq(NumberWord)
<1>1. \A a \in NumberWord : <<a>> \in Seq(NumberWord)
  OBVIOUS
<1>2. \A a, b \in NumberWord : <<a, b>> \in Seq(NumberWord)
  OBVIOUS
<1>3. <<>> \in Seq(NumberWord)
  OBVIOUS
<1>4. \A i \in 2..9 : i \in 1..9
  OBVIOUS
<1>5. \A i \in 1..9 : i \in 1..19
  OBVIOUS
<1>6. \/ Below100(m) = <<>>
      \/ \E i \in 1..19 : Below100(m) = <<Ones[i]>>
      \/ \E t \in 2..9 : Below100(m) = <<Tens[t]>>
      \/ \E t \in 2..9, u \in 1..9 : Below100(m) = <<Tens[t], Ones[u]>>
  BY WordsBelow100, Zenon
<1>7. CASE Below100(m) = <<>>
  BY <1>3, <1>7, Zenon
<1>8. ASSUME NEW i \in 1..19, Below100(m) = <<Ones[i]>> PROVE Below100(m) \in Seq(NumberWord)
  BY <1>1, <1>8, NumberWords, Zenon
<1>9. ASSUME NEW t \in 2..9, Below100(m) = <<Tens[t]>> PROVE Below100(m) \in Seq(NumberWord)
  BY <1>1, <1>4, <1>9, NumberWords, Zenon
<1>10. ASSUME NEW t \in 2..9, NEW u \in 1..9, Below100(m) = <<Tens[t], Ones[u]>>
       PROVE  Below100(m) \in Seq(NumberWord)
  BY <1>2, <1>4, <1>5, <1>10, NumberWords, Zenon
<1> QED
  BY <1>6, <1>7, <1>8, <1>9, <1>10, Zenon

Readable == 0..999

LEMMA ReadableAre == \A n \in Readable : n \in Nat /\ n # -1 /\ 0 + n = n
BY DEF Readable

\* One from a hundred on begins with two words for the hundreds.
LEMMA WordsBelow1000 ==
  ASSUME NEW n \in Readable, n # 0
  PROVE  /\ n < 100 => InWords(n) = Below100(n)
         /\ n >= 100 =>
              \E h \in 1..9, m \in 0..99 :
                n = 100 * h + m /\ InWords(n) = <<Ones[h], "hundred">> \o Below100(m)
<1>1. n % 1000 = n /\ n # 0 /\ n < 1000 /\ n \in Nat
  BY DEF Readable
<1>2. InWords(n) = <<>> \o Below1000(n)
  BY <1>1 DEF InWords
<1>4. CASE n < 100
  <2>1. n % 100 = n /\ n \in 0..99 /\ ~ (n >= 100)
    BY <1>1, <1>4
  <2>2. InWords(n) = <<>> \o (<<>> \o Below100(n))
    BY <1>2, <1>4, <2>1 DEF Below1000
  <2>3. InWords(n) = Below100(n)
    BY <2>1, <2>2, WordsTyped
  <2> QED
    BY <2>1, <2>3, Zenon
<1>5. CASE n >= 100
  <2>1. PICK h \in 1..9, m \in 0..99 :
          n = 100 * h + m /\ h = n \div 100 /\ m = n % 100 /\ ~ (n < 100)
    BY <1>1, <1>5
  <2>2. InWords(n) = <<>> \o (<<Ones[h], "hundred">> \o Below100(m))
    BY <1>2, <2>1, Zenon DEF Below1000
  <2>3. Ones[h] \in NumberWord /\ "hundred" \in NumberWord /\ Below100(m) \in Seq(NumberWord)
    <3>1. h \in 1..19 OBVIOUS
    <3> QED BY <3>1, WordsTyped, NumberWords, Zenon
  <2>4. InWords(n) = <<Ones[h], "hundred">> \o Below100(m)
    BY <2>2, <2>3
  <2> QED
    BY <2>1, <2>4, Zenon
<1> QED
  BY <1>4, <1>5

-----------------------------------------------------------------------------
\* The word w stands for the number k wherever it is clear.
Spells(w, k) ==
  /\ w \in NumberWord /\ k \in Nat
  /\ \A token : Clear(token, w) => Lookup(token) = k /\ Magnitude(token) = 0

\* The words for a number from one to ninety-nine spell its summands.
LEMMA Spelled ==
  ASSUME NEW m \in 1..99
  PROVE  \/ \E w : Spells(w, m) /\ Below100(m) = <<w>>
         \/ \E w, x : \E k, l \in Nat :
              k + l = m /\ Spells(w, k) /\ Spells(x, l) /\ Below100(m) = <<w, x>>
<1>1. ASSUME NEW i \in 1..19 PROVE Spells(Ones[i], i)
  <2>1. \A token : Clear(token, Ones[i]) => Lookup(token) = i /\ Magnitude(token) = 0
    BY OnesRead, Zenon
  <2>2. i \in Nat
    OBVIOUS
  <2> QED
    BY <2>1, <2>2, NumberWords, Zenon DEF Spells
<1>2. ASSUME NEW t \in 2..9 PROVE Spells(Tens[t], 10 * t)
  <2>1. \A token : Clear(token, Tens[t]) => Lookup(token) = 10 * t /\ Magnitude(token) = 0
    BY TensRead, Zenon
  <2>2. t \in 1..9 /\ 10 * t \in Nat
    OBVIOUS
  <2> QED
    BY <2>1, <2>2, NumberWords, Zenon DEF Spells
<1>3. \/ m \in 1..19 /\ Below100(m) = <<Ones[m]>>
      \/ \E t \in 2..9 : m = 10 * t /\ Below100(m) = <<Tens[t]>>
      \/ \E t \in 2..9, u \in 1..9 : m = 10 * t + u /\ Below100(m) = <<Tens[t], Ones[u]>>
  <2>1. m \in 0..99 /\ m # 0
    OBVIOUS
  <2> QED
    BY <2>1, WordsBelow100, Zenon
<1>4. CASE m \in 1..19 /\ Below100(m) = <<Ones[m]>>
  BY <1>1, <1>4, Zenon
<1>5. ASSUME NEW t \in 2..9, m = 10 * t, Below100(m) = <<Tens[t]>>
      PROVE  \E w : Spells(w, m) /\ Below100(m) = <<w>>
  BY <1>2, <1>5, Zenon
<1>6. ASSUME NEW t \in 2..9, NEW u \in 1..9, m = 10 * t + u, Below100(m) = <<Tens[t], Ones[u]>>
      PROVE  \E w, x : \E k, l \in Nat :
               k + l = m /\ Spells(w, k) /\ Spells(x, l) /\ Below100(m) = <<w, x>>
  <2>1. u \in 1..19 /\ u \in Nat /\ 10 * t \in Nat /\ 10 * t + u = m
    BY <1>6
  <2> QED
    BY <1>1, <1>2, <1>6, <2>1, Zenon
<1> QED
  BY <1>3, <1>4, <1>5, <1>6, Zenon

\* A clear word for a number adds it.
LEMMA SpelledRead ==
  ASSUME NEW w, NEW k, Spells(w, k), NEW token, Clear(token, w),
         NEW acc, NEW at \in Nat, NEW value \in Int, Known(acc, at, value)
  PROVE  Known(ReadWord(acc, token), at + 1, value + k)
<1>1. k \in Nat /\ Lookup(token) = k /\ Magnitude(token) = 0
  BY Zenon DEF Spells
<1> QED
  BY <1>1, SmallWord, Zenon

\* The words for a number below a hundred add it.
LEMMA ReadBelow100 ==
  ASSUME NEW m \in 1..99, NEW p \in Nat, NEW h, NEW f, NEW value \in Int, Known(h[p], p, value),
         \A i \in 1..Len(Below100(m)) : /\ h[p + i] = ReadWord(h[p + i - 1], f[p + i])
                                        /\ Clear(f[p + i], Below100(m)[i])
  PROVE  h[p + Len(Below100(m))].value = value + m
<1> DEFINE ws == Below100(m)
<1>1. \A i \in 1..Len(ws) : h[p + i] = ReadWord(h[p + i - 1], f[p + i]) /\ Clear(f[p + i], ws[i])
  OBVIOUS
<1> HIDE DEF ws
<1>2. ASSUME NEW w, Spells(w, m), ws = <<w>>
      PROVE  h[p + Len(ws)].value = value + m
  <2>1. Len(ws) = 1 /\ ws[1] = w
    BY <1>2
  <2>2. h[p + 1] = ReadWord(h[p], f[p + 1]) /\ Clear(f[p + 1], w)
    BY <1>1, <2>1
  <2>3. Known(ReadWord(h[p], f[p + 1]), p + 1, value + m)
    BY <1>2, <2>2, SpelledRead, Zenon
  <2> QED
    BY <2>1, <2>2, <2>3 DEF Known
<1>3. ASSUME NEW w, NEW x, NEW k \in Nat, NEW l \in Nat,
             k + l = m, Spells(w, k), Spells(x, l), ws = <<w, x>>
      PROVE  h[p + Len(ws)].value = value + m
  <2>1. Len(ws) = 2 /\ ws[1] = w /\ ws[2] = x
    BY <1>3
  <2>2. /\ h[p + 1] = ReadWord(h[p], f[p + 1]) /\ Clear(f[p + 1], w)
        /\ h[p + 2] = ReadWord(h[p + 1], f[p + 2]) /\ Clear(f[p + 2], x)
    BY <1>1, <2>1
  <2>3. Known(h[p + 1], p + 1, value + k)
    <3>1. Known(ReadWord(h[p], f[p + 1]), p + 1, value + k)
      BY <1>3, <2>2, SpelledRead, Zenon
    <3> QED BY <2>2, <3>1, Zenon
  <2>4. p + 1 \in Nat /\ value + k \in Int
    OBVIOUS
  <2>5. Known(h[p + 2], (p + 1) + 1, (value + k) + l)
    <3>1. Known(ReadWord(h[p + 1], f[p + 2]), (p + 1) + 1, (value + k) + l)
      BY <1>3, <2>2, <2>3, <2>4, SpelledRead, Zenon
    <3> QED BY <2>2, <3>1, Zenon
  <2>6. h[p + 2].value = value + k + l
    BY <2>5 DEF Known
  <2> QED
    BY <1>3, <2>1, <2>6
<1>4. h[p + Len(ws)].value = value + m
  BY <1>2, <1>3, Spelled, Zenon DEF ws
<1> QED
  BY <1>4 DEF ws

\* The challenge f is the words of n, all of them clear.
Hears(f, n) == DOMAIN f = DOMAIN InWords(n) /\ \A i \in DOMAIN f : Clear(f[i], InWords(n)[i])

\* The fold over the words f: h[k] is known after k of n words.
Steps(h, f, n) ==
  /\ h[0] = NoNumber
  /\ \A k \in 1..n : h[k] = ReadWord(h[k - 1], f[k])
  /\ ExtractNumber(f) = h[n].value

\* What is heard are the words of n, clear, and they are folded.
LEMMA Hearing ==
  ASSUME NEW n, NEW f, Hears(f, n), NEW ws, ws = InWords(n), ws \in Seq(NumberWord)
  PROVE  /\ \A i \in 1..Len(ws) : Clear(f[i], ws[i])
         /\ \E h : Steps(h, f, Len(ws))
<1>1. DOMAIN f = 1..Len(ws) /\ Len(ws) \in Nat
  BY DEF Hears
<1>2. \A i \in 1..Len(ws) : Clear(f[i], ws[i])
  BY <1>1, Zenon DEF Hears
<1>3. \E h : Steps(h, f, Len(ws))
  BY <1>1, Unrolled, Zenon DEF Steps
<1> QED
  BY <1>2, <1>3, Zenon

\* Every number below a thousand is extracted from its words.
THEOREM NumbersRead ==
  ASSUME NEW n \in Readable, NEW f, Hears(f, n)
  PROVE  ExtractNumber(f) = n
<1> DEFINE ws == InWords(n)
<1>1. CASE n = 0
  <2>1. ws = <<"zero">>
    BY <1>1 DEF InWords
  <2>2. ws \in Seq(NumberWord) /\ Len(ws) = 1 /\ ws[1] = "zero"
    <3> HIDE DEF ws
    <3> QED BY <2>1, NumberWords
  <2>3. \A i \in 1..Len(ws) : Clear(f[i], ws[i])
    BY <2>2, Hearing, Zenon
  <2>4. PICK h : Steps(h, f, Len(ws))
    BY <2>2, Hearing, Zenon
  <2> HIDE DEF ws
  <2>5. Clear(f[1], "zero") /\ h[1] = ReadWord(NoNumber, f[1])
    BY <2>2, <2>3, <2>4 DEF Steps
  <2>6. Lookup(f[1]) = 0 /\ Magnitude(f[1]) = 0
    BY <2>5, OthersRead, Zenon
  <2>7. Known(ReadWord(NoNumber, f[1]), 0 + 1, 0 + 0)
    <3>1. 0 \in Nat /\ 0 \in Int OBVIOUS
    <3> QED BY <3>1, <2>6, NothingKnown, SmallWord, Zenon
  <2>8. h[1].value = 0
    BY <2>5, <2>7 DEF Known
  <2> QED
    BY <1>1, <2>2, <2>4, <2>8 DEF Steps
<1>2. CASE n \in 1..99
  <2>1. ws = Below100(n) /\ ws \in Seq(NumberWord)
    <3>1. n # 0 /\ n < 100 /\ n \in 0..99
      BY <1>2
    <3> QED BY <3>1, WordsBelow1000, WordsTyped, Zenon
  <2>2. \A i \in 1..Len(ws) : Clear(f[i], ws[i])
    BY <2>1, Hearing, Zenon
  <2>3. PICK h : Steps(h, f, Len(ws))
    BY <2>1, Hearing, Zenon
  <2> HIDE DEF ws
  <2>4. Known(h[0], 0, 0) /\ Len(ws) \in Nat
    BY <2>1, <2>3, NothingKnown DEF Steps
  <2>5. ASSUME NEW i \in 1..Len(ws)
        PROVE  h[0 + i] = ReadWord(h[0 + i - 1], f[0 + i]) /\ Clear(f[0 + i], ws[i])
    <3>1. 0 + i = i /\ 0 + i - 1 = i - 1
      BY <2>4
    <3> QED
      BY <3>1, <2>2, <2>3, Zenon DEF Steps
  <2>6. h[0 + Len(ws)].value = 0 + n
    <3>1. 0 \in Nat /\ 0 \in Int OBVIOUS
    <3> QED BY <3>1, <1>2, <2>1, <2>4, <2>5, ReadBelow100, Zenon
  <2>7. 0 + Len(ws) = Len(ws) /\ 0 + n = n
    BY <2>4, ReadableAre
  <2> QED
    BY <2>3, <2>6, <2>7, Zenon DEF Steps
<1>3. CASE n >= 100
  <2>1. PICK d \in 1..9, m \in 0..99 :
          n = 100 * d + m /\ ws = <<Ones[d], "hundred">> \o Below100(m)
    <3>1. n # 0
      BY <1>3 DEF Readable
    <3> QED BY <1>3, <3>1, WordsBelow1000, Zenon
  <2> DEFINE two  == <<Ones[d], "hundred">>
             rest == Below100(m)
  <2>2. two \in Seq(NumberWord) /\ rest \in Seq(NumberWord)
    <3>1. d \in 1..19 OBVIOUS
    <3>2. Ones[d] \in NumberWord /\ "hundred" \in NumberWord
      BY <3>1, NumberWords, Zenon
    <3>3. rest \in Seq(NumberWord)
      BY WordsTyped, Zenon
    <3> QED
      BY <3>2, <3>3
  <2>12. /\ Len(two) = 2 /\ two[1] = Ones[d] /\ two[2] = "hundred"
    <3>1. d \in 1..19 OBVIOUS
    <3>2. Ones[d] \in NumberWord /\ "hundred" \in NumberWord
      BY <3>1, NumberWords, Zenon
    <3>3. rest \in Seq(NumberWord)
      BY WordsTyped, Zenon
    <3> QED
      BY <3>2, <3>3
  <2> HIDE DEF two, rest, ws
  <2>3. /\ ws \in Seq(NumberWord) /\ Len(ws) = Len(two) + Len(rest)
        /\ \A i \in 1..(Len(two) + Len(rest)) :
             ws[i] = IF i <= Len(two) THEN two[i] ELSE rest[i - Len(two)]
    <3>1. ws = two \o rest
      BY <2>1, Zenon DEF two, rest
    <3>2. /\ two \o rest \in Seq(NumberWord) /\ Len(two \o rest) = Len(two) + Len(rest)
          /\ \A i \in 1..(Len(two) + Len(rest)) :
               (two \o rest)[i] = IF i <= Len(two) THEN two[i] ELSE rest[i - Len(two)]
      BY <2>2, ConcatProperties, Zenon
    <3> QED
      BY <3>1, <3>2, Zenon
  <2>4. /\ Len(ws) = 2 + Len(rest) /\ Len(rest) \in Nat
        /\ ws[1] = Ones[d] /\ ws[2] = "hundred"
        /\ \A i \in 1..Len(rest) : ws[2 + i] = rest[i]
    BY <2>2, <2>12, <2>3
  <2>5. \A i \in 1..Len(ws) : Clear(f[i], ws[i])
    BY <2>3, Hearing, Zenon DEF ws
  <2>6. PICK h : Steps(h, f, Len(ws))
    BY <2>3, Hearing, Zenon DEF ws
  <2>7. /\ h[1] = ReadWord(NoNumber, f[1]) /\ Clear(f[1], Ones[d])
        /\ h[2] = ReadWord(h[1], f[2]) /\ Clear(f[2], "hundred")
    BY <2>4, <2>5, <2>6 DEF Steps
  <2>8. Known(h[1], 0 + 1, 0 + d)
    <3>1. d \in 1..19 /\ d \in Nat /\ 0 \in Nat /\ 0 \in Int
      OBVIOUS
    <3>2. Lookup(f[1]) = d /\ Magnitude(f[1]) = 0
      BY <3>1, <2>7, OnesRead, Zenon
    <3>3. Known(ReadWord(NoNumber, f[1]), 0 + 1, 0 + d)
      BY <3>1, <3>2, NothingKnown, SmallWord, Zenon
    <3> QED BY <3>3, <2>7, Zenon
  <2>9. Known(h[2], 2, 100 * d)
    <3>1. PICK at \in Nat, v \in Int : at = 0 + 1 /\ v = 0 + d /\ at > 0 /\ Known(h[1], at, v)
      <4>1. 0 + 1 \in Nat /\ 0 + d \in Int /\ 0 + 1 > 0
        OBVIOUS
      <4> QED BY <4>1, <2>8
    <3>5. at > 0 /\ Known(h[1], at, v)
      BY <3>1, Zenon
    <3>3. Known(ReadWord(h[1], f[2]), at + 1, v * 100)
      BY <2>7, <3>5, Hundred, Zenon
    <3>4. at + 1 = 2 /\ v * 100 = 100 * d
      BY <3>1
    <3> QED BY <3>3, <3>4, <2>7, Zenon
  <2>10. CASE m = 0
    <3>1. Len(rest) = 0
      BY <2>10, WordsBelow100 DEF rest
    <3>2. ExtractNumber(f) = h[2].value
      BY <2>4, <2>6, <3>1 DEF Steps
    <3> QED
      BY <2>1, <2>9, <2>10, <3>2 DEF Known
  <2>11. CASE m # 0
    <3>1. m \in 1..99 /\ 2 \in Nat /\ 100 * d \in Int
      BY <2>11
    <3>2. ASSUME NEW i \in 1..Len(rest)
          PROVE  h[2 + i] = ReadWord(h[2 + i - 1], f[2 + i]) /\ Clear(f[2 + i], rest[i])
      <4>1. 2 + i \in 1..Len(ws) /\ ws[2 + i] = rest[i]
        BY <2>4
      <4> QED
        BY <4>1, <2>5, <2>6 DEF Steps
    <3>3. h[2 + Len(rest)].value = 100 * d + m
      <4>1. PICK p \in Nat, v \in Int : p = 2 /\ v = 100 * d
        BY <3>1
      <4>2. \A i \in 1..Len(Below100(m)) : /\ h[p + i] = ReadWord(h[p + i - 1], f[p + i])
                                           /\ Clear(f[p + i], Below100(m)[i])
        BY <3>2, <4>1, Zenon DEF rest
      <4>3. Known(h[p], p, v)
        BY <4>1, <2>9, Zenon
      <4>4. h[p + Len(Below100(m))].value = v + m
        BY <3>1, <4>2, <4>3, ReadBelow100, Zenon
      <4> QED
        BY <4>1, <4>4, Zenon DEF rest
    <3> QED
      BY <2>1, <2>4, <2>6, <3>3 DEF Steps
  <2> QED
    BY <2>10, <2>11
<1> QED
  BY <1>1, <1>2, <1>3 DEF Readable

-----------------------------------------------------------------------------
\* The challenge is made of the words of what is asked, those after the
\* operation as they are spelled, and an answer is what is parsed from it.
ReadInv ==
  \E a \in Numbers, b \in Second, op \in Operation, stretchedOp \in BOOLEAN :
    \E places \in SUBSET DOMAIN InWords(a) :
      /\ asked = [op |-> op, first |-> a, second |-> b]
      /\ words = [before |-> Tokens(InWords(a), places), op |-> Token(op, stretchedOp),
                  after |-> Tokens(InWords(b), {})]
      /\ answer \in {<<>>, Parse(words)}

\* The words of a number, none of the stretched ones with a double letter.
LEMMA Heard ==
  ASSUME NEW n, NEW places,
         \A i \in DOMAIN InWords(n) : i \in places => InWords(n)[i] \notin Doubled
  PROVE  Hears(Tokens(InWords(n), places), n)
<1> DEFINE ws == InWords(n)
           f  == Tokens(ws, places)
<1> HIDE DEF ws
<1>1. DOMAIN f = DOMAIN ws
  BY DEF Tokens
<1>2. ASSUME NEW i \in DOMAIN ws PROVE Clear(f[i], ws[i])
  <2>1. f[i].word = ws[i] /\ (f[i].stretched => i \in places)
    BY DEF Tokens, Token
  <2>2. i \in places => ws[i] \notin Doubled
    BY DEF ws
  <2> HIDE DEF f
  <2> QED
    BY <2>1, <2>2, Zenon DEF Clear
<1>3. Hears(f, n)
  BY <1>1, <1>2, Zenon DEF Hears, ws
<1> QED
  BY <1>3 DEF ws

LEMMA ReadInit == Init => ReadInv
BY Zenon DEF Init, ReadInv

LEMMA ReadStep == ReadInv /\ [Next]_vars => ReadInv'
<1>1. ASSUME ReadInv, Solve PROVE ReadInv'
  BY <1>1, Zenon DEF ReadInv, Solve
<1>2. ASSUME ReadInv, UNCHANGED vars PROVE ReadInv'
  BY <1>2, Zenon DEF ReadInv, vars
<1> QED
  BY <1>1, <1>2 DEF Next

\* A number that may be asked is natural.
LEMMA AskedNat == ASSUME VerificationAssumption PROVE Numbers \subseteq Nat /\ Second \subseteq Nat
<1> DEFINE R == 0..9999
<1>1. Numbers \subseteq R
  BY DEF VerificationAssumption
<1>2. Second \subseteq R
  BY DEF VerificationAssumption
<1>3. R \subseteq Nat
  OBVIOUS
<1> HIDE DEF R
<1> QED
  BY <1>1, <1>2, <1>3, Zenon

LEMMA AskedReadable ==
  ASSUME VerificationAssumption
  PROVE  \A n \in Numbers \cup Second : n < 1000 => n \in Readable
<1>1. \A n \in Numbers \cup Second : n \in Nat
  BY AskedNat, Zenon
<1> QED
  BY <1>1 DEF Readable

\* What is answered to numbers below a thousand is what was asked.
LEMMA ReadSafe ==
  ASSUME \A n \in Numbers \cup Second : n < 1000 => n \in Readable
  PROVE  ReadInv => ReadsNumbersBelowThousand
<1> DEFINE Legible(n) == n < 1000
<1> SUFFICES ASSUME ReadInv, answer # <<>>, Recognisable,
                    Legible(asked.first), Legible(asked.second)
             PROVE  answer = Right
  BY DEF ReadsNumbersBelowThousand
<1>10. \A n \in Numbers \cup Second : Legible(n) => n \in Readable
  OBVIOUS
<1> HIDE DEF Legible
<1>1. PICK a \in Numbers, b \in Second, op \in Operation, stretchedOp \in BOOLEAN :
        \E places \in SUBSET DOMAIN InWords(a) :
          /\ asked = [op |-> op, first |-> a, second |-> b]
          /\ words = [before |-> Tokens(InWords(a), places), op |-> Token(op, stretchedOp),
                      after |-> Tokens(InWords(b), {})]
          /\ answer \in {<<>>, Parse(words)}
  BY Zenon DEF ReadInv
<1>2. PICK places \in SUBSET DOMAIN InWords(a) :
          /\ asked = [op |-> op, first |-> a, second |-> b]
          /\ words = [before |-> Tokens(InWords(a), places), op |-> Token(op, stretchedOp),
                      after |-> Tokens(InWords(b), {})]
          /\ answer \in {<<>>, Parse(words)}
  BY <1>1
<1>3. asked.op = op /\ asked.first = a /\ asked.second = b
  BY <1>2
<1>4. /\ words.before = Tokens(InWords(a), places) /\ words.after = Tokens(InWords(b), {})
      /\ words.op.word = op /\ words.op.stretched = stretchedOp
  BY <1>2, Zenon DEF Token
<1>5. a \in Readable /\ b \in Readable
  BY <1>3, <1>10, Zenon
<1>6. Hears(words.before, a)
  <2>1. ASSUME NEW i \in DOMAIN InWords(a), i \in places PROVE InWords(a)[i] \notin Doubled
    <3> DEFINE ws == InWords(a)
    <3> HIDE DEF ws
    <3>1. i \in DOMAIN ws /\ words.before = [j \in DOMAIN ws |-> Token(ws[j], j \in places)]
      BY <1>4, Zenon DEF ws, Tokens
    <3>2. i \in DOMAIN words.before /\ words.before[i] = Token(ws[i], i \in places)
      BY <3>1, Zenon
    <3>3. words.before[i].stretched /\ words.before[i].word = ws[i]
      <4>1. ASSUME NEW token, NEW w, token = Token(w, i \in places)
            PROVE  token.stretched /\ token.word = w
        BY <2>1, <4>1 DEF Token
      <4> QED
        BY <3>2, <4>1, Zenon
    <3> QED
      BY <3>2, <3>3, Zenon DEF Recognisable, ws
  <2> QED
    BY <1>4, <2>1, Heard, Zenon
<1>7. Hears(words.after, b)
  <2>1. \A i \in DOMAIN InWords(b) : i \in {} => InWords(b)[i] \notin Doubled
    OBVIOUS
  <2>2. Hears(Tokens(InWords(b), {}), b)
    BY Heard
  <2> QED
    BY <1>4, <2>2, Zenon
<1>8. ~ words.op.stretched /\ ~ (words.op.word = "divide" /\ b = 0)
  BY <1>3, <1>4, Zenon DEF Recognisable
<1>9. Parse(words) = <<op, a, b>>
  <2>1. ExtractNumber(words.before) = a /\ ExtractNumber(words.after) = b
    BY <1>5, <1>6, <1>7, NumbersRead, Zenon
  <2>2. a # -1 /\ b # -1
    BY <1>5, ReadableAre, Zenon
  <2> QED
    BY <1>4, <1>8, <2>1, <2>2, Zenon DEF Parse
<1> QED
  BY <1>2, <1>3, <1>9, Zenon DEF Right

\* Two numbers below a thousand are read as they were meant.
THEOREM NumbersBelowThousand ==
  ASSUME VerificationAssumption PROVE Spec => []ReadsNumbersBelowThousand
<1>1. ReadInv => ReadsNumbersBelowThousand
  BY AskedReadable, ReadSafe
<1> QED
  BY <1>1, ReadInit, ReadStep, PTL DEF Spec
=============================================================================

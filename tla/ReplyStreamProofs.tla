------------------------- MODULE ReplyStreamProofs -------------------------
(* What holds of the composer for every alphabet, amount, text and chunking. *)
EXTENDS ReplyStream, SequenceTheorems, WellFoundedInduction, TLAPS

\* The inductive form: who ends the message is settled when it ends.
SaidOnceInv ==
    /\ SaidOnce
    /\ phase = "stream" => how = "nobody"

\* A message is never started over once a piece of it is out: compose_stream asks for
\* a whole reply only while nothing was released.
THEOREM ReplyStreamSaidOnce == Spec => []SaidOnce
<1>1. Init => SaidOnceInv
  BY DEF Init, SaidOnceInv, SaidOnce
<1>2. SaidOnceInv /\ [Next]_vars => SaidOnceInv'
  <2> SUFFICES ASSUME SaidOnceInv, [Next]_vars
               PROVE  SaidOnceInv'
    OBVIOUS
  <2>1. CASE Chunk
    <3>1. PICK text, released, said :
              /\ phase = "stream" /\ sent' = released
              /\ \/ Finish(text, released, said)
                 \/ UNCHANGED <<phase, how>>
      BY <2>1 DEF Chunk
    <3>2. CASE Finish(text, released, said)
      BY <3>1, <3>2 DEF Finish, FallsBack, Closes, SaidOnceInv, SaidOnce
    <3>3. CASE UNCHANGED <<phase, how>>
      BY <3>1, <3>3 DEF SaidOnceInv, SaidOnce
    <3>4. QED
      BY <3>1, <3>2, <3>3
  <2>2. CASE Break
    BY <2>2 DEF Break, Finish, FallsBack, Closes, SaidOnceInv, SaidOnce
  <2>3. CASE Draft
    BY <2>3 DEF Draft, Over, SaidOnceInv, SaidOnce
  <2>4. CASE Down
    BY <2>4 DEF Down, Over, SaidOnceInv, SaidOnce
  <2>5. CASE UNCHANGED vars
    BY <2>5 DEF vars, SaidOnceInv, SaidOnce
  <2>6. QED
    BY <2>1, <2>2, <2>3, <2>4, <2>5 DEF Next
<1>3. SaidOnceInv => SaidOnce
  BY DEF SaidOnceInv
<1>4. QED
  BY <1>1, <1>2, <1>3, PTL DEF Spec

-----------------------------------------------------------------------------
(* Texts: what stays true of one when it is cut, stripped or added to. *)

\* A set of naturals has a least member, a bounded one a greatest.
LEMMA Least ==
  ASSUME NEW S \in SUBSET Nat, S # {}
  PROVE  \E x \in S : \A y \in S : x <= y
<1>1. \E x \in S : \A y \in S : <<y, x>> \notin OpToRel(<, Nat)
  BY NatLessThanWellFounded, WFMin
<1>2. PICK x \in S : \A y \in S : <<y, x>> \notin OpToRel(<, Nat)
  BY <1>1
<1>3. ASSUME NEW y \in S PROVE ~(y < x)
  <2>1. y \in Nat /\ x \in Nat
    OBVIOUS
  <2>2. <<y, x>> \in Nat \X Nat /\ <<y, x>>[1] = y /\ <<y, x>>[2] = x
    BY <2>1
  <2>3. <<y, x>> \notin {p \in Nat \X Nat : p[1] < p[2]}
    BY <1>2, Zenon DEF OpToRel
  <2>4. QED
    BY <2>2, <2>3
<1>4. \A y \in S : x <= y
  BY <1>3
<1>5. QED
  BY <1>4

LEMMA Greatest ==
  ASSUME NEW n \in Nat, NEW S \in SUBSET (0..n), S # {}
  PROVE  \E x \in S : \A y \in S : y <= x
<1> DEFINE T == {m \in 0..n : n - m \in S}
<1>1. T # {} /\ T \in SUBSET Nat
  <2>1. PICK x \in S : TRUE
    OBVIOUS
  <2>2. x \in 0..n
    OBVIOUS
  <2>3. n - (n - x) = x /\ n - x \in 0..n
    BY <2>2
  <2>4. n - x \in T
    BY <2>3
  <2>5. T \in SUBSET Nat
    OBVIOUS
  <2>6. QED
    BY <2>4, <2>5
<1>2. PICK m \in T : \A y \in T : m <= y
  BY <1>1, Least
<1>3. \A y \in S : y <= n - m
  <2> TAKE y \in S
  <2>1. n - (n - y) = y /\ n - y \in 0..n
    OBVIOUS
  <2>2. n - y \in T
    BY <2>1
  <2>3. QED
    BY <2>2, <1>2
<1>4. QED
  BY <1>2, <1>3

\* Taking the separators out of a text that has none changes nothing.
LEMMA PlainOfDigits ==
  ASSUME NEW s \in Seq(Symbols), \A i \in 1..Len(s) : s[i] # Comma
  PROVE  Plain(s) = s
<1> DEFINE F(h) == [k \in 0..Len(s) |->
                      IF k = 0 THEN <<>>
                      ELSE IF s[k] = Comma THEN h[k - 1] ELSE Append(h[k - 1], s[k])]
           g == [k \in 0..Len(s) |-> SubSeq(s, 1, k)]
           kept == CHOOSE h : h = F(h)
<1>0. Len(s) \in Nat
  OBVIOUS
<1>1. g = F(g)
  <2>1. ASSUME NEW k \in 0..Len(s), k # 0
        PROVE  SubSeq(s, 1, k) = Append(SubSeq(s, 1, k - 1), s[k])
    BY <2>1
  <2>2. SubSeq(s, 1, 0) = <<>>
    OBVIOUS
  <2>3. ASSUME NEW k \in 0..Len(s)
        PROVE  g[k] = IF k = 0 THEN <<>>
                      ELSE IF s[k] = Comma THEN g[k - 1] ELSE Append(g[k - 1], s[k])
    <3>1. CASE k = 0
      BY <3>1, <2>2, <1>0
    <3>2. CASE k # 0
      <4>1. k \in 1..Len(s) /\ k - 1 \in 0..Len(s)
        BY <3>2
      <4>2. g[k] = SubSeq(s, 1, k) /\ g[k - 1] = SubSeq(s, 1, k - 1)
        BY <4>1
      <4>3. QED
        BY <3>2, <4>1, <4>2, <2>1
    <3>3. QED
      BY <3>1, <3>2
  <2>4. QED
    BY <2>3
<1>2. kept = F(kept)
  BY <1>1
<1> HIDE DEF kept
<1>3. \A k \in 0..Len(s) : kept[k] = g[k]
  <2> DEFINE T == {k \in 0..Len(s) : kept[k] # g[k]}
  <2>1. SUFFICES ASSUME T # {} PROVE FALSE
    BY <2>1
  <2>2. PICK k \in T : \A y \in T : k <= y
    <3>1. T \in SUBSET Nat
      OBVIOUS
    <3> HIDE DEF T
    <3>2. QED
      BY <2>1, <3>1, Least
  <2>3. kept[k] = IF k = 0 THEN <<>>
                  ELSE IF s[k] = Comma THEN kept[k - 1] ELSE Append(kept[k - 1], s[k])
    BY <1>2
  <2>4. g[k] = IF k = 0 THEN <<>>
               ELSE IF s[k] = Comma THEN g[k - 1] ELSE Append(g[k - 1], s[k])
    BY <1>1
  <2>5. CASE k = 0
    BY <2>3, <2>4, <2>5
  <2>6. CASE k # 0
    <3>1. k - 1 \in 0..Len(s) /\ ~(k <= k - 1)
      BY <2>6
    <3>2. kept[k - 1] = g[k - 1]
      BY <3>1, <2>2
    <3>3. QED
      BY <2>3, <2>4, <3>2
  <2>7. QED
    BY <2>5, <2>6
<1>4. kept[Len(s)] = s
  <2>1. Len(s) \in 0..Len(s)
    BY <1>0
  <2>2. QED
    BY <1>3, <2>1, SubSeqFull
<1>5. QED
  BY <1>4 DEF Plain, kept

\* t is s without its first k symbols, white space all of them.
SaysTail(t, s, k) ==
    /\ k \in 0..Len(s) /\ Len(t) = Len(s) - k
    /\ \A i \in 1..k : s[i] = Space
    /\ \A i \in 1..Len(t) : t[i] = s[i + k]
\* t is what a text s becomes on the screen.
Says(t, s) == \E k \in 0..Len(s) : SaysTail(t, s, k)

\* What is told apart: digits, and the four other symbols.
LEMMA Marks ==
  /\ Space \notin Digits /\ Comma \notin Digits
  /\ Label \notin Digits /\ Other \notin Digits
  /\ Space # Comma /\ Space # Label /\ Comma # Label
BY ReplyStreamAssumption DEF Space, Comma, Label, Other

\* Two texts that agree on a stretch, k apart, have it as the same subsequence.
LEMMA SameStretch ==
  ASSUME NEW s \in Seq(Symbols), NEW t \in Seq(Symbols), NEW k \in Int,
         NEW i \in 1..Len(t), NEW j \in i..Len(t),
         \A m \in i..j : m + k \in 1..Len(s) /\ t[m] = s[m + k]
  PROVE  SubSeq(t, i, j) = SubSeq(s, i + k, j + k)
<1>1. SubSeq(t, i, j) \in Seq(Symbols) /\ Len(SubSeq(t, i, j)) = j - i + 1
      /\ \A m \in 1..(j - i + 1) : SubSeq(t, i, j)[m] = t[i + m - 1]
  <2>1. \A m \in i..j : t[m] \in Symbols
    BY ElementOfSeq
  <2>2. QED
    BY <2>1, SubSeqProperties
<1>2. SubSeq(s, i + k, j + k) \in Seq(Symbols) /\ Len(SubSeq(s, i + k, j + k)) = j - i + 1
      /\ \A m \in 1..(j - i + 1) : SubSeq(s, i + k, j + k)[m] = s[i + k + m - 1]
  <2>1. \A m \in (i + k)..(j + k) : s[m] \in Symbols
    <3> TAKE m \in (i + k)..(j + k)
    <3>1. m - k \in i..j /\ (m - k) + k = m
      OBVIOUS
    <3>2. QED
      BY <3>1, ElementOfSeq
  <2>2. i + k \in Int /\ j + k \in Int /\ i + k <= j + k /\ (j + k) - (i + k) + 1 = j - i + 1
    OBVIOUS
  <2>3. QED
    BY <2>1, <2>2, SubSeqProperties
<1>3. ASSUME NEW m \in 1..(j - i + 1)
      PROVE  SubSeq(t, i, j)[m] = SubSeq(s, i + k, j + k)[m]
  <2>1. i + m - 1 \in i..j /\ (i + m - 1) + k = i + k + m - 1
    OBVIOUS
  <2>2. QED
    BY <1>1, <1>2, <2>1
<1>4. QED
  BY <1>1, <1>2, <1>3, SeqEqual

\* A number stands in the tail exactly where it stands in the whole text.
LEMMA TailNumber ==
  ASSUME NEW s \in Seq(Symbols), NEW t \in Seq(Symbols), NEW k \in 0..Len(s),
         SaysTail(t, s, k), NEW i \in 1..Len(t), NEW j \in i..Len(t)
  PROVE  /\ i + k \in 1..Len(s) /\ j + k \in (i + k)..Len(s)
         /\ SubSeq(t, i, j) = SubSeq(s, i + k, j + k)
         /\ IsNumber(t, i, j) <=> IsNumber(s, i + k, j + k)
<1> DEFINE Body(x, a, b) == \A m \in a..b : x[m] \in Digits \cup {Comma}
           End(x, b) == b < Len(x) => x[b + 1] \notin Digits \cup {Comma}
           Start(x, a) == \A m \in 1..(a - 1) :
              x[m] \in Digits => \E l \in m..a : x[l] \notin Digits \cup {Comma}
<1>1. /\ Len(t) \in Nat /\ Len(s) \in Nat /\ Len(t) = Len(s) - k
      /\ i + k \in 1..Len(s) /\ j + k \in (i + k)..Len(s)
      /\ t[i] = s[i + k]
  BY DEF SaysTail
<1>2. SubSeq(t, i, j) = SubSeq(s, i + k, j + k)
  <2>1. \A m \in i..j : m + k \in 1..Len(s) /\ t[m] = s[m + k]
    BY <1>1 DEF SaysTail
  <2>2. k \in Int
    OBVIOUS
  <2> HIDE DEF Body, End, Start
  <2>3. QED
    BY <2>1, <2>2, SameStretch
<1>3. (\A m \in i..j : t[m] \in Digits \cup {Comma})
         <=> (\A m \in (i + k)..(j + k) : s[m] \in Digits \cup {Comma})
  <2>1. \A m \in i..j : m + k \in (i + k)..(j + k) /\ t[m] = s[m + k]
    BY <1>1 DEF SaysTail
  <2>2. \A m \in (i + k)..(j + k) : m - k \in i..j /\ (m - k) + k = m
    BY <1>1
  <2>3. QED
    BY <2>1, <2>2
<1>4. (j < Len(t) => t[j + 1] \notin Digits \cup {Comma})
         <=> (j + k < Len(s) => s[j + k + 1] \notin Digits \cup {Comma})
  <2>1. (j < Len(t)) <=> (j + k < Len(s))
    BY <1>1
  <2>2. j < Len(t) => t[j + 1] = s[j + k + 1]
    <3>1. j < Len(t) => j + 1 \in 1..Len(t) /\ (j + 1) + k = j + k + 1
      BY <1>1
    <3>2. QED
      BY <3>1 DEF SaysTail
  <2>3. QED
    BY <2>1, <2>2
<1>5. Start(t, i) <=> Start(s, i + k)
  <2>0. \A m \in 1..i : m + k \in 1..(i + k) /\ t[m] = s[m + k]
    BY <1>1 DEF SaysTail
  <2>1. ASSUME \A m \in 1..(i - 1) :
                  t[m] \in Digits => \E l \in m..i : t[l] \notin Digits \cup {Comma},
               NEW m \in 1..(i + k - 1), s[m] \in Digits
        PROVE  \E l \in m..(i + k) : s[l] \notin Digits \cup {Comma}
    <3>1. m > k
      <4>1. m <= k => s[m] = Space
        BY DEF SaysTail
      <4>2. QED
        BY <4>1, <2>1, Marks
    <3>2. m - k \in 1..(i - 1) /\ (m - k) + k = m
      BY <3>1, <1>1
    <3>3. PICK l \in (m - k)..i : t[l] \notin Digits \cup {Comma}
      <4>1. m - k \in 1..i
        BY <3>2
      <4>2. t[m - k] = s[(m - k) + k]
        BY <2>0, <4>1
      <4>3. t[m - k] \in Digits
        BY <2>1, <3>2, <4>2
      <4>4. QED
        BY <2>1, <3>2, <4>3
    <3>4. l + k \in m..(i + k) /\ l \in 1..i
      BY <3>2
    <3>5. QED
      BY <2>0, <3>3, <3>4
  <2>2. ASSUME \A m \in 1..(i + k - 1) :
                  s[m] \in Digits => \E l \in m..(i + k) : s[l] \notin Digits \cup {Comma},
               NEW m \in 1..(i - 1), t[m] \in Digits
        PROVE  \E l \in m..i : t[l] \notin Digits \cup {Comma}
    <3>1. m + k \in 1..(i + k - 1) /\ m \in 1..i
      BY <1>1
    <3>2. PICK l \in (m + k)..(i + k) : s[l] \notin Digits \cup {Comma}
      BY <2>0, <2>2, <3>1
    <3>3. l - k \in m..i /\ l - k \in 1..i /\ (l - k) + k = l
      BY <3>1
    <3>4. QED
      BY <2>0, <3>2, <3>3
  <2>3. QED
    BY <2>1, <2>2
<1>6. IsNumber(t, i, j) <=> IsNumber(s, i + k, j + k)
  <2>1. \A x, a, b : IsNumber(x, a, b)
                        <=> x[a] \in Digits /\ Body(x, a, b) /\ End(x, b) /\ Start(x, a)
    BY Zenon DEF IsNumber
  <2>2. Body(t, i, j) <=> Body(s, i + k, j + k)
    BY <1>3
  <2>3. End(t, j) <=> End(s, j + k)
    BY <1>4
  <2> HIDE DEF Body, End, Start
  <2>5. QED
    BY <1>1, <1>5, <2>1, <2>2, <2>3
<1>7. QED
  BY <1>1, <1>2, <1>6

\* Text put behind a space adds nothing to a number that stands before it.
LEMMA JoinedNumber ==
  ASSUME NEW a \in Seq(Symbols), NEW b \in Seq(Symbols), b # <<>>, b[1] = Space,
         NEW i \in 1..Len(a), NEW j \in i..Len(a \o b), IsNumber(a \o b, i, j)
  PROVE  /\ j \in i..Len(a)
         /\ SubSeq(a \o b, i, j) = SubSeq(a, i, j)
         /\ IsNumber(a, i, j)
<1> DEFINE r == a \o b
<1>1. /\ Len(a) \in Nat /\ Len(b) \in Nat \ {0} /\ Len(r) = Len(a) + Len(b)
      /\ r \in Seq(Symbols)
      /\ \A m \in 1..Len(a) : r[m] = a[m]
      /\ r[Len(a) + 1] = Space
  BY ConcatProperties, EmptySeq
<1> HIDE DEF r
<1>2. IsNumber(r, i, j)
  BY DEF r
<1>3. j <= Len(a)
  <2>1. SUFFICES ASSUME j > Len(a) PROVE FALSE
    BY <1>1
  <2>2. Len(a) + 1 \in i..j
    BY <1>1, <2>1
  <2>3. Space \in Digits \cup {Comma}
    BY <1>1, <1>2, <2>2 DEF IsNumber
  <2>4. QED
    BY <2>3, Marks
<1>4. j \in i..Len(a) /\ j \in i..Len(r)
  BY <1>1, <1>3
<1>5. SubSeq(r, i, j) = SubSeq(a, i, j)
  <2>1. \A m \in i..j : m + 0 \in 1..Len(r) /\ a[m] = r[m + 0]
    BY <1>1, <1>4
  <2>2. SubSeq(a, i, j) = SubSeq(r, i + 0, j + 0)
    BY <1>1, <1>4, <2>1, SameStretch
  <2>3. QED
    BY <2>2
<1>6. IsNumber(a, i, j)
  <2>1. a[i] \in Digits /\ \A m \in i..j : a[m] \in Digits \cup {Comma}
    BY <1>1, <1>2, <1>4 DEF IsNumber
  <2>2. j < Len(a) => a[j + 1] \notin Digits \cup {Comma}
    <3>1. j < Len(a) => j + 1 \in 1..Len(a) /\ j < Len(r)
      BY <1>1, <1>4
    <3>2. QED
      BY <1>1, <1>2, <3>1 DEF IsNumber
  <2>3. ASSUME NEW m \in 1..(i - 1), a[m] \in Digits
        PROVE  \E l \in m..i : a[l] \notin Digits \cup {Comma}
    <3>1. \E l \in m..i : r[l] \notin Digits \cup {Comma}
      <4>1. m \in 1..Len(a) /\ r[m] \in Digits
        BY <1>1, <2>3
      <4>2. \A n \in 1..(i - 1) :
               r[n] \in Digits => \E l \in n..i : r[l] \notin Digits \cup {Comma}
        BY <1>2, Zenon DEF IsNumber
      <4>3. QED
        BY <4>1, <4>2
    <3>2. QED
      BY <1>1, <3>1
  <2>4. QED
    BY <2>1, <2>2, <2>3 DEF IsNumber
<1>7. QED
  BY <1>4, <1>5, <1>6 DEF r

\* "No unsupported number", number by number.
LEMMA NoneUnsupported ==
  ASSUME NEW s \in Seq(Symbols)
  PROVE  UnsupportedNumbers(s) = {}
            <=> \A i \in 1..Len(s) : \A j \in i..Len(s) :
                   /\ IsNumber(s, i, j)
                   /\ Len(Plain(SubSeq(s, i, j))) >= MinDigits
                   => IsPartOf(Plain(SubSeq(s, i, j)), Amount)
<1> DEFINE Bad(n) == Len(n) >= MinDigits /\ ~IsPartOf(n, Amount)
           Fine == \A i \in 1..Len(s) : \A j \in i..Len(s) :
                      IsNumber(s, i, j) => ~Bad(Plain(SubSeq(s, i, j)))
<1>0. Len(s) \in Nat
  OBVIOUS
<1>1. UnsupportedNumbers(s)
         = {n \in {Plain(SubSeq(s, p[1], p[2])) : p \in Numbers(s)} : Bad(n)}
  BY DEF UnsupportedNumbers
<1> HIDE DEF Bad
<1>2. ASSUME UnsupportedNumbers(s) = {}, NEW i \in 1..Len(s), NEW j \in i..Len(s),
             IsNumber(s, i, j)
      PROVE  ~Bad(Plain(SubSeq(s, i, j)))
  <2>1. j \in 1..Len(s) /\ i <= j
    BY <1>0
  <2>2. <<i, j>> \in Numbers(s) /\ <<i, j>>[1] = i /\ <<i, j>>[2] = j
    BY <1>2, <2>1 DEF Numbers
  <2>3. Plain(SubSeq(s, i, j)) \in {Plain(SubSeq(s, p[1], p[2])) : p \in Numbers(s)}
    BY <2>2
  <2>4. QED
    BY <1>1, <1>2, <2>3
<1>3. ASSUME Fine PROVE UnsupportedNumbers(s) = {}
  <2>1. SUFFICES ASSUME NEW p \in Numbers(s) PROVE ~Bad(Plain(SubSeq(s, p[1], p[2])))
    BY <1>1
  <2>2. /\ p[1] \in 1..Len(s) /\ p[2] \in 1..Len(s) /\ p[1] <= p[2]
        /\ IsNumber(s, p[1], p[2])
    BY DEF Numbers
  <2>3. p[2] \in p[1]..Len(s)
    BY <2>2, <1>0
  <2>4. QED
    BY <1>3, <2>2, <2>3
<1>4. UnsupportedNumbers(s) = {} <=> Fine
  BY <1>2, <1>3
<1>5. QED
  BY <1>4 DEF Bad

\* Where the amount is found there is a digit.
LEMMA FoundAtDigit ==
  ASSUME NEW s \in Seq(Symbols), NEW i \in 1..Len(s), NEW j \in i..Len(s),
         SubSeq(s, i, j) = Amount \/ IsNumber(s, i, j)
  PROVE  s[i] \in Digits
<1>1. CASE IsNumber(s, i, j)
  BY <1>1 DEF IsNumber
<1>2. CASE SubSeq(s, i, j) = Amount
  <2>1. \A m \in i..j : s[m] \in Symbols
    BY ElementOfSeq
  <2>2. SubSeq(s, i, j)[1] = s[i]
    BY <2>1, SubSeqProperties
  <2>3. Len(Amount) \in Nat \ {0} /\ Amount \in Seq(Digits)
    BY ReplyStreamAssumption, EmptySeq
  <2>4. Amount[1] \in Digits
    BY <2>3, ElementOfSeq
  <2>5. QED
    BY <1>2, <2>2, <2>4
<1>3. QED
  BY <1>1, <1>2

\* Dropping the white space in front makes no number and loses no value.
LEMMA SaysSupported ==
  ASSUME NEW s \in Seq(Symbols), NEW t \in Seq(Symbols), Says(t, s),
         UnsupportedNumbers(s) = {}
  PROVE  UnsupportedNumbers(t) = {}
<1>1. PICK k \in 0..Len(s) : SaysTail(t, s, k)
  BY DEF Says
<1>2. ASSUME NEW i \in 1..Len(t), NEW j \in i..Len(t), IsNumber(t, i, j),
             Len(Plain(SubSeq(t, i, j))) >= MinDigits
      PROVE  IsPartOf(Plain(SubSeq(t, i, j)), Amount)
  <2>1. /\ i + k \in 1..Len(s) /\ j + k \in (i + k)..Len(s)
        /\ SubSeq(t, i, j) = SubSeq(s, i + k, j + k)
        /\ IsNumber(s, i + k, j + k)
    BY <1>1, <1>2, TailNumber
  <2>2. QED
    BY <1>2, <2>1, NoneUnsupported
<1>3. QED
  BY <1>2, NoneUnsupported

LEMMA SaysValue ==
  ASSUME NEW s \in Seq(Symbols), NEW t \in Seq(Symbols), Says(t, s),
         FindValue(s) # {}
  PROVE  FindValue(t) # {}
<1>1. PICK k \in 0..Len(s) : SaysTail(t, s, k)
  BY DEF Says
<1>2. PICK i \in 1..Len(s) : \E j \in i..Len(s) :
         \/ SubSeq(s, i, j) = Amount
         \/ IsNumber(s, i, j) /\ Plain(SubSeq(s, i, j)) = Amount
  BY DEF FindValue
<1>2a. PICK j \in i..Len(s) :
         \/ SubSeq(s, i, j) = Amount
         \/ IsNumber(s, i, j) /\ Plain(SubSeq(s, i, j)) = Amount
  BY <1>2
<1>3. i > k
  <2>1. i <= k => s[i] = Space
    BY <1>1 DEF SaysTail
  <2>2. s[i] \in Digits
    BY <1>2a, FoundAtDigit
  <2>3. QED
    BY <2>1, <2>2, Marks
<1>4. PICK x \in 1..Len(t) : x + k = i
  <2>1. i - k \in 1..Len(t) /\ (i - k) + k = i
    BY <1>1, <1>3 DEF SaysTail
  <2>2. QED
    BY <2>1
<1>5. PICK y \in x..Len(t) : y + k = j
  <2>1. j - k \in x..Len(t) /\ (j - k) + k = j
    BY <1>1, <1>4 DEF SaysTail
  <2>2. QED
    BY <2>1
<1>6. /\ SubSeq(t, x, y) = SubSeq(s, i, j)
      /\ IsNumber(t, x, y) <=> IsNumber(s, i, j)
  BY <1>1, <1>4, <1>5, TailNumber
<1>7. x \in FindValue(t)
  BY <1>2a, <1>5, <1>6 DEF FindValue
<1>8. QED
  BY <1>7

\* A text that ends with the amount carries it, and no number it starts there is wrong.
LEMMA AmountAtTheEnd ==
  ASSUME NEW r \in Seq(Symbols), NEW m \in Nat, Len(r) = m + Len(Amount),
         \A i \in 1..Len(Amount) : r[m + i] = Amount[i]
  PROVE  /\ FindValue(r) # {}
         /\ \A i \in (m + 1)..Len(r), j \in (m + 1)..Len(r) :
               i <= j => IsPartOf(Plain(SubSeq(r, i, j)), Amount)
<1>1. /\ Len(Amount) \in Nat \ {0} /\ Amount \in Seq(Symbols)
      /\ \A i \in 1..Len(Amount) : Amount[i] \in Digits
  BY ReplyStreamAssumption, EmptySeq, ElementOfSeq, SeqMonotonic DEF Symbols
<1>2. ASSUME NEW i \in (m + 1)..Len(r), NEW j \in (m + 1)..Len(r), i <= j
      PROVE  /\ i - m \in 1..Len(Amount) /\ j - m \in (i - m)..Len(Amount)
             /\ SubSeq(r, i, j) = SubSeq(Amount, i - m, j - m)
  <2>1. i - m \in 1..Len(Amount) /\ j - m \in (i - m)..Len(Amount)
    BY <1>1, <1>2
  <2>2. \A n \in (i - m)..(j - m) : n + m \in 1..Len(r) /\ Amount[n] = r[n + m]
    <3> TAKE n \in (i - m)..(j - m)
    <3>1. n \in 1..Len(Amount) /\ n + m = m + n /\ n + m \in 1..Len(r)
      BY <1>1, <1>2, <2>1
    <3>2. QED
      BY <3>1
  <2>3. (i - m) + m = i /\ (j - m) + m = j /\ m \in Int
    BY <1>2
  <2>4. SubSeq(Amount, i - m, j - m) = SubSeq(r, (i - m) + m, (j - m) + m)
    BY <1>1, <2>1, <2>2, <2>3, SameStretch
  <2>5. QED
    BY <2>1, <2>3, <2>4
<1>3. FindValue(r) # {}
  <2>1. /\ m + 1 \in (m + 1)..Len(r) /\ Len(r) \in (m + 1)..Len(r) /\ m + 1 <= Len(r)
        /\ (m + 1) - m = 1 /\ Len(r) - m = Len(Amount)
    BY <1>1
  <2>2. SubSeq(r, m + 1, Len(r)) = SubSeq(Amount, 1, Len(Amount))
    BY <1>2, <2>1
  <2>3. SubSeq(Amount, 1, Len(Amount)) = Amount
    BY <1>1, SubSeqFull
  <2>4. m + 1 \in 1..Len(r)
    BY <2>1
  <2>5. QED
    BY <2>1, <2>2, <2>3, <2>4 DEF FindValue
<1>4. ASSUME NEW i \in (m + 1)..Len(r), NEW j \in (m + 1)..Len(r), i <= j
      PROVE  IsPartOf(Plain(SubSeq(r, i, j)), Amount)
  <2> DEFINE n == SubSeq(r, i, j)
  <2>1. /\ i - m \in 1..Len(Amount) /\ j - m \in (i - m)..Len(Amount)
        /\ n = SubSeq(Amount, i - m, j - m)
    BY <1>2, <1>4
  <2>2. /\ n \in Seq(Symbols)
        /\ \A q \in 1..Len(n) : n[q] # Comma
    <3>1. \A q \in (i - m)..(j - m) : Amount[q] \in Digits
      BY <1>1, <2>1
    <3>2. n \in Seq(Digits)
      BY <2>1, <3>1, SubSeqProperties
    <3> HIDE DEF n
    <3>3. QED
      BY <3>2, ElementOfSeq, SeqMonotonic, Marks DEF Symbols
  <2>3. Plain(n) = n
    BY <2>2, PlainOfDigits
  <2>4. j - m \in 1..Len(Amount) /\ i - m <= j - m
    BY <2>1
  <2>5. QED
    BY <2>1, <2>3, <2>4 DEF IsPartOf
<1>5. QED
  BY <1>3, <1>4

\* The amount on a line of its own is a reply that passes.
LEMMA ListingAlone ==
  /\ Listing \in Seq(Symbols)
  /\ UnsupportedNumbers(Listing) = {} /\ FindValue(Listing) # {}
<1>1. /\ Amount \in Seq(Symbols) /\ <<Label>> \in Seq(Symbols) /\ Len(<<Label>>) = 1
      /\ <<Label>>[1] = Label /\ Len(Amount) \in Nat
  BY ReplyStreamAssumption, SeqMonotonic DEF Symbols
<1>2. /\ Listing \in Seq(Symbols) /\ Len(Listing) = 1 + Len(Amount)
      /\ Listing[1] = Label
      /\ \A i \in 1..Len(Amount) : Listing[1 + i] = Amount[i]
  BY <1>1, ConcatProperties DEF Listing
<1>3. ASSUME NEW i \in 1..Len(Listing), NEW j \in i..Len(Listing), IsNumber(Listing, i, j)
      PROVE  IsPartOf(Plain(SubSeq(Listing, i, j)), Amount)
  <2>1. i # 1
    BY <1>2, <1>3, Marks DEF IsNumber
  <2>2. i \in (1 + 1)..Len(Listing) /\ j \in (1 + 1)..Len(Listing) /\ i <= j
    BY <1>1, <1>2, <2>1
  <2>3. \A x \in (1 + 1)..Len(Listing), y \in (1 + 1)..Len(Listing) :
           x <= y => IsPartOf(Plain(SubSeq(Listing, x, y)), Amount)
    <3> DEFINE m == 1
    <3>1. m \in Nat
      OBVIOUS
    <3>2. /\ Len(Listing) = m + Len(Amount)
          /\ \A q \in 1..Len(Amount) : Listing[m + q] = Amount[q]
      BY <1>2
    <3> HIDE DEF m
    <3>3. \A x \in (m + 1)..Len(Listing), y \in (m + 1)..Len(Listing) :
             x <= y => IsPartOf(Plain(SubSeq(Listing, x, y)), Amount)
      BY <1>2, <3>1, <3>2, AmountAtTheEnd
    <3>4. QED
      BY <3>3 DEF m
  <2>4. QED
    BY <2>2, <2>3
<1>4. QED
  BY <1>2, <1>3, AmountAtTheEnd, NoneUnsupported

\* So does what was said, completed by that line.
LEMMA ListingAdded ==
  ASSUME NEW a \in Seq(Symbols), UnsupportedNumbers(a) = {}
  PROVE  /\ a \o <<Space>> \o Listing \in Seq(Symbols)
         /\ UnsupportedNumbers(a \o <<Space>> \o Listing) = {}
         /\ FindValue(a \o <<Space>> \o Listing) # {}
<1> DEFINE b == <<Space>> \o Listing
           r == a \o b
<1>1. /\ Amount \in Seq(Symbols) /\ <<Label>> \in Seq(Symbols) /\ Len(<<Label>>) = 1
      /\ <<Label>>[1] = Label /\ Len(Amount) \in Nat
      /\ <<Space>> \in Seq(Symbols) /\ Len(<<Space>>) = 1 /\ <<Space>>[1] = Space
  BY ReplyStreamAssumption, SeqMonotonic DEF Symbols
<1>2. /\ Listing \in Seq(Symbols) /\ Len(Listing) = 1 + Len(Amount)
      /\ Listing[1] = Label
      /\ \A i \in 1..Len(Amount) : Listing[1 + i] = Amount[i]
  BY <1>1, ConcatProperties DEF Listing
<1>3. /\ b \in Seq(Symbols) /\ Len(b) = 2 + Len(Amount) /\ b # <<>>
      /\ b[1] = Space /\ b[2] = Label
      /\ \A i \in 1..Len(Amount) : b[2 + i] = Amount[i]
  <2>1. /\ b \in Seq(Symbols) /\ Len(b) = 1 + Len(Listing)
        /\ \A i \in 1..(1 + Len(Listing)) :
              b[i] = IF i <= 1 THEN <<Space>>[i] ELSE Listing[i - 1]
    BY <1>1, <1>2, ConcatProperties
  <2> HIDE DEF b
  <2>2. b[1] = Space /\ b[2] = Listing[1]
    BY <1>1, <1>2, <2>1
  <2>3. ASSUME NEW i \in 1..Len(Amount) PROVE b[2 + i] = Amount[i]
    <3>1. 2 + i \in 1..(1 + Len(Listing)) /\ ~(2 + i <= 1) /\ (2 + i) - 1 = 1 + i
      BY <1>1, <1>2
    <3>2. QED
      BY <1>2, <2>1, <3>1
  <2>4. QED
    BY <1>1, <1>2, <2>1, <2>2, <2>3
<1> HIDE DEF b
<1>4. /\ r \in Seq(Symbols) /\ Len(a) \in Nat /\ Len(r) = Len(a) + 2 + Len(Amount)
      /\ r[Len(a) + 1] = Space /\ r[Len(a) + 2] = Label
      /\ \A i \in 1..Len(Amount) : r[Len(a) + 2 + i] = Amount[i]
  <2>0. /\ r \in Seq(Symbols) /\ Len(r) = Len(a) + Len(b)
        /\ \A i \in 1..(Len(a) + Len(b)) : r[i] = IF i <= Len(a) THEN a[i] ELSE b[i - Len(a)]
    BY <1>3, ConcatProperties, Zenon
  <2>1. /\ r \in Seq(Symbols) /\ Len(r) = Len(a) + Len(b) /\ Len(a) \in Nat
        /\ \A i \in 1..(Len(a) + Len(b)) : r[i] = IF i <= Len(a) THEN a[i] ELSE b[i - Len(a)]
    BY <2>0
  <2> HIDE DEF r
  <2>2. \A n \in 1..Len(b) : r[Len(a) + n] = b[n]
    <3> TAKE n \in 1..Len(b)
    <3>1. /\ Len(a) + n \in 1..(Len(a) + Len(b)) /\ ~(Len(a) + n <= Len(a))
          /\ (Len(a) + n) - Len(a) = n
      BY <1>1, <1>3, <2>1
    <3>2. QED
      BY <2>1, <3>1
  <2>3. ASSUME NEW i \in 1..Len(Amount) PROVE r[Len(a) + 2 + i] = Amount[i]
    <3>1. 2 + i \in 1..Len(b) /\ Len(a) + (2 + i) = Len(a) + 2 + i
      BY <1>1, <1>3, <2>1
    <3>2. QED
      BY <1>3, <2>2, <3>1
  <2>4. 1 \in 1..Len(b) /\ 2 \in 1..Len(b)
    BY <1>1, <1>3
  <2>5. QED
    BY <1>1, <1>3, <2>1, <2>2, <2>3, <2>4
<1>5. ASSUME NEW i \in 1..Len(r), NEW j \in i..Len(r), IsNumber(r, i, j),
             Len(Plain(SubSeq(r, i, j))) >= MinDigits
      PROVE  IsPartOf(Plain(SubSeq(r, i, j)), Amount)
  <2>1. CASE i <= Len(a)
    <3>1. i \in 1..Len(a)
      BY <2>1, <1>4
    <3>2. /\ j \in i..Len(a) /\ SubSeq(r, i, j) = SubSeq(a, i, j) /\ IsNumber(a, i, j)
      BY <3>1, <1>3, <1>5, JoinedNumber
    <3> HIDE DEF r
    <3>3. QED
      BY <1>5, <3>1, <3>2, NoneUnsupported
  <2>2. CASE i > Len(a)
    <3> HIDE DEF r
    <3>1. i # Len(a) + 1 /\ i # Len(a) + 2
      <4>1. r[i] \in Digits
        BY <1>5 DEF IsNumber
      <4>2. QED
        BY <4>1, <1>4, Marks
    <3>2. i \in (Len(a) + 2 + 1)..Len(r) /\ j \in (Len(a) + 2 + 1)..Len(r) /\ i <= j
      BY <1>1, <1>4, <2>2, <3>1
    <3>3. Len(a) + 2 \in Nat
      BY <1>4
    <3>4. QED
      BY <1>4, <3>2, <3>3, AmountAtTheEnd
  <2>3. QED
    BY <2>1, <2>2, <1>4
<1> HIDE DEF r
<1>6. FindValue(r) # {}
  <2>1. Len(a) + 2 \in Nat
    BY <1>4
  <2>2. QED
    BY <1>4, <2>1, AmountAtTheEnd
<1>7. UnsupportedNumbers(r) = {}
  BY <1>4, <1>5, NoneUnsupported
<1>8. r = a \o <<Space>> \o Listing
  BY <1>1, <1>2, ConcatAssociative DEF r, b
<1>9. QED
  BY <1>4, <1>6, <1>7, <1>8

\* What may be released is the text, or its longest part that ends a piece.
LEMMA SafeIs ==
  ASSUME NEW s \in Seq(Symbols), NEW done \in BOOLEAN
  PROVE  \E n \in 0..Len(s) : /\ Safe(s, done) = SubSeq(s, 1, n)
                              /\ done => n = Len(s)
                              /\ ~done => n \in Ends(s) \cup {0} /\ \A e \in Ends(s) : e <= n
<1>1. Len(s) \in Nat
  OBVIOUS
<1>2. CASE done
  BY <1>1, <1>2, SubSeqFull DEF Safe
<1>3. CASE ~done
  <2> DEFINE E == Ends(s) \cup {0}
  <2>1. E \in SUBSET (0..Len(s)) /\ E # {}
    BY <1>1 DEF Ends
  <2> HIDE DEF E
  <2>2. \E x \in E : \A y \in E : y <= x
    BY <1>1, <2>1, Greatest
  <2>3. \E x \in Ends(s) \cup {0} : \A e \in Ends(s) : e <= x
    BY <2>2 DEF E
  <2>4. PICK n : /\ n = CHOOSE i \in Ends(s) \cup {0} : \A e \in Ends(s) : e <= i
                 /\ n \in Ends(s) \cup {0} /\ \A e \in Ends(s) : e <= n
    BY <2>3
  <2>5. n \in 0..Len(s)
    BY <2>1, <2>4 DEF E
  <2>6. Safe(s, done) = SubSeq(s, 1, n)
    BY <1>3, <2>4 DEF Safe
  <2>7. QED
    BY <1>3, <2>4, <2>5, <2>6
<1>4. QED
  BY <1>2, <1>3

\* The first piece is what may be released without the white space in front.
LEMMA StrippedSays ==
  ASSUME NEW s \in Seq(Symbols)
  PROVE  Stripped(s) \in Seq(Symbols) /\ Says(Stripped(s), s)
<1> DEFINE I == {i \in 1..Len(s) : s[i] # Space}
           first == SelectInSeq(s, LAMBDA x : x # Space)
<1>1. Len(s) \in Nat /\ I \in SUBSET Nat
  OBVIOUS
<1>2. first = IF I # {} THEN Min(I) ELSE 0
  BY DEF SelectInSeq
<1>3. Stripped(s) = IF first = 0 THEN <<>> ELSE SubSeq(s, first, Len(s))
  BY DEF Stripped
<1> HIDE DEF first
<1>4. CASE I = {}
  <2>1. Stripped(s) = <<>>
    BY <1>2, <1>3, <1>4
  <2>2. \A i \in 1..Len(s) : s[i] = Space
    BY <1>4
  <2>3. SaysTail(<<>>, s, Len(s)) /\ Len(s) \in 0..Len(s)
    BY <1>1, <2>2 DEF SaysTail
  <2>4. QED
    BY <2>1, <2>3 DEF Says
<1>5. CASE I # {}
  <2>1. \E x \in I : \A y \in I : x <= y
    <3> HIDE DEF I
    <3>1. QED
      BY <1>1, <1>5, Least
  <2>2. first \in I /\ \A y \in I : first <= y
    BY <1>2, <1>5, <2>1 DEF Min
  <2>3. /\ first \in 1..Len(s) /\ s[first] # Space
        /\ \A i \in 1..(first - 1) : s[i] = Space
    BY <1>1, <2>2
  <2>4. \A i \in first..Len(s) : s[i] \in Symbols
    BY <2>3, ElementOfSeq
  <2>5. Stripped(s) = SubSeq(s, first, Len(s))
    BY <1>3, <2>3
  <2>6. /\ Stripped(s) \in Seq(Symbols) /\ Len(Stripped(s)) = Len(s) - (first - 1)
        /\ \A i \in 1..Len(Stripped(s)) : Stripped(s)[i] = s[i + (first - 1)]
    <3>1. /\ SubSeq(s, first, Len(s)) \in Seq(Symbols)
          /\ Len(SubSeq(s, first, Len(s))) = Len(s) - first + 1
          /\ \A i \in 1..(Len(s) - first + 1) :
                SubSeq(s, first, Len(s))[i] = s[first + i - 1]
      BY <1>1, <2>3, <2>4, SubSeqProperties
    <3>2. \A i \in 1..(Len(s) - first + 1) : first + i - 1 = i + (first - 1)
      BY <1>1, <2>3
    <3>3. QED
      BY <1>1, <2>3, <2>5, <3>1, <3>2
  <2>7. SaysTail(Stripped(s), s, first - 1) /\ first - 1 \in 0..Len(s)
    BY <1>1, <2>3, <2>6 DEF SaysTail
  <2>8. QED
    BY <2>6, <2>7 DEF Says
<1>6. QED
  BY <1>4, <1>5

\* Prefixes, and that a chunk that arrives leaves them alone.
LEMMA FirstPart ==
  ASSUME NEW s \in Seq(Symbols), NEW n \in 0..Len(s)
  PROVE  /\ SubSeq(s, 1, n) \in Seq(Symbols) /\ Len(SubSeq(s, 1, n)) = n
         /\ \A i \in 1..n : SubSeq(s, 1, n)[i] = s[i]
<1>1. Len(s) \in Nat /\ \A i \in 1..n : s[i] \in Symbols
  BY ElementOfSeq
<1>2. /\ SubSeq(s, 1, n) \in Seq(Symbols)
      /\ Len(SubSeq(s, 1, n)) = IF 1 <= n THEN n - 1 + 1 ELSE 0
      /\ \A i \in 1..(n - 1 + 1) : SubSeq(s, 1, n)[i] = s[1 + i - 1]
  BY <1>1, SubSeqProperties
<1>3. QED
  BY <1>1, <1>2

LEMMA FirstPartOfLonger ==
  ASSUME NEW s \in Seq(Symbols), NEW c \in Seq(Symbols), NEW n \in 0..Len(s)
  PROVE  SubSeq(s \o c, 1, n) = SubSeq(s, 1, n)
<1>1. /\ s \o c \in Seq(Symbols) /\ Len(s) \in Nat /\ Len(c) \in Nat
      /\ Len(s \o c) = Len(s) + Len(c)
      /\ \A i \in 1..Len(s) : (s \o c)[i] = s[i]
  BY ConcatProperties
<1>2. n \in 0..Len(s \o c)
  BY <1>1
<1>3. /\ SubSeq(s \o c, 1, n) \in Seq(Symbols) /\ Len(SubSeq(s \o c, 1, n)) = n
      /\ \A i \in 1..n : SubSeq(s \o c, 1, n)[i] = (s \o c)[i]
  BY <1>1, <1>2, FirstPart
<1>4. /\ SubSeq(s, 1, n) \in Seq(Symbols) /\ Len(SubSeq(s, 1, n)) = n
      /\ \A i \in 1..n : SubSeq(s, 1, n)[i] = s[i]
  BY FirstPart
<1>5. \A i \in 1..n : (s \o c)[i] = s[i]
  BY <1>1
<1>6. QED
  BY <1>3, <1>4, <1>5, SeqEqual

\* How much has been released when a chunk that passed the check is dealt with.
Releases(text, done) == IF Piece(text, done) = <<>> THEN sent ELSE Len(Safe(text, done))

\* The pieces add up: what was said and the next piece are the released text again.
LEMMA PieceSays ==
  ASSUME NEW text \in Seq(Symbols), NEW done \in BOOLEAN, NEW said \in Seq(Symbols),
         sent \in Ends(text) \cup {0}, sent \in 0..Len(text),
         Says(said, SubSeq(text, 1, sent)), UnsupportedNumbers(Safe(text, done)) = {}
  PROVE  /\ Piece(text, done) \in Seq(Symbols)
         /\ Releases(text, done) \in 0..Len(text)
         /\ Releases(text, done) \in Ends(text) \cup {0, Len(text)}
         /\ ~done => Releases(text, done) \in Ends(text) \cup {0}
         /\ Says(said \o Piece(text, done), SubSeq(text, 1, Releases(text, done)))
         /\ \/ Releases(text, done) = sent
            \/ UnsupportedNumbers(SubSeq(text, 1, Releases(text, done))) = {}
<1> DEFINE safe == Safe(text, done)
           piece == Piece(text, done)
           released == Releases(text, done)
<1>1. PICK n \in 0..Len(text) :
         /\ safe = SubSeq(text, 1, n)
         /\ done => n = Len(text)
         /\ ~done => n \in Ends(text) \cup {0} /\ \A e \in Ends(text) : e <= n
  BY SafeIs
<1>2. /\ Len(text) \in Nat /\ safe \in Seq(Symbols) /\ Len(safe) = n
      /\ \A i \in 1..n : safe[i] = text[i]
  BY <1>1, FirstPart
<1>3. piece = IF sent = 0 THEN Stripped(SubSeq(safe, sent + 1, Len(safe)))
                         ELSE SubSeq(safe, sent + 1, Len(safe))
  BY DEF Piece
<1>4. released = IF piece = <<>> THEN sent ELSE n
  BY <1>2 DEF Releases
<1>5. UnsupportedNumbers(safe) = {}
  OBVIOUS
<1>6. n \in Ends(text) \cup {0, Len(text)} /\ (~done => n \in Ends(text) \cup {0})
  BY <1>1
<1>7. sent <= n /\ n \in Nat /\ sent \in Nat
  BY <1>1, <1>2
<1> HIDE DEF safe, piece, released
<1>8. CASE sent = 0
  <2>1. SubSeq(safe, sent + 1, Len(safe)) = safe
    BY <1>2, <1>8, SubSeqFull
  <2>2. piece \in Seq(Symbols) /\ Says(piece, safe)
    BY <1>2, <1>3, <1>8, <2>1, StrippedSays
  <2>3. said = <<>>
    <3>1. Len(SubSeq(text, 1, sent)) = 0
      BY <1>8, FirstPart
    <3>2. Len(said) = 0
      BY <3>1 DEF Says, SaysTail
    <3>3. QED
      BY <3>2, EmptySeq
  <2>4. said \o piece = piece
    BY <2>2, <2>3, ConcatEmptySeq
  <2>5. CASE piece = <<>>
    <3>1. released = sent /\ said \o piece = said
      BY <1>4, <2>3, <2>4, <2>5
    <3>2. QED
      BY <1>7, <1>8, <2>2, <3>1 DEF piece, released
  <2>6. CASE piece # <<>>
    <3>1. released = n /\ SubSeq(text, 1, released) = safe
      BY <1>1, <1>4, <2>6
    <3>2. QED
      BY <1>1, <1>5, <1>6, <2>2, <2>4, <3>1 DEF piece, released
  <2>7. QED
    BY <2>5, <2>6
<1>9. CASE sent # 0
  <2>1. /\ piece \in Seq(Symbols) /\ Len(piece) = n - sent
        /\ \A i \in 1..(n - sent) : piece[i] = text[sent + i]
    <3>1. piece = SubSeq(safe, sent + 1, n)
      BY <1>2, <1>3, <1>9
    <3>2. \A i \in (sent + 1)..n : i \in 1..n /\ safe[i] = text[i] /\ safe[i] \in Symbols
      BY <1>2, <1>7, ElementOfSeq
    <3>3. /\ SubSeq(safe, sent + 1, n) \in Seq(Symbols)
          /\ Len(SubSeq(safe, sent + 1, n))
                = IF sent + 1 <= n THEN n - (sent + 1) + 1 ELSE 0
          /\ \A i \in 1..(n - (sent + 1) + 1) :
                SubSeq(safe, sent + 1, n)[i] = safe[sent + 1 + i - 1]
      <4>1. sent + 1 \in Int /\ n \in Int
        BY <1>7
      <4>2. QED
        BY <3>2, <4>1, SubSeqProperties
    <3>4. \A i \in 1..(n - sent) :
             /\ i \in 1..(n - (sent + 1) + 1)
             /\ sent + 1 + i - 1 = sent + i
             /\ sent + i \in (sent + 1)..n
      BY <1>7
    <3>5. ASSUME NEW i \in 1..(n - sent) PROVE piece[i] = text[sent + i]
      <4>1. piece[i] = safe[sent + 1 + i - 1]
        BY <3>1, <3>3, <3>4
      <4>2. safe[sent + 1 + i - 1] = safe[sent + i]
        BY <3>4
      <4>3. QED
        BY <3>2, <3>4, <4>1, <4>2
    <3>6. Len(piece) = n - sent
      BY <1>7, <3>1, <3>3
    <3>7. QED
      BY <3>1, <3>3, <3>5, <3>6
  <2>2. released = n
    <3>1. piece = <<>> => n = sent
      BY <1>7, <2>1
    <3>2. QED
      BY <1>4, <3>1
  <2>3. Says(said \o piece, safe)
    <3>1. /\ SubSeq(text, 1, sent) \in Seq(Symbols) /\ Len(SubSeq(text, 1, sent)) = sent
          /\ \A i \in 1..sent : SubSeq(text, 1, sent)[i] = text[i]
      BY FirstPart
    <3>2. PICK k \in 0..sent : SaysTail(said, SubSeq(text, 1, sent), k)
      BY <3>1 DEF Says
    <3>3. /\ Len(said) = sent - k
          /\ \A i \in 1..k : text[i] = Space
          /\ \A i \in 1..Len(said) : said[i] = text[i + k]
      <4>1. /\ Len(said) = sent - k
            /\ \A i \in 1..k : SubSeq(text, 1, sent)[i] = Space
            /\ \A i \in 1..Len(said) : said[i] = SubSeq(text, 1, sent)[i + k]
        BY <3>1, <3>2 DEF SaysTail
      <4>2. \A i \in 1..Len(said) : i + k \in 1..sent
        BY <1>7, <4>1
      <4>3. \A i \in 1..k : i \in 1..sent
        BY <1>7
      <4>4. QED
        BY <3>1, <4>1, <4>2, <4>3
    <3>4. /\ Len(said \o piece) = n - k
          /\ \A i \in 1..(n - k) : (said \o piece)[i] = safe[i + k]
      <4>1. /\ Len(said \o piece) = Len(said) + Len(piece)
            /\ \A i \in 1..(Len(said) + Len(piece)) :
                 (said \o piece)[i] = IF i <= Len(said) THEN said[i] ELSE piece[i - Len(said)]
        BY <2>1, ConcatProperties, Zenon
      <4>2. Len(said) + Len(piece) = n - k /\ Len(said) \in Nat
        BY <1>7, <2>1, <3>3
      <4>3. ASSUME NEW i \in 1..(n - k) PROVE (said \o piece)[i] = safe[i + k]
        <5>1. i + k \in 1..n /\ safe[i + k] = text[i + k]
          BY <1>2, <1>7
        <5>2. CASE i <= Len(said)
          <6>1. i \in 1..Len(said)
            BY <5>2, <4>2
          <6>2. QED
            BY <3>3, <4>1, <4>2, <5>1, <5>2, <6>1
        <5>3. CASE ~(i <= Len(said))
          <6>1. /\ i - Len(said) \in 1..(n - sent)
                /\ sent + (i - Len(said)) = i + k
            BY <1>7, <3>3, <5>3, <4>2
          <6>2. piece[i - Len(said)] = text[i + k]
            BY <2>1, <6>1
          <6>3. QED
            BY <4>1, <4>2, <5>1, <5>3, <6>2
        <5>4. QED
          BY <5>2, <5>3
      <4>4. QED
        BY <4>1, <4>2, <4>3
    <3>5. \A i \in 1..k : safe[i] = Space
      <4>1. \A i \in 1..k : i \in 1..n
        BY <1>7
      <4>2. QED
        BY <1>2, <3>3, <4>1
    <3>6. k \in 0..Len(safe)
      BY <1>2, <1>7
    <3>7. SaysTail(said \o piece, safe, k)
      BY <1>2, <3>4, <3>5, <3>6 DEF SaysTail
    <3>8. QED
      BY <3>6, <3>7 DEF Says
  <2>4. QED
    BY <1>1, <1>5, <1>6, <2>1, <2>2, <2>3 DEF piece, released
<1>10. QED
  BY <1>8, <1>9

\* What the end of the stream leaves behind.
FinishOutcome(text, released) ==
    \/ /\ phase' = "compose" /\ how' = how /\ released = 0
       /\ Says(shown', SubSeq(text, 1, released))
    \/ /\ phase' = "over" /\ how' = "stream"
       /\ FindValue(shown') # {}

\* However the stream ends, what is on the screen has no wrong number, and a message that
\* is over carries the amount.
LEMMA FinishIs ==
  ASSUME NEW text \in Seq(Symbols), NEW released \in 0..Len(text),
         NEW said \in Seq(Symbols), Says(said, SubSeq(text, 1, released)),
         UnsupportedNumbers(SubSeq(text, 1, released)) = {},
         Finish(text, released, said)
  PROVE  /\ shown' \in Seq(Symbols) /\ UnsupportedNumbers(shown') = {}
         /\ FinishOutcome(text, released)
<1>1. SubSeq(text, 1, released) \in Seq(Symbols)
  BY FirstPart
<1>2. UnsupportedNumbers(said) = {}
  BY <1>1, SaysSupported
<1>3. CASE released = 0
  BY <1>2, <1>3 DEF Finish, FallsBack, FinishOutcome
<1>4. CASE released # 0 /\ FindValue(SubSeq(text, 1, released)) = {}
  <2>1. /\ phase' = "over" /\ how' = "stream"
        /\ shown' = said \o <<Space>> \o Listing
    BY <1>4 DEF Finish, Closes
  <2>2. QED
    BY <1>2, <2>1, ListingAdded DEF FinishOutcome
<1>5. CASE released # 0 /\ FindValue(SubSeq(text, 1, released)) # {}
  <2>1. phase' = "over" /\ how' = "stream" /\ shown' = said
    BY <1>5 DEF Finish, Closes
  <2>2. QED
    BY <1>1, <1>2, <1>5, <2>1, SaysValue DEF FinishOutcome
<1>6. QED
  BY <1>3, <1>4, <1>5

(***************************************************************************)
(* The inductive invariant.  What is on the screen while the stream runs   *)
(* is the released text without the white space in front of it, and that   *)
(* text passed the check when it was released; what the model streams      *)
(* later does not change it.  A piece ends at a separator with a space     *)
(* after it, or with the text.  A whole reply is asked for while nothing   *)
(* was released.                                                           *)
(***************************************************************************)
WholePieces == sent \in Ends(full) \cup {0, Len(full)}
StreamInv ==
    /\ TypeOK
    /\ phase = "stream" =>
         /\ sent \in Ends(full) \cup {0}
         /\ attempt = 0 /\ how = "nobody"
    /\ phase = "compose" => sent = 0 /\ attempt < Attempts
    /\ phase # "over" =>
         /\ Says(shown, SubSeq(full, 1, sent))
         /\ UnsupportedNumbers(SubSeq(full, 1, sent)) = {}
    /\ WholePieces
    /\ OnlySupported
    /\ ValuesReachTheCustomer

\* The empty text has no number.
LEMMA NothingUnsupported == UnsupportedNumbers(<<>>) = {}
<1>1. Numbers(<<>>) = {}
  BY DEF Numbers
<1>2. QED
  BY <1>1 DEF UnsupportedNumbers

\* The invariant holds at the start and every step keeps it.
LEMMA StreamInit == Init => StreamInv
<1> SUFFICES ASSUME Init PROVE StreamInv
  OBVIOUS
<1>1. /\ phase = "stream" /\ full = <<>> /\ sent = 0 /\ attempt = 0
      /\ shown = <<>> /\ how = "nobody"
  BY DEF Init
<1>2. <<>> \in Seq(Symbols) /\ Len(<<>>) = 0 /\ 0 \in 0..Len(<<>>)
  OBVIOUS
<1>3. SubSeq(<<>>, 1, 0) = <<>>
  BY <1>2, FirstPart, EmptySeq
<1>4. UnsupportedNumbers(<<>>) = {}
  BY NothingUnsupported
<1>5. SaysTail(<<>>, <<>>, 0)
  BY <1>2 DEF SaysTail
<1>6. Says(<<>>, <<>>)
  BY <1>2, <1>5 DEF Says
<1>7. TypeOK
  BY <1>1, <1>2, ReplyStreamAssumption DEF TypeOK
<1>8. QED
  BY <1>1, <1>2, <1>3, <1>4, <1>6, <1>7
     DEF StreamInv, OnlySupported, ValuesReachTheCustomer, WholePieces

LEMMA ChunkKeeps == StreamInv /\ Chunk => StreamInv'
<1> SUFFICES ASSUME StreamInv, Chunk PROVE StreamInv'
  OBVIOUS
<1>1. PICK c \in BoundedSeq(Symbols, MaxChunk), done \in BOOLEAN :
         LET text == full \o c
             good == UnsupportedNumbers(Checked(text, done)) = {}
             piece == IF good THEN Piece(text, done) ELSE <<>>
             released == IF piece = <<>> THEN sent ELSE Len(Safe(text, done))
         IN  /\ Len(text) <= MaxText
             /\ done \/ c # <<>>
             /\ full' = text
             /\ sent' = released
             /\ IF done \/ ~good
                THEN Finish(text, released, shown \o piece)
                ELSE shown' = shown \o piece /\ UNCHANGED <<phase, how>>
  BY DEF Chunk
<1> DEFINE text == full \o c
           good == UnsupportedNumbers(Safe(text, done)) = {}
           piece == IF good THEN Piece(text, done) ELSE <<>>
           released == IF piece = <<>> THEN sent ELSE Len(Safe(text, done))
<1>2. /\ Len(text) <= MaxText
      /\ full' = text
      /\ sent' = released
      /\ IF done \/ ~good
         THEN Finish(text, released, shown \o piece)
         ELSE shown' = shown \o piece /\ UNCHANGED <<phase, how>>
  BY <1>1 DEF Checked
<1>3. /\ phase = "stream" /\ attempt' = attempt
      /\ full \in Seq(Symbols) /\ shown \in Seq(Symbols)
      /\ sent \in Ends(full) \cup {0} /\ sent \in 0..Len(full)
      /\ attempt = 0 /\ how = "nobody"
      /\ Says(shown, SubSeq(full, 1, sent))
      /\ UnsupportedNumbers(SubSeq(full, 1, sent)) = {}
      /\ OnlySupported
  BY DEF Chunk, StreamInv, TypeOK
<1>4. c \in Seq(Symbols)
  <2>1. PICK m \in 0..MaxChunk : c \in [1..m -> Symbols]
    BY DEF BoundedSeq, SeqOf
  <2>2. m \in Nat
    BY ReplyStreamAssumption
  <2>3. QED
    BY <2>1, <2>2
<1>5. /\ text \in Seq(Symbols) /\ Len(full) \in Nat /\ Len(text) \in Nat
      /\ Len(full) <= Len(text)
      /\ \A i \in 1..Len(full) : text[i] = full[i]
      /\ SubSeq(text, 1, sent) = SubSeq(full, 1, sent)
  BY <1>3, <1>4, ConcatProperties, FirstPartOfLonger
<1> HIDE DEF text
<1>6. sent \in Ends(text) \cup {0} /\ sent \in 0..Len(text)
  <2>1. sent # 0 => sent \in 1..(Len(full) - 1) /\ full[sent] = Comma /\ full[sent + 1] = Space
    BY <1>3 DEF Ends
  <2>2. sent # 0 => /\ sent \in 1..(Len(text) - 1)
                    /\ sent \in 1..Len(full) /\ sent + 1 \in 1..Len(full)
    BY <1>5, <2>1
  <2>3. QED
    BY <1>3, <1>5, <2>1, <2>2 DEF Ends
<1>7. /\ piece \in Seq(Symbols) /\ released \in 0..Len(text)
      /\ released \in Ends(text) \cup {0, Len(text)}
      /\ ~(done /\ good) => released \in Ends(text) \cup {0}
      /\ Says(shown \o piece, SubSeq(text, 1, released))
      /\ UnsupportedNumbers(SubSeq(text, 1, released)) = {}
  <2>1. CASE good
    <3>1. piece = Piece(text, done) /\ released = Releases(text, done)
      BY <2>1 DEF Releases
    <3> HIDE DEF piece, released
    <3>2. QED
      BY <1>3, <1>5, <1>6, <2>1, <3>1, PieceSays
  <2>2. CASE ~good
    <3>1. piece = <<>> /\ released = sent
      BY <2>2
    <3>2. shown \o piece = shown
      BY <1>3, <3>1, ConcatEmptySeq
    <3> HIDE DEF good, piece, released
    <3>3. piece \in Seq(Symbols)
      BY <3>1, EmptySeq
    <3>4. Says(shown \o piece, SubSeq(text, 1, released))
      BY <1>3, <1>5, <3>1, <3>2
    <3>5. QED
      BY <1>3, <1>5, <1>6, <2>2, <3>1, <3>3, <3>4
  <2>3. QED
    BY <2>1, <2>2
<1> HIDE DEF good, piece, released
<1>8. shown \o piece \in Seq(Symbols)
  BY <1>3, <1>7, ConcatProperties
<1>9. CASE done \/ ~good
  <2>1. Finish(text, released, shown \o piece)
    BY <1>2, <1>9
  <2>2. /\ shown' \in Seq(Symbols) /\ UnsupportedNumbers(shown') = {}
        /\ FinishOutcome(text, released)
    BY <1>5, <1>7, <1>8, <2>1, FinishIs
  <2>3. TypeOK'
    BY <1>2, <1>3, <1>5, <1>7, <2>2 DEF TypeOK, FinishOutcome
  <2>4. QED
    BY <1>2, <1>3, <1>7, <2>2, <2>3
       DEF StreamInv, FinishOutcome, OnlySupported, ValuesReachTheCustomer, WholePieces, Attempts
<1>10. CASE ~done /\ good
  <2>1. shown' = shown \o piece /\ UNCHANGED <<phase, how>>
    BY <1>2, <1>10
  <2>2. UnsupportedNumbers(shown') = {}
    <3>1. SubSeq(text, 1, released) \in Seq(Symbols)
      BY <1>5, <1>7, FirstPart
    <3>2. QED
      BY <1>7, <1>8, <2>1, <3>1, SaysSupported
  <2>3. TypeOK'
    BY <1>2, <1>3, <1>5, <1>7, <1>8, <2>1 DEF TypeOK
  <2>4. QED
    BY <1>2, <1>3, <1>7, <1>10, <2>1, <2>2, <2>3
       DEF StreamInv, OnlySupported, ValuesReachTheCustomer, WholePieces
<1>11. QED
  BY <1>9, <1>10

LEMMA BreakKeeps == StreamInv /\ Break => StreamInv'
<1> SUFFICES ASSUME StreamInv, Break PROVE StreamInv'
  OBVIOUS
<1>1. /\ phase = "stream" /\ attempt' = attempt /\ full' = full /\ sent' = sent
      /\ full \in Seq(Symbols) /\ shown \in Seq(Symbols)
      /\ sent \in Ends(full) \cup {0} /\ sent \in 0..Len(full)
      /\ attempt = 0 /\ how = "nobody" /\ Len(full) <= MaxText
      /\ Says(shown, SubSeq(full, 1, sent))
      /\ UnsupportedNumbers(SubSeq(full, 1, sent)) = {}
      /\ Finish(full, sent, shown)
  BY DEF Break, StreamInv, TypeOK
<1>2. /\ shown' \in Seq(Symbols) /\ UnsupportedNumbers(shown') = {}
      /\ FinishOutcome(full, sent)
  BY <1>1, FinishIs
<1>3. TypeOK'
  BY <1>1, <1>2 DEF TypeOK, FinishOutcome
<1>4. QED
  BY <1>1, <1>2, <1>3
     DEF StreamInv, FinishOutcome, OnlySupported, ValuesReachTheCustomer, WholePieces, Attempts

\* What shows nothing is empty.
LEMMA NothingSaid ==
  ASSUME NEW t \in Seq(Symbols), NEW s \in Seq(Symbols), Says(t, SubSeq(s, 1, 0))
  PROVE  t = <<>>
<1>1. Len(SubSeq(s, 1, 0)) = 0
  BY FirstPart
<1>2. Len(t) = 0
  BY <1>1 DEF Says, SaysTail
<1>3. QED
  BY <1>2, EmptySeq

\* A whole reply ends the message; nothing was said before it.
LEMMA OverKeeps ==
  ASSUME StreamInv, phase = "compose", NEW reply \in Seq(Symbols), NEW who,
         Over(reply, who), who \in {"model", "facts", "down"},
         UNCHANGED <<full, sent>>, attempt' \in 0..2,
         UnsupportedNumbers(reply) = {},
         who # "down" => FindValue(reply) # {}
  PROVE  StreamInv'
<1>1. /\ full \in Seq(Symbols) /\ shown \in Seq(Symbols) /\ sent = 0
      /\ Says(shown, SubSeq(full, 1, sent))
  BY DEF StreamInv, TypeOK
<1>2. shown = <<>>
  BY <1>1, NothingSaid
<1>3. shown' = reply /\ phase' = "over" /\ how' = who
  BY <1>2, ConcatEmptySeq DEF Over
<1>4. TypeOK'
  BY <1>3 DEF StreamInv, TypeOK
<1>5. QED
  BY <1>1, <1>3, <1>4
     DEF StreamInv, OnlySupported, ValuesReachTheCustomer, WholePieces

LEMMA DraftKeeps == StreamInv /\ Draft => StreamInv'
<1> SUFFICES ASSUME StreamInv, Draft PROVE StreamInv'
  OBVIOUS
<1>1. PICK d \in Drafts :
          \/ /\ CheckReply(d)
             /\ Over(d, "model")
             /\ UNCHANGED attempt
          \/ /\ attempt' = attempt + 1
             /\ IF attempt' = Attempts THEN Over(Listing, "facts")
                                       ELSE UNCHANGED <<phase, shown, how>>
  BY DEF Draft
<1>2. /\ phase = "compose" /\ UNCHANGED <<full, sent>>
      /\ attempt \in 0..2 /\ attempt < 2 /\ d \in Seq(Symbols)
  BY ReplyStreamAssumption DEF Draft, StreamInv, TypeOK, Attempts
<1>3. CASE CheckReply(d) /\ Over(d, "model") /\ UNCHANGED attempt
  BY <1>2, <1>3, OverKeeps DEF CheckReply
<1>4. CASE attempt' = attempt + 1 /\ attempt' = Attempts /\ Over(Listing, "facts")
  <2>1. attempt' \in 0..2
    BY <1>4 DEF Attempts
  <2>2. QED
    BY <1>2, <1>4, <2>1, ListingAlone, OverKeeps
<1>5. CASE attempt' = attempt + 1 /\ attempt' # Attempts /\ UNCHANGED <<phase, shown, how>>
  <2>1. attempt' \in 0..2 /\ attempt' < Attempts
    BY <1>2, <1>5 DEF Attempts
  <2>2. QED
    BY <1>2, <1>5, <2>1
       DEF StreamInv, TypeOK, OnlySupported, ValuesReachTheCustomer, WholePieces, Ends
<1>6. QED
  BY <1>1, <1>3, <1>4, <1>5

LEMMA DownKeeps == StreamInv /\ Down => StreamInv'
<1> SUFFICES ASSUME StreamInv, Down PROVE StreamInv'
  OBVIOUS
<1>1. /\ phase = "compose" /\ UNCHANGED <<full, sent, attempt>> /\ Over(<<>>, "down")
      /\ attempt \in 0..2
  BY DEF Down, StreamInv, TypeOK
<1>2. <<>> \in Seq(Symbols) /\ UnsupportedNumbers(<<>>) = {}
  BY NothingUnsupported
<1>3. QED
  BY <1>1, <1>2, OverKeeps

\* The inductive invariant of the composer.
LEMMA StreamInvariant == Spec => []StreamInv
<1>1. Init => StreamInv
  BY StreamInit
<1>2. StreamInv /\ [Next]_vars => StreamInv'
  <2>1. StreamInv /\ UNCHANGED vars => StreamInv'
    BY DEF vars, StreamInv, TypeOK, OnlySupported, ValuesReachTheCustomer, WholePieces
  <2>2. QED
    BY <2>1, ChunkKeeps, BreakKeeps, DraftKeeps, DownKeeps DEF Next
<1>3. QED
  BY <1>1, <1>2, PTL DEF Spec

-----------------------------------------------------------------------------
(* What the composer promises. *)

\* Types: a reply is asked for at most twice, and never more is released than was
\* streamed.
THEOREM ReplyStreamTypes == Spec => []TypeOK
<1>1. StreamInv => TypeOK
  BY DEF StreamInv
<1>2. QED
  BY <1>1, StreamInvariant, PTL

\* No number the facts do not support is ever on the screen, whatever was released before
\* the check failed, however the text was cut into chunks, and with the line the code adds
\* at the end (unsupported_numbers on what may be released, compose_stream).
THEOREM ReplyStreamOnlySupported == Spec => []OnlySupported
<1>1. StreamInv => OnlySupported
  BY DEF StreamInv
<1>2. QED
  BY <1>1, StreamInvariant, PTL

\* A message that is over carries the amount, unless the model could not be reached:
\* compose_stream completes what it released, compose falls back on the facts.
THEOREM ReplyStreamValuesReachTheCustomer == Spec => []ValuesReachTheCustomer
<1>1. StreamInv => ValuesReachTheCustomer
  BY DEF StreamInv
<1>2. QED
  BY <1>1, StreamInvariant, PTL

\* No piece ends inside a number: a piece ends at a separator followed by white space,
\* and white space is in no number.
THEOREM ReplyStreamNumbersAreWhole == Spec => []NumbersAreWhole
<1>1. StreamInv => NumbersAreWhole
  <2> SUFFICES ASSUME StreamInv, 0 < sent, sent < Len(full),
                      NEW p \in Numbers(full), p[1] <= sent, sent < p[2]
               PROVE  FALSE
    BY DEF NumbersAreWhole
  <2>1. full \in Seq(Symbols) /\ sent \in Ends(full)
    BY DEF StreamInv, TypeOK, WholePieces
  <2>2. sent \in Nat /\ full[sent + 1] = Space
    BY <2>1 DEF Ends
  <2>3. p[1] \in Nat /\ p[2] \in Nat /\ IsNumber(full, p[1], p[2])
    BY DEF Numbers
  <2>4. sent + 1 \in p[1]..p[2]
    BY <2>2, <2>3
  <2>5. Space \in Digits \cup {Comma}
    BY <2>2, <2>3, <2>4 DEF IsNumber
  <2>6. QED
    BY <2>5, Marks
<1>2. QED
  BY <1>1, StreamInvariant, PTL
=============================================================================

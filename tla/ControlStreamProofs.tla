------------------------ MODULE ControlStreamProofs ------------------------
(***************************************************************************)
(* Proofs about ControlStream.  The bytes are tracked by their places: the *)
(* text is all that was sent, the n-th line of it ends at e[n], and what   *)
(* is in the buffer and then on the wire is the text after the place that  *)
(* the server has come to.  In "commands" that place is the end of a line, *)
(* so that the first LF in the buffer ends the next one.                   *)
(***************************************************************************)
EXTENDS ControlStream, SequenceTheorems, WellFoundedInduction, TLAPS

\* The bytes of the stream.
Text == Seq(STRING)

\* The bytes of text after the first p are those of the buffer b, then those of w.
At(text, p, b, w) ==
  /\ p + Len(b) + Len(w) = Len(text)
  /\ \A i \in 1..Len(b) : b[i] = text[p + i]
  /\ \A i \in 1..Len(w) : w[i] = text[p + Len(b) + i]

\* text is the header h and then the lines of reqs; the n-th ends at e[n].
Laid(h, reqs, text, e) ==
  /\ e \in [0..Len(reqs) -> Nat]
  /\ e[0] = Len(h) /\ e[Len(reqs)] = Len(text)
  /\ \A i \in 1..Len(h) : text[i] = h[i]
  /\ \A n \in 0..Len(reqs) : e[n] <= Len(text)
  /\ \A n \in 1..Len(reqs) :
       /\ e[n] = e[n - 1] + Len(Line(reqs[n]))
       /\ \A i \in 1..Len(Line(reqs[n])) : text[e[n - 1] + i] = Line(reqs[n])[i]

\* The first k bytes, and the rest, of a text.
LEMMA Cut ==
  ASSUME NEW s \in Text, NEW k \in 0..Len(s)
  PROVE  /\ Len(s) \in Nat
         /\ SubSeq(s, 1, k) \in Text /\ Len(SubSeq(s, 1, k)) = k
         /\ \A i \in 1..k : SubSeq(s, 1, k)[i] = s[i]
         /\ SubSeq(s, k + 1, Len(s)) \in Text /\ Len(SubSeq(s, k + 1, Len(s))) = Len(s) - k
         /\ \A i \in 1..(Len(s) - k) : SubSeq(s, k + 1, Len(s))[i] = s[k + i]
  <1>1. Len(s) \in Nat /\ DOMAIN s = 1..Len(s) /\ \A i \in 1..Len(s) : s[i] \in STRING
    BY DEF Text
  <1>2. PICK m \in Nat : m = Len(s)
    BY <1>1
  <1>3. \A i \in 1..k : s[i] \in STRING
    BY <1>1, <1>2
  <1>4. \A i \in (k + 1)..m : s[i] \in STRING
    BY <1>1, <1>2
  <1>5. k \in Int /\ k + 1 \in Int /\ 1 <= k + 1 /\ k <= m
    BY <1>2
  <1>6. /\ SubSeq(s, 1, k) \in Text /\ Len(SubSeq(s, 1, k)) = IF 1 <= k THEN k - 1 + 1 ELSE 0
        /\ \A i \in 1..(k - 1 + 1) : SubSeq(s, 1, k)[i] = s[1 + i - 1]
    BY <1>3, <1>5, SubSeqProperties DEF Text
  <1>7. /\ SubSeq(s, k + 1, m) \in Text
        /\ Len(SubSeq(s, k + 1, m)) = IF k + 1 <= m THEN m - (k + 1) + 1 ELSE 0
        /\ \A i \in 1..(m - (k + 1) + 1) : SubSeq(s, k + 1, m)[i] = s[(k + 1) + i - 1]
    BY <1>4, <1>5, SubSeqProperties DEF Text
  <1>8. Len(SubSeq(s, 1, k)) = k /\ \A i \in 1..k : SubSeq(s, 1, k)[i] = s[i]
    BY <1>5, <1>6
  <1>9. /\ Len(SubSeq(s, k + 1, m)) = m - k
        /\ \A i \in 1..(m - k) : SubSeq(s, k + 1, m)[i] = s[k + i]
    BY <1>2, <1>5, <1>7
  <1> QED  BY <1>1, <1>2, <1>6, <1>7, <1>8, <1>9

\* One text after another.
LEMMA Join ==
  ASSUME NEW s \in Text, NEW t \in Text
  PROVE  /\ s \o t \in Text /\ Len(s \o t) = Len(s) + Len(t)
         /\ Len(s) \in Nat /\ Len(t) \in Nat
         /\ \A i \in 1..Len(s) : (s \o t)[i] = s[i]
         /\ \A i \in 1..Len(t) : (s \o t)[Len(s) + i] = t[i]
  BY ConcatProperties DEF Text

\* What the client sends comes last.
LEMMA AtArrival ==
  ASSUME NEW text \in Text, NEW b \in Text, NEW w \in Text, NEW p \in Nat, NEW line \in Text,
         At(text, p, b, w)
  PROVE  At(text \o line, p, b, w \o line)
  <1>1. PICK m \in Nat, k \in Nat, l \in Nat, n \in Nat :
          m = Len(text) /\ k = Len(b) /\ l = Len(w) /\ n = Len(line)
    BY DEF Text
  <1>2. /\ Len(text \o line) = m + n /\ Len(w \o line) = l + n
        /\ \A i \in 1..m : (text \o line)[i] = text[i]
        /\ \A i \in 1..n : (text \o line)[m + i] = line[i]
        /\ \A i \in 1..l : (w \o line)[i] = w[i]
        /\ \A i \in 1..n : (w \o line)[l + i] = line[i]
    BY <1>1, Join
  <1>3. /\ p + k + l = m /\ \A i \in 1..k : b[i] = text[p + i]
        /\ \A i \in 1..l : w[i] = text[p + k + i]
    BY <1>1 DEF At
  <1>4. \A i \in 1..k : b[i] = (text \o line)[p + i]
    BY <1>2, <1>3
  <1>sum. p + k + l = m
    BY <1>3
  <1>5. ASSUME NEW i \in 1..(l + n) PROVE (w \o line)[i] = (text \o line)[p + k + i]
    <2>1. CASE i <= l
      BY <1>2, <1>3, <2>1
    <2>2. CASE i > l
      <3>1. PICK j \in 1..n : i = l + j
        <4>1. i - l \in 1..n /\ i = l + (i - l)
          BY <2>2
        <4> QED  BY <4>1
      <3>2. p + k + i = m + j
        BY <3>1, <1>3
      <3> QED  BY <3>1, <3>2, <1>2
    <2>3. i <= l \/ i > l
      OBVIOUS
    <2> QED  BY <2>1, <2>2, <2>3
  <1>6. p + k + (l + n) = m + n
    BY <1>sum
  <1> QED  BY <1>1, <1>2, <1>4, <1>5, <1>6 DEF At

\* Bytes move from the wire to the end of the buffer.
LEMMA AtRead ==
  ASSUME NEW text \in Text, NEW b \in Text, NEW w \in Text, NEW p \in Nat,
         NEW n \in 1..Len(w), At(text, p, b, w)
  PROVE  At(text, p, b \o SubSeq(w, 1, n), SubSeq(w, n + 1, Len(w)))
  <1>1. PICK m \in Nat, k \in Nat, l \in Nat :
          m = Len(text) /\ k = Len(b) /\ l = Len(w)
    BY DEF Text
  <1>size. n \in Nat /\ n \in 0..Len(w) /\ 1 <= n /\ n <= l
    BY <1>1
  <1> DEFINE x == SubSeq(w, 1, n)
             y == SubSeq(w, n + 1, Len(w))
  <1>2. /\ x \in Text /\ Len(x) = n /\ \A i \in 1..n : x[i] = w[i]
        /\ Len(y) = l - n /\ \A i \in 1..(l - n) : y[i] = w[n + i]
    BY <1>size, <1>1, Cut
  <1> HIDE DEF x, y
  <1>3. /\ Len(b \o x) = k + n /\ \A i \in 1..k : (b \o x)[i] = b[i]
        /\ \A i \in 1..n : (b \o x)[k + i] = x[i]
    BY <1>1, <1>2, Join
  <1>4. /\ p + k + l = m /\ \A i \in 1..k : b[i] = text[p + i]
        /\ \A i \in 1..l : w[i] = text[p + k + i]
    BY <1>1 DEF At
  <1>5. ASSUME NEW i \in 1..(k + n) PROVE (b \o x)[i] = text[p + i]
    <2>1. CASE i <= k
      BY <1>3, <1>4, <2>1
    <2>2. CASE i > k
      <3>1. PICK j \in 1..n : i = k + j
        <4>1. i - k \in 1..n /\ i = k + (i - k)
          BY <2>2
        <4> QED  BY <4>1
      <3>2. j \in 1..l /\ p + k + j = p + i
        BY <3>1, <1>1
      <3>3. (b \o x)[i] = x[j] /\ x[j] = w[j]
        BY <3>1, <1>2, <1>3
      <3>4. w[j] = text[p + k + j]
        BY <3>2, <1>4
      <3> QED  BY <3>2, <3>3, <3>4
    <2>3. i <= k \/ i > k
      BY <1>size
    <2> QED  BY <2>1, <2>2, <2>3
  <1>6. ASSUME NEW i \in 1..(l - n) PROVE y[i] = text[p + (k + n) + i]
    <2>1. n + i \in 1..l /\ p + k + (n + i) = p + (k + n) + i
      BY <1>1
    <2> QED  BY <2>1, <1>2, <1>4
  <1>sum. p + k + l = m
    BY <1>4
  <1>7. p + (k + n) + (l - n) = m
    BY <1>size, <1>sum
  <1>8. At(text, p, b \o x, y)
    BY <1>1, <1>2, <1>3, <1>5, <1>6, <1>7 DEF At
  <1> QED  BY <1>8 DEF x, y

\* The first bytes of the buffer are dropped.
LEMMA AtTake ==
  ASSUME NEW text \in Text, NEW b \in Text, NEW w \in Text, NEW p \in Nat,
         NEW n \in 1..Len(b), At(text, p, b, w)
  PROVE  At(text, p + n, SubSeq(b, n + 1, Len(b)), w)
  <1>1. PICK m \in Nat, k \in Nat, l \in Nat :
          m = Len(text) /\ k = Len(b) /\ l = Len(w)
    BY DEF Text
  <1>size. n \in Nat /\ n \in 0..Len(b) /\ 1 <= n /\ n <= k
    BY <1>1
  <1> DEFINE y == SubSeq(b, n + 1, Len(b))
  <1>2. Len(y) = k - n /\ \A i \in 1..(k - n) : y[i] = b[n + i]
    BY <1>size, <1>1, Cut
  <1> HIDE DEF y
  <1>4. /\ p + k + l = m /\ \A i \in 1..k : b[i] = text[p + i]
        /\ \A i \in 1..l : w[i] = text[p + k + i]
    BY <1>1 DEF At
  <1>5. ASSUME NEW i \in 1..(k - n) PROVE y[i] = text[(p + n) + i]
    <2>1. n + i \in 1..k /\ p + (n + i) = (p + n) + i
      BY <1>1
    <2> QED  BY <2>1, <1>2, <1>4
  <1>6. ASSUME NEW i \in 1..l PROVE w[i] = text[(p + n) + (k - n) + i]
    <2>1. (p + n) + (k - n) + i = p + k + i
      BY <1>1
    <2> QED  BY <2>1, <1>4
  <1>7. (p + n) + (k - n) + l = m
    BY <1>size, <1>1, <1>4
  <1>8. At(text, p + n, y, w)
    BY <1>1, <1>2, <1>5, <1>6, <1>7 DEF At
  <1> QED  BY <1>8 DEF y

\* Bytes of the wire are dropped while the buffer is empty.
LEMMA AtSkip ==
  ASSUME NEW text \in Text, NEW w \in Text, NEW p \in Nat, NEW n \in 1..Len(w),
         At(text, p, <<>>, w)
  PROVE  At(text, p + n, <<>>, SubSeq(w, n + 1, Len(w)))
  <1>1. PICK m \in Nat, l \in Nat : m = Len(text) /\ l = Len(w)
    BY DEF Text
  <1>2. n \in Nat /\ n \in 0..Len(w) /\ n <= l
    BY <1>1
  <1> DEFINE y == SubSeq(w, n + 1, Len(w))
  <1>3. Len(y) = l - n /\ \A i \in 1..(l - n) : y[i] = w[n + i]
    BY <1>1, <1>2, Cut
  <1> HIDE DEF y
  <1>4. Len(<<>>) = 0
    OBVIOUS
  <1>5. p + 0 + l = m /\ \A i \in 1..l : w[i] = text[p + 0 + i]
    BY <1>1, <1>4 DEF At
  <1>6. p + 0 + l = m
    BY <1>5
  <1>7. ASSUME NEW i \in 1..(l - n) PROVE y[i] = text[(p + n) + 0 + i]
    <2>1. n + i \in 1..l /\ p + 0 + (n + i) = (p + n) + 0 + i
      BY <1>2
    <2> QED  BY <2>1, <1>3, <1>5
  <1>8. (p + n) + 0 + (l - n) = m
    BY <1>2, <1>6
  <1>9. At(text, p + n, <<>>, y)
    BY <1>1, <1>3, <1>4, <1>7, <1>8 DEF At
  <1> QED  BY <1>9 DEF y

-----------------------------------------------------------------------------
(* Where the lines are in the text.                                        *)

\* The bytes of a request's line.
LEMMA LineBytes ==
  ASSUME NEW s, IsLine(s)
  PROVE  /\ s \in Text /\ Len(s) \in Nat /\ 1 <= Len(s) /\ s[Len(s)] = LF
         /\ \A i \in 1..(Len(s) - 1) : s[i] # LF
  <1>1. s \in Text /\ s # <<>> /\ {i \in DOMAIN s : s[i] = LF} = {Len(s)}
    BY DEF IsLine, Newline, Text
  <1>2. Len(s) \in Nat /\ DOMAIN s = 1..Len(s)
    BY <1>1 DEF Text
  <1>3. Len(s) \in DOMAIN s /\ s[Len(s)] = LF
    BY <1>1
  <1>4. ASSUME NEW i \in 1..(Len(s) - 1) PROVE s[i] # LF
    <2>1. PICK n \in Nat : n = Len(s)
      BY <1>2
    <2>2. i \in 1..n /\ i # n
      BY <2>1
    <2> QED  BY <1>1, <1>2, <2>1, <2>2
  <1>5. 1 <= Len(s)
    BY <1>2, <1>3
  <1> QED  BY <1>1, <1>2, <1>3, <1>4, <1>5

\* The first n bytes of s are those of text after the first p.
Agree(s, n, text, p) == \A i \in 1..n : s[i] = text[p + i]

\* There is no LF in the first n bytes of s.
NoLF(s, n) == \A i \in 1..n : s[i] # LF

\* A piece s of a text starts in a line, the one of len bytes after the first q: its
\* bytes are the line's.
LEMMA PieceOfLine ==
  ASSUME NEW text, NEW line, NEW len \in Nat, NEW q \in Nat,
         Agree(line, len, text, q),
         NEW d \in Nat, NEW s, NEW size \in Nat, Agree(s, size, text, q + d),
         NEW i \in 1..size, d + i <= len
  PROVE  s[i] = line[d + i]
  <1> USE DEF Agree, NoLF
  <1>1. d + i \in 1..len /\ q + (d + i) = q + d + i
    OBVIOUS
  <1> QED  BY <1>1

\* Its first LF is the one that ends the line.
LEMMA EndOfLine ==
  ASSUME NEW text, NEW line, NEW len \in Nat, NEW q \in Nat,
         Agree(line, len, text, q),
         line[len] = LF, NoLF(line, len - 1),
         NEW p \in Nat, q <= p, p < q + len,
         NEW s, NEW size \in Nat, Agree(s, size, text, p),
         NEW j \in Nat, j \in 1..size, s[j] = LF, NoLF(s, j - 1)
  PROVE  p + j = q + len
  <1> USE DEF Agree, NoLF
  <1>1. PICK d \in Nat : d = p - q
    <2>1. p - q \in Nat
      OBVIOUS
    <2> QED  BY <2>1
  <1>2. p = q + d /\ d < len
    BY <1>1
  <1>3. \A i \in 1..size : d + i <= len => s[i] = line[d + i]
    <2>1. Agree(s, size, text, q + d)
      BY <1>2
    <2> HIDE DEF Agree, NoLF
    <2> QED  BY <2>1, PieceOfLine
  <1>4. CASE d + j < len
    <2>1. d + j \in 1..(len - 1) /\ d + j <= len
      BY <1>4
    <2> QED  BY <1>3, <2>1
  <1>5. CASE d + j > len
    <2>1. PICK i \in 1..(j - 1) : d + i = len
      <3>1. len - d \in 1..(j - 1) /\ d + (len - d) = len
        BY <1>2, <1>5
      <3> QED  BY <3>1
    <2>2. i \in 1..size /\ d + i <= len
      BY <2>1
    <2>3. s[i] = LF
      BY <1>3, <2>1, <2>2
    <2> QED  BY <2>1, <2>3
  <1>6. CASE d + j = len
    BY <1>2, <1>6
  <1>7. d + j < len \/ d + j > len \/ d + j = len
    OBVIOUS
  <1> QED  BY <1>4, <1>5, <1>6, <1>7

\* Without a LF it ends before the line does.
LEMMA InsideLine ==
  ASSUME NEW text, NEW line, NEW len \in Nat, NEW q \in Nat,
         Agree(line, len, text, q), line[len] = LF,
         NEW p \in Nat, q <= p, p < q + len,
         NEW s, NEW size \in Nat, Agree(s, size, text, p),
         NoLF(s, size)
  PROVE  p + size < q + len
  <1> USE DEF Agree, NoLF
  <1>1. PICK d \in Nat : d = p - q
    <2>1. p - q \in Nat
      OBVIOUS
    <2> QED  BY <2>1
  <1>2. p = q + d /\ d < len
    BY <1>1
  <1>3. \A i \in 1..size : d + i <= len => s[i] = line[d + i]
    <2>1. Agree(s, size, text, q + d)
      BY <1>2
    <2> HIDE DEF Agree, NoLF
    <2> QED  BY <2>1, PieceOfLine
  <1>4. CASE d + size < len
    BY <1>2, <1>4
  <1>5. CASE d + size >= len
    <2>1. PICK i \in 1..size : d + i = len
      <3>1. len - d \in 1..size /\ d + (len - d) = len
        BY <1>2, <1>5
      <3> QED  BY <3>1
    <2>2. d + i <= len
      BY <2>1
    <2>3. s[i] = LF
      BY <1>3, <2>1, <2>2
    <2> QED  BY <2>3
  <1>6. d + size < len \/ d + size >= len
    OBVIOUS
  <1> QED  BY <1>4, <1>5, <1>6

\* Text that is laid out stays so when the client sends one more line.
LEMMA LaidMore ==
  ASSUME NEW h \in Text, NEW reqs \in Seq(Requests), NEW text \in Text, NEW e,
         Laid(h, reqs, text, e), NEW r \in Requests
  PROVE  \E f : /\ Laid(h, Append(reqs, r), text \o Line(r), f)
                /\ \A n \in 0..Len(reqs) : f[n] = e[n]
  <1>1. /\ Line(r) \in Text /\ Len(Line(r)) \in Nat
        /\ Len(text) \in Nat /\ Len(h) \in Nat /\ Len(reqs) \in Nat
    BY LineBytes, LineAssumption DEF Text
  <1>2. PICK N \in Nat, m \in Nat, l \in Nat, c \in Nat :
          N = Len(reqs) /\ m = Len(text) /\ l = Len(Line(r)) /\ c = Len(h)
    BY <1>1
  <1> DEFINE t == text \o Line(r)
             a == Append(reqs, r)
             f == [n \in 0..(N + 1) |-> IF n <= N THEN e[n] ELSE m + l]
  <1>3. /\ Len(t) = m + l /\ \A i \in 1..m : t[i] = text[i]
        /\ \A i \in 1..l : t[m + i] = Line(r)[i]
    BY <1>1, <1>2, Join
  <1>4. Len(a) = N + 1 /\ (\A n \in 1..N : a[n] = reqs[n]) /\ a[N + 1] = r
    BY <1>2, AppendProperties
  <1>5. /\ e \in [0..N -> Nat] /\ e[0] = c /\ e[N] = m
        /\ \A i \in 1..c : text[i] = h[i]
        /\ \A n \in 0..N : e[n] <= m
        /\ \A n \in 1..N :
             /\ e[n] = e[n - 1] + Len(Line(reqs[n]))
             /\ \A i \in 1..Len(Line(reqs[n])) : text[e[n - 1] + i] = Line(reqs[n])[i]
    BY <1>2 DEF Laid
  <1>6. \A n \in 0..N : f[n] = e[n] /\ f[n] \in Nat /\ f[n] <= m
    BY <1>5
  <1>7. f[N + 1] = m + l
    BY <1>2
  <1>8. f \in [0..(N + 1) -> Nat]
    <2>1. \A n \in 0..(N + 1) : (IF n <= N THEN e[n] ELSE m + l) \in Nat
      <3>1. SUFFICES ASSUME NEW n \in 0..(N + 1)
                     PROVE  (IF n <= N THEN e[n] ELSE m + l) \in Nat
        OBVIOUS
      <3>2. n <= N => n \in 0..N
        BY <1>2
      <3> QED  BY <1>5, <3>2
    <2> QED  BY <2>1
  <1> HIDE DEF f, t, a
  <1>9. f[0] = c
    BY <1>5, <1>6
  <1>10. \A i \in 1..c : t[i] = h[i]
    <2>1. c <= m
      <3>1. 0 \in 0..N
        OBVIOUS
      <3> QED  BY <3>1, <1>5
    <2> QED  BY <2>1, <1>3, <1>5
  <1>11. \A n \in 0..(N + 1) : f[n] <= m + l
    <2>1. SUFFICES ASSUME NEW n \in 0..(N + 1) PROVE f[n] <= m + l
      OBVIOUS
    <2>2. CASE n = N + 1
      BY <2>2, <1>7
    <2>3. CASE n \in 0..N
      <3>1. f[n] \in Nat /\ f[n] <= m
        BY <2>3, <1>6
      <3> QED  BY <3>1
    <2>4. n = N + 1 \/ n \in 0..N
      OBVIOUS
    <2> QED  BY <2>2, <2>3, <2>4
  <1>12. ASSUME NEW n \in 1..(N + 1)
         PROVE  /\ f[n] = f[n - 1] + Len(Line(a[n]))
                /\ \A i \in 1..Len(Line(a[n])) : t[f[n - 1] + i] = Line(a[n])[i]
    <2>1. CASE n = N + 1
      <3>1. n - 1 = N /\ N \in 0..N
        BY <2>1
      <3>2. f[n - 1] = m /\ a[n] = r /\ f[n] = m + l
        BY <2>1, <3>1, <1>4, <1>5, <1>6, <1>7
      <3> QED  BY <3>2, <1>2, <1>3
    <2>2. CASE n \in 1..N
      <3>1. n \in 0..N /\ n - 1 \in 0..N
        BY <2>2
      <3>2. a[n] = reqs[n] /\ f[n] = e[n] /\ f[n - 1] = e[n - 1]
        BY <2>2, <3>1, <1>4, <1>6
      <3>3. reqs[n] \in Requests
        BY <2>2, <1>2
      <3>4. Len(Line(reqs[n])) \in Nat
        BY <3>3, LineBytes, LineAssumption
      <3>5. PICK v \in Nat, q \in Nat : v = Len(Line(reqs[n])) /\ q = e[n - 1]
        BY <3>1, <3>4, <1>5
      <3>6. e[n] = q + v /\ e[n] <= m
        BY <2>2, <3>1, <3>5, <1>5
      <3>7. \A i \in 1..v : text[q + i] = Line(reqs[n])[i]
        BY <2>2, <3>5, <1>5
      <3>8. q + v <= m
        BY <3>6
      <3>9. \A i \in 1..v : q + i \in 1..m
        BY <3>8
      <3>10. \A i \in 1..v : t[q + i] = Line(reqs[n])[i]
        BY <3>7, <3>9, <1>3
      <3> QED  BY <3>2, <3>5, <3>6, <3>10
    <2>3. n = N + 1 \/ n \in 1..N
      OBVIOUS
    <2> QED  BY <2>1, <2>2, <2>3
  <1>13. Laid(h, a, t, f)
    BY <1>2, <1>3, <1>4, <1>7, <1>8, <1>9, <1>10, <1>11, <1>12 DEF Laid
  <1> QED  BY <1>2, <1>6, <1>13 DEF t, a

\* The first LF in the buffer ends the line of the first request not decoded.
LEMMA FirstLine ==
  ASSUME NEW h \in Text, NEW reqs \in Seq(Requests), NEW text \in Text, NEW e,
         Laid(h, reqs, text, e), NEW k \in 0..Len(reqs),
         NEW b \in Text, NEW w \in Text, At(text, e[k], b, w),
         NEW j \in 1..Len(b), b[j] = LF, \A i \in 1..(j - 1) : b[i] # LF
  PROVE  /\ k + 1 \in 1..Len(reqs) /\ e[k] \in Nat /\ e[k + 1] = e[k] + j
         /\ SubSeq(b, 1, j) = Line(reqs[k + 1])
  <1>1. PICK N \in Nat, m \in Nat, s \in Nat, v \in Nat :
          N = Len(reqs) /\ m = Len(text) /\ s = Len(b) /\ v = Len(w)
    BY DEF Text
  <1>2. k \in Nat /\ k <= N /\ j \in Nat /\ 1 <= j /\ j <= s
    BY <1>1
  <1>3. /\ e \in [0..N -> Nat] /\ e[N] = m
        /\ \A n \in 0..N : e[n] <= m
        /\ \A n \in 1..N :
             /\ e[n] = e[n - 1] + Len(Line(reqs[n]))
             /\ \A i \in 1..Len(Line(reqs[n])) : text[e[n - 1] + i] = Line(reqs[n])[i]
    BY <1>1 DEF Laid
  <1>4. PICK p \in Nat : p = e[k]
    <2>1. k \in 0..N
      BY <1>2
    <2> QED  BY <1>3, <2>1
  <1>5. p + s + v = m /\ \A i \in 1..s : b[i] = text[p + i]
    BY <1>1, <1>4 DEF At
  <1>6. p + s + v = m
    BY <1>5
  <1>7. k # N
    <2>1. ASSUME k = N PROVE FALSE
      <3>1. p = m
        BY <2>1, <1>3, <1>4
      <3> QED  BY <3>1, <1>2, <1>6
    <2> QED  BY <2>1
  <1>8. PICK n \in 1..N : n = k + 1 /\ n - 1 = k
    <2>1. k + 1 \in 1..N /\ (k + 1) - 1 = k
      BY <1>2, <1>7
    <2> QED  BY <2>1
  <1> DEFINE line == Line(reqs[n])
  <1>9. reqs[n] \in Requests
    BY <1>1, <1>8
  <1>10. /\ line \in Text /\ Len(line) \in Nat /\ 1 <= Len(line) /\ line[Len(line)] = LF
         /\ \A i \in 1..(Len(line) - 1) : line[i] # LF
    BY <1>9, LineBytes, LineAssumption
  <1>11. e[n] = p + Len(line) /\ \A i \in 1..Len(line) : text[p + i] = line[i]
    BY <1>3, <1>4, <1>8
  <1> HIDE DEF line
  <1>12. PICK l \in Nat : l = Len(line)
    BY <1>10
  <1>13. 1 <= l /\ line[l] = LF /\ \A i \in 1..(l - 1) : line[i] # LF
    BY <1>10, <1>12
  <1>14. p + j = p + l
    <2>1. p <= p /\ p < p + l
      BY <1>13
    <2>2. \A i \in 1..l : text[p + i] = line[i]
      BY <1>11, <1>12
    <2>3. \A i \in 1..s : b[i] = text[p + i]
      BY <1>5
    <2>4. j \in 1..s
      BY <1>2
    <2>5. /\ Agree(line, l, text, p) /\ NoLF(line, l - 1)
          /\ Agree(b, s, text, p) /\ NoLF(b, j - 1)
      BY <1>13, <2>2, <2>3 DEF Agree, NoLF
    <2> QED  BY <1>13, <2>1, <2>4, <2>5, EndOfLine
  <1>15. j = l
    BY <1>2, <1>14
  <1>16. SubSeq(b, 1, j) = line
    <2>1. j \in 0..Len(b)
      BY <1>1, <1>2
    <2>2. /\ SubSeq(b, 1, j) \in Text /\ Len(SubSeq(b, 1, j)) = j
          /\ \A i \in 1..j : SubSeq(b, 1, j)[i] = b[i]
      BY <2>1, Cut
    <2>3. \A i \in 1..j : i \in 1..s
      BY <1>2
    <2>4. \A i \in 1..j : b[i] = line[i]
      BY <2>3, <1>5, <1>11, <1>12, <1>15
    <2> QED  BY <2>2, <2>4, <1>10, <1>12, <1>15, SeqEqual DEF Text
  <1>17. e[n] = p + j
    BY <1>11, <1>12, <1>15
  <1> QED  BY <1>1, <1>4, <1>8, <1>16, <1>17 DEF line

\* Without a LF in the buffer, and nothing on the wire, every line is decoded.
LEMMA NoLine ==
  ASSUME NEW h \in Text, NEW reqs \in Seq(Requests), NEW text \in Text, NEW e,
         Laid(h, reqs, text, e), NEW k \in 0..Len(reqs),
         NEW b \in Text, At(text, e[k], b, <<>>),
         \A i \in 1..Len(b) : b[i] # LF
  PROVE  k = Len(reqs)
  <1>1. PICK N \in Nat, m \in Nat, s \in Nat : N = Len(reqs) /\ m = Len(text) /\ s = Len(b)
    BY DEF Text
  <1>2. SUFFICES ASSUME k # N PROVE FALSE
    BY <1>1
  <1>3. PICK n \in 1..N : n - 1 = k
    <2>1. k + 1 \in 1..N /\ (k + 1) - 1 = k
      BY <1>1, <1>2
    <2> QED  BY <2>1
  <1>4. /\ e \in [0..N -> Nat]
        /\ \A x \in 0..N : e[x] <= m
        /\ \A x \in 1..N :
             /\ e[x] = e[x - 1] + Len(Line(reqs[x]))
             /\ \A i \in 1..Len(Line(reqs[x])) : text[e[x - 1] + i] = Line(reqs[x])[i]
    BY <1>1 DEF Laid
  <1>5. n \in 0..N /\ k \in 0..N
    BY <1>1
  <1>6. PICK p \in Nat, q \in Nat : p = e[k] /\ q = e[n]
    BY <1>4, <1>5
  <1>7. Len(<<>>) = 0
    OBVIOUS
  <1>8. p + s + 0 = m /\ \A i \in 1..s : b[i] = text[p + i]
    BY <1>1, <1>6, <1>7 DEF At
  <1>9. p + s = m /\ q <= m
    <2>1. p + s + 0 = m
      BY <1>8
    <2>2. q <= m
      BY <1>4, <1>5, <1>6
    <2> QED  BY <2>1, <2>2
  <1> DEFINE line == Line(reqs[n])
  <1>10. reqs[n] \in Requests
    BY <1>1, <1>3
  <1>11. /\ Len(line) \in Nat /\ 1 <= Len(line) /\ line[Len(line)] = LF
         /\ \A i \in 1..(Len(line) - 1) : line[i] # LF
    BY <1>10, LineBytes, LineAssumption
  <1>12. q = p + Len(line) /\ \A i \in 1..Len(line) : text[p + i] = line[i]
    BY <1>3, <1>4, <1>6
  <1> HIDE DEF line
  <1>13. PICK l \in Nat : l = Len(line)
    BY <1>11
  <1>14. 1 <= l /\ line[l] = LF /\ \A i \in 1..(l - 1) : line[i] # LF
    BY <1>11, <1>13
  <1>15. q = p + l
    BY <1>12, <1>13
  <1>16. p <= p /\ p < p + l
    BY <1>14
  <1>17. \A i \in 1..l : text[p + i] = line[i]
    BY <1>12, <1>13
  <1>18. \A i \in 1..s : b[i] = text[p + i]
    BY <1>8
  <1>19. \A i \in 1..s : b[i] # LF
    BY <1>1
  <1>20. p + s < p + l
    <2>1. Agree(line, l, text, p) /\ Agree(b, s, text, p) /\ NoLF(b, s)
      BY <1>17, <1>18, <1>19 DEF Agree, NoLF
    <2> QED  BY <1>14, <1>16, <2>1, InsideLine
  <1> QED  BY <1>9, <1>15, <1>20

\* The first of some indices.
LEMMA FirstIsLeast ==
  ASSUME NEW S \in SUBSET Nat, S # {}
  PROVE  First(S) \in S /\ \A j \in S : First(S) <= j
  <1> DEFINE less == {ss \in Nat \X Nat : ss[1] < ss[2]}
  <1>1. IsWellFoundedOn(less, Nat)
    BY NatLessThanWellFounded, Zenon DEF OpToRel
  <1>2. \A x, y \in Nat : x < y => <<x, y>> \in less
    OBVIOUS
  <1> HIDE DEF less
  <1>3. PICK i \in S : \A j \in S : ~(<<j, i>> \in less)
    BY <1>1, WFMin
  <1>4. ASSUME NEW j \in S PROVE i <= j
    <2>1. i \in Nat /\ j \in Nat /\ ~(j < i)
      BY <1>2, <1>3
    <2> QED  BY <2>1
  <1> QED  BY <1>4 DEF First

-----------------------------------------------------------------------------
(* The inductive invariant.                                                *)

\* What the parser makes of lines.
Results == {parse(Line(r)) : r \in Requests}

\* The types of the variables.
Types ==
  /\ header \in Text /\ requests \in Seq(Requests) /\ wire \in Text
  /\ rbuf \in Text /\ buf \in Text /\ results \in Seq(Results)
  /\ phase \in {"header", "commands", "closed"}
  /\ open \in BOOLEAN /\ readable \in BOOLEAN /\ eof \in BOOLEAN
  /\ next_index \in Nat

\* The results are those of the first lines, in their order.
InOrder ==
  /\ Len(results) <= Len(requests)
  /\ \A n \in 1..Len(results) : results[n] = parse(Line(requests[n]))

\* What the server has not taken is what the proxy and the client have sent and is
\* not in the header read so far, or in the lines decoded.
Tracked ==
  phase # "closed" =>
    \E text, e :
      /\ text \in Text
      /\ Laid(header, requests, text, e)
      /\ At(text, IF phase = "header" THEN Len(rbuf) ELSE e[Len(results)], buf, wire)

\* A part of the header is read, and nothing else has happened.
InHeader ==
  phase = "header" =>
    /\ IsLine(header) /\ Len(rbuf) < Len(header)
    /\ \A i \in 1..Len(rbuf) : rbuf[i] = header[i]
    /\ results = <<>> /\ buf = <<>> /\ next_index = 0
    /\ readable = FALSE /\ eof = FALSE /\ verdict = "none"

\* FtpCodec need not look at the bytes before next_index again; Framed waits for
\* bytes when there is no line in what it has.
Scanned ==
  phase = "commands" =>
    /\ next_index <= Len(buf)
    /\ \A i \in 1..next_index : buf[i] # LF
    /\ readable = FALSE => \A i \in 1..Len(buf) : buf[i] # LF

\* The end of the stream comes last; when it ends the loop, no line is left.
AtTheEnd ==
  /\ eof => wire = <<>> /\ open = FALSE
  /\ (phase = "closed" /\ eof /\ \A n \in 1..Len(results) : results[n].cmd # "error")
       => Len(results) = Len(requests)

\* All of it.
StreamInv == Types /\ InOrder /\ Tracked /\ InHeader /\ Scanned /\ AtTheEnd /\ HeaderExact

\* Initially.
LEMMA InitStream == Init => StreamInv
  <1> SUFFICES ASSUME Init PROVE StreamInv
    OBVIOUS
  <1>first. header = <<>> \/ IsLine(header)
    BY LineAssumption DEF Init
  <1>empty. <<>> \in Text /\ Len(<<>>) = 0
    BY DEF Text
  <1>line. IsLine(header) => header # <<>> /\ 1 <= Len(header)
    BY LineBytes DEF IsLine
  <1>1. /\ <<>> \in Text /\ Len(<<>>) = 0
        /\ header = <<>> \/ (header # <<>> /\ IsLine(header) /\ 1 <= Len(header))
    BY <1>first, <1>empty, <1>line
  <1>2. header \in Text /\ Len(header) \in Nat
    <2>1. IsLine(header) => header \in Text /\ Len(header) \in Nat
      BY LineBytes
    <2> QED  BY <1>first, <1>empty, <2>1
  <1>3. /\ wire = header /\ phase = (IF header = <<>> THEN "commands" ELSE "header")
        /\ requests = <<>> /\ open = TRUE /\ rbuf = <<>> /\ verdict = "none"
        /\ buf = <<>> /\ readable = FALSE /\ eof = FALSE /\ next_index = 0
        /\ results = <<>>
    BY DEF Init
  <1>4. Types
    <2>1. requests \in Seq(Requests) /\ results \in Seq(Results)
      BY <1>3
    <2> QED  BY <1>1, <1>2, <1>3, <2>1 DEF Types
  <1>5. InOrder
    BY <1>3 DEF InOrder
  <1>6. Tracked
    <2> DEFINE e == [n \in 0..0 |-> Len(header)]
    <2>1. e \in [0..0 -> Nat] /\ e[0] = Len(header)
      BY <1>2
    <2> HIDE DEF e
    <2>2. Laid(header, <<>>, header, e)
      BY <2>1, <1>1, <1>2 DEF Laid
    <2>3. At(header, 0, <<>>, header)
      <3>1. PICK c \in Nat : c = Len(header)
        BY <1>2
      <3>2. 0 + 0 + c = c /\ \A i \in 1..c : i = 0 + 0 + i
        OBVIOUS
      <3> QED  BY <1>1, <3>1, <3>2 DEF At
    <2>4. (IF phase = "header" THEN Len(rbuf) ELSE e[Len(results)]) = 0
      BY <1>1, <1>3, <2>1
    <2> QED  BY <1>2, <1>3, <2>2, <2>3, <2>4 DEF Tracked
  <1>7. InHeader
    BY <1>1, <1>2, <1>3 DEF InHeader
  <1>8. Scanned
    BY <1>1, <1>3 DEF Scanned
  <1>9. AtTheEnd
    BY <1>3 DEF AtTheEnd
  <1>10. HeaderExact
    BY <1>3 DEF HeaderExact
  <1> QED  BY <1>4, <1>5, <1>6, <1>7, <1>8, <1>9, <1>10 DEF StreamInv

\* The client sends a request.
LEMMA RequestStream ==
  ASSUME StreamInv, NEW r \in Requests, Request(r)
  PROVE  StreamInv'
  <1>1. Types /\ InOrder /\ Tracked /\ InHeader /\ Scanned /\ AtTheEnd /\ HeaderExact
    BY DEF StreamInv
  <1>2. /\ open /\ requests' = Append(requests, r) /\ wire' = wire \o Line(r)
        /\ header' = header /\ open' = open /\ phase' = phase /\ rbuf' = rbuf
        /\ verdict' = verdict /\ buf' = buf /\ readable' = readable /\ eof' = eof
        /\ next_index' = next_index /\ results' = results
    BY DEF Request, codec
  <1>3. /\ header \in Text /\ requests \in Seq(Requests) /\ wire \in Text
        /\ rbuf \in Text /\ buf \in Text /\ results \in Seq(Results)
    BY <1>1 DEF Types
  <1>4. Line(r) \in Text
    BY LineBytes, LineAssumption
  <1>5. /\ requests' \in Seq(Requests) /\ Len(requests') = Len(requests) + 1
        /\ \A n \in 1..Len(requests) : requests'[n] = requests[n]
    BY <1>2, <1>3, AppendProperties
  <1>6. wire' \in Text
    BY <1>2, <1>3, <1>4, Join
  <1>7. PICK N \in Nat, k \in Nat, c \in Nat :
          N = Len(requests) /\ k = Len(results) /\ c = Len(rbuf)
    BY <1>3 DEF Text
  <1>8. k <= N /\ \A n \in 1..k : results[n] = parse(Line(requests[n]))
    BY <1>1, <1>7 DEF InOrder
  <1>9. Types'
    BY <1>1, <1>2, <1>5, <1>6 DEF Types
  <1>10. InOrder'
    <2>1. k <= N + 1 /\ \A n \in 1..k : n \in 1..N
      BY <1>8
    <2>2. \A n \in 1..k : results[n] = parse(Line(requests'[n]))
      BY <2>1, <1>5, <1>7, <1>8
    <2> QED  BY <2>1, <2>2, <1>2, <1>5, <1>7 DEF InOrder
  <1>11. Tracked'
    <2>1. SUFFICES ASSUME phase # "closed" PROVE Tracked'
      BY <1>2 DEF Tracked
    <2>2. PICK text, e :
            /\ text \in Text
            /\ Laid(header, requests, text, e)
            /\ At(text, IF phase = "header" THEN Len(rbuf) ELSE e[Len(results)], buf, wire)
      BY <1>1, <2>1 DEF Tracked
    <2>3. PICK f : /\ Laid(header, requests', text \o Line(r), f)
                   /\ \A n \in 0..N : f[n] = e[n]
      BY <1>2, <1>3, <1>7, <2>2, LaidMore
    <2>4. e \in [0..N -> Nat]
      BY <1>7, <2>2 DEF Laid
    <2>5. k \in 0..N
      BY <1>8
    <2>6. PICK p \in Nat : /\ p = IF phase = "header" THEN Len(rbuf) ELSE e[Len(results)]
                           /\ p = IF phase = "header" THEN Len(rbuf) ELSE f[Len(results)]
      BY <1>7, <2>3, <2>4, <2>5
    <2>7. At(text \o Line(r), p, buf, wire \o Line(r))
      BY <1>3, <1>4, <2>2, <2>6, AtArrival
    <2>8. text \o Line(r) \in Text
      BY <1>4, <2>2, Join
    <2> QED  BY <1>2, <2>3, <2>6, <2>7, <2>8 DEF Tracked
  <1>12. InHeader' /\ Scanned' /\ HeaderExact'
    BY <1>1, <1>2 DEF InHeader, Scanned, HeaderExact
  <1>13. AtTheEnd'
    BY <1>1, <1>2 DEF AtTheEnd, Types
  <1> QED  BY <1>9, <1>10, <1>11, <1>12, <1>13 DEF StreamInv

\* The client closes its side.
LEMMA CloseStream ==
  ASSUME StreamInv, Close
  PROVE  StreamInv'
  <1>1. Types /\ InOrder /\ Tracked /\ InHeader /\ Scanned /\ AtTheEnd /\ HeaderExact
    BY DEF StreamInv
  <1>2. /\ open' = FALSE /\ requests' = requests /\ wire' = wire
        /\ header' = header /\ phase' = phase /\ rbuf' = rbuf
        /\ verdict' = verdict /\ buf' = buf /\ readable' = readable /\ eof' = eof
        /\ next_index' = next_index /\ results' = results
    BY DEF Close, codec
  <1>3. Types' /\ InOrder'
    BY <1>1, <1>2 DEF Types, InOrder
  <1>4. Tracked'
    BY <1>1, <1>2 DEF Tracked
  <1>5. InHeader' /\ Scanned' /\ HeaderExact'
    BY <1>1, <1>2 DEF InHeader, Scanned, HeaderExact
  <1>6. AtTheEnd'
    BY <1>1, <1>2 DEF AtTheEnd
  <1> QED  BY <1>3, <1>4, <1>5, <1>6 DEF StreamInv

\* Framed reads the end of the stream.
LEMMA ReadEofStream ==
  ASSUME StreamInv, ReadEof
  PROVE  StreamInv'
  <1>1. Types /\ InOrder /\ Tracked /\ InHeader /\ Scanned /\ AtTheEnd /\ HeaderExact
    BY DEF StreamInv
  <1>2. /\ phase = "commands" /\ wire = <<>> /\ ~open /\ eof' = TRUE /\ readable' = TRUE
        /\ requests' = requests /\ wire' = wire /\ open' = open
        /\ header' = header /\ phase' = phase /\ rbuf' = rbuf
        /\ verdict' = verdict /\ buf' = buf
        /\ next_index' = next_index /\ results' = results
    BY DEF ReadEof, client
  <1>3. Types' /\ InOrder'
    BY <1>1, <1>2 DEF Types, InOrder
  <1>4. Tracked'
    BY <1>1, <1>2 DEF Tracked
  <1>5. InHeader' /\ Scanned' /\ HeaderExact'
    BY <1>1, <1>2 DEF InHeader, Scanned, HeaderExact
  <1>6. AtTheEnd'
    BY <1>1, <1>2 DEF AtTheEnd, Types
  <1> QED  BY <1>3, <1>4, <1>5, <1>6 DEF StreamInv

\* Framed reads some bytes.
LEMMA ReadStream ==
  ASSUME StreamInv, NEW n \in 1..Len(wire), Read(n)
  PROVE  StreamInv'
  <1>1. Types /\ InOrder /\ Tracked /\ InHeader /\ Scanned /\ AtTheEnd /\ HeaderExact
    BY DEF StreamInv
  <1>2. /\ phase = "commands" /\ buf' = buf \o SubSeq(wire, 1, n)
        /\ wire' = SubSeq(wire, n + 1, Len(wire)) /\ readable' = TRUE
        /\ requests' = requests /\ open' = open
        /\ header' = header /\ phase' = phase /\ rbuf' = rbuf
        /\ verdict' = verdict /\ eof' = eof
        /\ next_index' = next_index /\ results' = results
    BY DEF Read, client
  <1>3. /\ header \in Text /\ requests \in Seq(Requests) /\ wire \in Text
        /\ buf \in Text /\ results \in Seq(Results) /\ next_index \in Nat /\ eof \in BOOLEAN
    BY <1>1 DEF Types
  <1>4. PICK N \in Nat, k \in Nat, l \in Nat, b \in Nat :
          N = Len(requests) /\ k = Len(results) /\ l = Len(wire) /\ b = Len(buf)
    BY <1>3 DEF Text
  <1>5. n \in Nat /\ 1 <= n /\ n <= l /\ n \in 0..Len(wire)
    BY <1>4
  <1>6. SubSeq(wire, 1, n) \in Text /\ Len(SubSeq(wire, 1, n)) = n /\ wire' \in Text
    BY <1>2, <1>3, <1>5, Cut
  <1>7. buf' \in Text /\ Len(buf') = b + n /\ \A i \in 1..b : buf'[i] = buf[i]
    BY <1>2, <1>3, <1>4, <1>6, Join
  <1>8. Types' /\ InOrder'
    BY <1>1, <1>2, <1>6, <1>7 DEF Types, InOrder
  <1>9. Tracked'
    <2>1. PICK text, e :
            text \in Text /\ Laid(header, requests, text, e) /\ At(text, e[Len(results)], buf, wire)
      BY <1>1, <1>2 DEF Tracked
    <2>2. e \in [0..N -> Nat]
      BY <1>4, <2>1 DEF Laid
    <2>3. k \in 0..N
      BY <1>1, <1>4 DEF InOrder
    <2>4. e[Len(results)] \in Nat
      BY <1>4, <2>2, <2>3
    <2>5. At(text, e[Len(results)], buf', wire')
      BY <1>2, <1>3, <2>1, <2>4, AtRead
    <2> QED  BY <1>2, <2>1, <2>5 DEF Tracked
  <1>10. InHeader' /\ HeaderExact'
    BY <1>1, <1>2 DEF InHeader, HeaderExact
  <1>11. Scanned'
    <2>1. next_index <= b /\ \A i \in 1..next_index : buf[i] # LF
      BY <1>1, <1>2, <1>4 DEF Scanned
    <2>2. next_index <= b + n /\ \A i \in 1..next_index : i \in 1..b
      BY <1>3, <1>5, <2>1
    <2>3. \A i \in 1..next_index : buf'[i] # LF
      BY <1>7, <2>1, <2>2
    <2> QED  BY <1>2, <1>7, <2>2, <2>3 DEF Scanned
  <1>12. AtTheEnd'
    <2>1. ~eof
      <3>1. ASSUME eof PROVE FALSE
        <4>1. wire = <<>>
          BY <1>1, <3>1 DEF AtTheEnd
        <4>2. l = 0
          BY <1>4, <4>1
        <4> QED  BY <1>5, <4>2
      <3> QED  BY <3>1
    <2> QED  BY <1>2, <1>3, <2>1 DEF AtTheEnd
  <1> QED  BY <1>8, <1>9, <1>10, <1>11, <1>12 DEF StreamInv

\* A line is decoded, or there is none.
LEMMA DecodeStream ==
  ASSUME StreamInv, Decode
  PROVE  StreamInv'
  <1> DEFINE lf == {i \in Newline(buf) : i > next_index}
             j == First(lf)
  <1>1. Types /\ InOrder /\ Tracked /\ InHeader /\ Scanned /\ AtTheEnd /\ HeaderExact
    BY DEF StreamInv
  <1>2. /\ phase = "commands" /\ readable = TRUE
        /\ requests' = requests /\ open' = open /\ wire' = wire /\ eof' = eof
        /\ header' = header /\ rbuf' = rbuf /\ verdict' = verdict
    BY <1>1 DEF Decode, client, Types
  <1>3. /\ header \in Text /\ requests \in Seq(Requests) /\ wire \in Text
        /\ buf \in Text /\ results \in Seq(Results) /\ next_index \in Nat
        /\ eof \in BOOLEAN /\ phase \in {"header", "commands", "closed"}
    BY <1>1 DEF Types
  <1>4. PICK N \in Nat, k \in Nat, b \in Nat :
          N = Len(requests) /\ k = Len(results) /\ b = Len(buf)
    BY <1>3 DEF Text
  <1>5. DOMAIN buf = 1..b
    BY <1>3, <1>4 DEF Text
  <1>6. \A i \in 1..b : buf[i] = LF /\ i > next_index <=> i \in lf
    BY <1>5 DEF Newline
  <1>7. lf \subseteq 1..b /\ lf \subseteq Nat
    BY <1>5 DEF Newline
  <1>8. PICK text, e :
          text \in Text /\ Laid(header, requests, text, e) /\ At(text, e[k], buf, wire)
    BY <1>1, <1>2, <1>4 DEF Tracked
  <1>9. k \in 0..N
    BY <1>1, <1>4 DEF InOrder
  <1>10. next_index <= b /\ \A i \in 1..next_index : buf[i] # LF
    BY <1>1, <1>2, <1>4 DEF Scanned
  <1>12. HeaderExact'
    BY <1>1, <1>2 DEF HeaderExact
  <1>13. CASE lf # {}
    <2>1. /\ Handle(parse(SubSeq(buf, 1, j)))
          /\ buf' = SubSeq(buf, j + 1, Len(buf))
          /\ next_index' = 0 /\ readable' = readable
      BY <1>13 DEF Decode
    <2>2. j \in lf /\ \A i \in lf : j <= i
      BY <1>7, <1>13, FirstIsLeast
    <2> HIDE DEF lf, j
    <2>3. j \in 1..b /\ buf[j] = LF /\ j > next_index
      BY <1>6, <1>7, <2>2
    <2>4. ASSUME NEW i \in 1..(j - 1) PROVE buf[i] # LF
      <3>1. i \in 1..b /\ i < j
        BY <2>3
      <3>2. i \notin lf
        BY <2>2, <3>1, <2>3
      <3>3. CASE i > next_index
        BY <1>6, <3>1, <3>2, <3>3
      <3>4. CASE i <= next_index
        <4>1. i \in 1..next_index
          BY <1>3, <3>4
        <4> QED  BY <1>10, <4>1
      <3>5. i > next_index \/ i <= next_index
        BY <1>3
      <3> QED  BY <3>3, <3>4, <3>5
    <2>5. /\ k + 1 \in 1..N /\ e[k] \in Nat /\ e[k + 1] = e[k] + j
          /\ SubSeq(buf, 1, j) = Line(requests[k + 1])
      <3>1. /\ k \in 0..Len(requests) /\ j \in 1..Len(buf) /\ buf[j] = LF
            /\ \A i \in 1..(j - 1) : buf[i] # LF
        BY <1>4, <1>9, <2>3, <2>4
      <3>2. /\ k + 1 \in 1..Len(requests) /\ e[k] \in Nat /\ e[k + 1] = e[k] + j
            /\ SubSeq(buf, 1, j) = Line(requests[k + 1])
        BY <1>3, <1>8, <3>1, FirstLine
      <3> QED  BY <1>4, <3>2
    <2> DEFINE result == parse(Line(requests[k + 1]))
    <2>6. /\ results' = Append(results, result)
          /\ IF result.cmd # "error" THEN phase' = phase
             ELSE IF result.arg = <<"InvalidUtf8">> THEN phase' = "closed"
             ELSE phase' \in {phase, "closed"}
      BY <2>1, <2>5 DEF Handle
    <2>7. result \in Results
      <3>1. requests[k + 1] \in Requests
        BY <1>3, <1>4, <2>5
      <3> QED  BY <3>1 DEF Results
    <2> HIDE DEF result
    <2>8. /\ results' \in Seq(Results) /\ Len(results') = k + 1
          /\ \A n \in 1..k : results'[n] = results[n]
          /\ results'[k + 1] = result
      BY <1>3, <1>4, <2>6, <2>7, AppendProperties
    <2>9. buf' \in Text
      <3>1. j \in 0..Len(buf)
        BY <1>4, <2>3
      <3> QED  BY <1>3, <2>1, <3>1, Cut
    <2>10. /\ phase' \in {"commands", "closed"}
           /\ phase' = "closed" => result.cmd = "error"
      BY <1>2, <2>6
    <2>11. Types'
      BY <1>1, <1>2, <2>1, <2>8, <2>9, <2>10 DEF Types
    <2>12. InOrder'
      <3>1. k + 1 <= N
        BY <2>5
      <3>2. \A n \in 1..k : results[n] = parse(Line(requests[n]))
        BY <1>1, <1>4 DEF InOrder
      <3>3. ASSUME NEW n \in 1..(k + 1) PROVE results'[n] = parse(Line(requests[n]))
        <4>1. n \in 1..k \/ n = k + 1
          OBVIOUS
        <4> QED  BY <4>1, <3>2, <2>8 DEF result
      <3> QED  BY <1>2, <1>4, <2>8, <3>1, <3>3 DEF InOrder
    <2>13. Tracked'
      <3>1. At(text, e[k] + j, buf', wire)
        BY <1>3, <1>4, <1>8, <2>1, <2>3, <2>5, AtTake
      <3>2. At(text, e[Len(results')], buf', wire')
        BY <1>2, <2>5, <2>8, <3>1
      <3> QED  BY <1>2, <1>8, <2>10, <3>2 DEF Tracked
    <2>14. InHeader' /\ Scanned'
      <3>1. Len(buf') \in Nat
        BY <2>9 DEF Text
      <3>2. \A i \in 1..0 : FALSE
        OBVIOUS
      <3>3. InHeader'
        BY <2>10 DEF InHeader
      <3>4. next_index' = 0 /\ readable' = TRUE
        BY <1>2, <2>1
      <3>5. 0 <= Len(buf')
        BY <3>1
      <3> QED  BY <3>2, <3>3, <3>4, <3>5 DEF Scanned
    <2>15. AtTheEnd'
      <3>1. phase' = "closed" => ~(\A n \in 1..Len(results') : results'[n].cmd # "error")
        <4>1. k + 1 \in 1..(k + 1)
          OBVIOUS
        <4> QED  BY <2>8, <2>10, <4>1
      <3>2. eof' => wire' = <<>> /\ open' = FALSE
        BY <1>1, <1>2 DEF AtTheEnd
      <3> QED  BY <3>1, <3>2 DEF AtTheEnd
    <2> QED  BY <1>12, <2>11, <2>12, <2>13, <2>14, <2>15 DEF StreamInv
  <1>14. CASE lf = {}
    <2>1. /\ next_index' = Len(buf) /\ buf' = buf /\ results' = results
          /\ eof => phase' = "closed" /\ readable' = readable
          /\ ~eof => readable' = FALSE /\ phase' = phase
      BY <1>14 DEF Decode
    <2>2. \A i \in 1..b : buf[i] # LF
      <3>1. SUFFICES ASSUME NEW i \in 1..b PROVE buf[i] # LF
        OBVIOUS
      <3>2. CASE i > next_index
        BY <1>6, <1>14, <3>2
      <3>3. CASE i <= next_index
        <4>1. i \in 1..next_index
          BY <1>3, <3>3
        <4> QED  BY <1>10, <4>1
      <3>4. i > next_index \/ i <= next_index
        BY <1>3
      <3> QED  BY <3>2, <3>3, <3>4
    <2> HIDE DEF lf, j
    <2>3. phase' = IF eof THEN "closed" ELSE "commands"
      BY <1>2, <2>1
    <2>4. Types' /\ InOrder'
      <3>1. readable' \in BOOLEAN /\ next_index' \in Nat /\ phase' \in {"commands", "closed"}
        BY <1>2, <1>4, <2>1, <2>3
      <3> QED  BY <1>1, <1>2, <2>1, <3>1 DEF Types, InOrder
    <2>5. Tracked'
      <3>1. phase' # "closed" => phase' = "commands"
        BY <2>3
      <3> QED  BY <1>2, <1>4, <1>8, <2>1, <3>1 DEF Tracked
    <2>6. InHeader' /\ Scanned'
      BY <1>4, <2>1, <2>2, <2>3 DEF InHeader, Scanned
    <2>7. AtTheEnd'
      <3>1. eof' => wire' = <<>> /\ open' = FALSE
        BY <1>1, <1>2 DEF AtTheEnd
      <3>2. ASSUME eof PROVE k = N
        <4>1. wire = <<>>
          BY <1>1, <3>2 DEF AtTheEnd
        <4> QED  BY <1>3, <1>4, <1>8, <1>9, <2>2, <4>1, NoLine
      <3> QED  BY <1>2, <1>4, <2>1, <3>1, <3>2 DEF AtTheEnd
    <2> QED  BY <1>12, <2>4, <2>5, <2>6, <2>7 DEF StreamInv
  <1> QED  BY <1>13, <1>14

\* read_proxy_header rejects what it has read.
LEMMA RejectsStream ==
  ASSUME StreamInv, phase = "header", NEW why, Rejects(why), HeaderExact'
  PROVE  StreamInv'
  <1>1. Types /\ InOrder /\ InHeader
    BY DEF StreamInv
  <1>2. /\ phase' = "closed" /\ header' = header /\ requests' = requests /\ open' = open
        /\ wire' = wire /\ rbuf' = rbuf /\ buf' = buf /\ readable' = readable /\ eof' = eof
        /\ next_index' = next_index /\ results' = results
    BY DEF Rejects, client, codec
  <1>3. Types' /\ InOrder'
    BY <1>1, <1>2 DEF Types, InOrder
  <1>4. eof' = FALSE
    BY <1>1, <1>2 DEF InHeader
  <1> QED  BY <1>2, <1>3, <1>4 DEF StreamInv, Tracked, InHeader, Scanned, AtTheEnd

\* The bytes that a peek adds to those of the header read before.
LEMMA MoreHeader ==
  ASSUME NEW h \in Text, NEW b \in Text, NEW w \in Text, NEW text, NEW n \in Nat, n \in 1..Len(w),
         NEW c \in Nat, c = Len(h), NEW k \in Nat, k = Len(b), k + n <= c,
         Agree(h, c, text, 0), Agree(b, k, h, 0), Agree(w, n, text, k)
  PROVE  /\ b \o SubSeq(w, 1, n) \in Text /\ Len(b \o SubSeq(w, 1, n)) = k + n
         /\ Agree(b \o SubSeq(w, 1, n), k + n, h, 0)
  <1> USE DEF Agree, NoLF
  <1>1. Len(w) \in Nat
    BY DEF Text
  <1>2. n \in Nat /\ n \in 0..Len(w) /\ k + n <= c
    BY <1>1
  <1> DEFINE x == SubSeq(w, 1, n)
  <1>3. x \in Text /\ Len(x) = n /\ \A i \in 1..n : x[i] = w[i]
    BY <1>2, Cut
  <1> HIDE DEF x
  <1>4. /\ b \o x \in Text /\ Len(b \o x) = k + n /\ \A i \in 1..k : (b \o x)[i] = b[i]
        /\ \A i \in 1..n : (b \o x)[k + i] = x[i]
    BY <1>3, Join
  <1>5. ASSUME NEW i \in 1..(k + n) PROVE (b \o x)[i] = h[i]
    <2>1. CASE i \in 1..k
      BY <1>4, <2>1
    <2>2. CASE i \notin 1..k
      <3>1. PICK j \in 1..n : i = k + j
        <4>1. i - k \in 1..n /\ i = k + (i - k)
          BY <1>2, <2>2
        <4> QED  BY <4>1
      <3>2. i \in 1..c
        BY <1>2
      <3>3. (b \o x)[i] = w[j]
        BY <3>1, <1>3, <1>4
      <3>4. w[j] = text[i]
        BY <3>1
      <3>5. text[i] = h[i]
        BY <3>2
      <3> QED  BY <3>3, <3>4, <3>5
    <2> QED  BY <2>1, <2>2
  <1>6. Agree(b \o x, k + n, h, 0)
    <2>1. \A i \in 1..(k + n) : 0 + i = i
      OBVIOUS
    <2> QED  BY <1>5, <2>1
  <1> QED  BY <1>4, <1>6 DEF x

\* A peek at the header.
LEMMA PeekStream ==
  ASSUME StreamInv, NEW n \in Nat, n \in 1..Len(wire), PeekHeader(n)
  PROVE  StreamInv'
  <1> DEFINE pbuf == SubSeq(wire, 1, n)
             pos == First(Newline(pbuf))
             last == Len(rbuf) + pos - 1
  <1>1. Types /\ InOrder /\ Tracked /\ InHeader
    BY DEF StreamInv
  <1>2. phase = "header"
    BY DEF PeekHeader
  <1>3. /\ header \in Text /\ requests \in Seq(Requests) /\ wire \in Text /\ rbuf \in Text
    BY <1>1 DEF Types
  <1>4. /\ IsLine(header) /\ Len(rbuf) < Len(header)
        /\ \A i \in 1..Len(rbuf) : rbuf[i] = header[i]
        /\ results = <<>> /\ buf = <<>> /\ next_index = 0
        /\ readable = FALSE /\ eof = FALSE /\ verdict = "none"
    BY <1>1, <1>2 DEF InHeader
  <1>5. PICK c \in Nat, p \in Nat, l \in Nat : c = Len(header) /\ p = Len(rbuf) /\ l = Len(wire)
    BY <1>3 DEF Text
  <1>6. n \in Nat /\ n \in 0..Len(wire) /\ 1 <= n /\ n <= l /\ p < c
    BY <1>4, <1>5
  <1>7. header[c] = LF /\ \A i \in 1..(c - 1) : header[i] # LF
    BY <1>4, <1>5, LineBytes
  <1>8. PICK text, e :
          text \in Text /\ Laid(header, requests, text, e) /\ At(text, p, <<>>, wire)
    BY <1>1, <1>2, <1>4, <1>5 DEF Tracked
  <1>9. (\A i \in 1..c : text[i] = header[i]) /\ e[0] = c
    BY <1>5, <1>8 DEF Laid
  <1>10. \A i \in 1..l : wire[i] = text[p + i]
    <2>1. Len(<<>>) = 0
      OBVIOUS
    <2>2. \A i \in 1..l : wire[i] = text[p + 0 + i]
      BY <1>5, <1>8, <2>1 DEF At
    <2>3. \A i \in 1..l : p + 0 + i = p + i
      OBVIOUS
    <2> QED  BY <2>2, <2>3
  <1>11. pbuf \in Text /\ Len(pbuf) = n /\ \A i \in 1..n : pbuf[i] = wire[i]
    BY <1>3, <1>6, Cut
  <1>12. DOMAIN pbuf = 1..n
    BY <1>11 DEF Text
  <1>13. \A i \in 1..n : i \in 1..l
    BY <1>6
  <1>14. \A i \in 1..n : pbuf[i] = text[p + i]
    BY <1>10, <1>11, <1>13
  <1>15. 0 <= p /\ p < 0 + c /\ \A i \in 1..c : text[0 + i] = header[i]
    <2>1. \A i \in 1..c : 0 + i = i
      OBVIOUS
    <2> QED  BY <1>6, <1>9, <2>1
  <1>16. CASE Newline(pbuf) # {}
    <2>1. Newline(pbuf) \subseteq 1..n /\ Newline(pbuf) \subseteq Nat
      BY <1>12 DEF Newline
    <2>2. pos \in 1..n /\ pbuf[pos] = LF /\ \A i \in Newline(pbuf) : pos <= i
      <3>1. pos \in Newline(pbuf) /\ \A i \in Newline(pbuf) : pos <= i
        BY <2>1, <1>16, FirstIsLeast
      <3> HIDE DEF pos, pbuf
      <3> QED  BY <2>1, <3>1 DEF Newline
    <2>3. PICK d \in Nat : d \in 1..n /\ d = pos
      <3>1. \A i \in 1..n : i \in Nat
        OBVIOUS
      <3> QED  BY <2>2, <3>1
    <2>4. \A i \in 1..(d - 1) : pbuf[i] # LF
      <3>1. SUFFICES ASSUME NEW i \in 1..(d - 1) PROVE pbuf[i] # LF
        OBVIOUS
      <3>2. i \in 1..n /\ ~(d <= i)
        BY <1>6, <2>3
      <3> HIDE DEF pos, pbuf
      <3> QED  BY <2>2, <2>3, <3>2, <1>12 DEF Newline
    <2>5. p + d = 0 + c
      <3> HIDE DEF pos, pbuf
      <3>1. pbuf[d] = LF
        BY <2>2, <2>3
      <3>2. PICK q \in Nat : q = 0
        OBVIOUS
      <3>3. /\ q <= p /\ p < q + c
            /\ \A i \in 1..c : text[q + i] = header[i]
        BY <1>15, <3>2
      <3>4. p + d = q + c
        <4>1. /\ Agree(header, c, text, q) /\ NoLF(header, c - 1)
              /\ Agree(pbuf, n, text, p) /\ NoLF(pbuf, d - 1)
          BY <1>7, <1>14, <2>4, <3>3 DEF Agree, NoLF
        <4>2. q <= p /\ p < q + c /\ header[c] = LF /\ d \in 1..n
          BY <1>7, <2>3, <3>3
        <4> QED  BY <3>1, <4>1, <4>2, EndOfLine
      <3> QED  BY <3>2, <3>4
    <2>6. d \in Nat /\ 1 <= d /\ d <= n /\ p + d = c /\ d \in 1..Len(wire)
      BY <1>5, <1>6, <2>3, <2>5
    <2>7. last = c - 1
      BY <1>5, <2>3, <2>6
    <2>8. \/ (last > Capacity \/ last < MinHeader) /\ Rejects("HeaderSize")
          \/ last = Capacity /\ Rejects("panic")
          \/ last \in MinHeader..(Capacity - 1) /\ HeaderRead(pos)
      BY <1>16 DEF PeekHeader
    <2> HIDE DEF last, pos, pbuf
    <2>9. CASE (last > Capacity \/ last < MinHeader) /\ Rejects("HeaderSize")
      <3>1. verdict' = "HeaderSize" /\ header' = header
        BY <2>9 DEF Rejects, client
      <3>2. ~(c - 1 \in MinHeader..(Capacity - 1))
        BY <2>7, <2>9, StreamAssumption
      <3>3. HeaderExact'
        BY <1>5, <3>1, <3>2 DEF HeaderExact
      <3> QED  BY <1>2, <2>9, <3>3, RejectsStream
    <2>10. CASE last = Capacity /\ Rejects("panic")
      <3>1. verdict' = "panic" /\ header' = header
        BY <2>10 DEF Rejects, client
      <3>2. ~(c - 1 \in MinHeader..(Capacity - 1)) /\ ~(c - 1 < MinHeader)
        BY <2>7, <2>10, StreamAssumption
      <3>3. HeaderExact'
        BY <1>5, <3>1, <3>2 DEF HeaderExact
      <3> QED  BY <1>2, <2>10, <3>3, RejectsStream
    <2>11. CASE last \in MinHeader..(Capacity - 1) /\ HeaderRead(pos)
      <3>1. /\ wire' = SubSeq(wire, d + 1, Len(wire))
            /\ rbuf' = rbuf \o SubSeq(wire, 1, d)
            /\ header' = header /\ requests' = requests /\ open' = open
            /\ buf' = buf /\ readable' = readable /\ eof' = eof
            /\ next_index' = next_index /\ results' = results
        BY <2>3, <2>11 DEF HeaderRead, client, codec
      <3>2. /\ rbuf' \in Text /\ Len(rbuf') = c
            /\ \A i \in 1..c : rbuf'[i] = header[i]
        <4>1. \A i \in 1..d : i \in 1..l
          BY <1>6, <2>6
        <4>2. \A i \in 1..d : wire[i] = text[p + i]
          BY <1>10, <4>1
        <4>3. p + d <= c
          BY <2>6
        <4>4. \A i \in 1..p : rbuf[i] = header[i]
          BY <1>4, <1>5
        <4>5. \A i \in 1..c : text[i] = header[i]
          BY <1>9
        <4>6. Agree(header, c, text, 0) /\ Agree(rbuf, p, header, 0) /\ Agree(wire, d, text, p)
          BY <4>2, <4>4, <4>5 DEF Agree
        <4>7. /\ rbuf \o SubSeq(wire, 1, d) \in Text
              /\ Len(rbuf \o SubSeq(wire, 1, d)) = p + d
              /\ Agree(rbuf \o SubSeq(wire, 1, d), p + d, header, 0)
          BY <1>3, <1>5, <2>6, <4>3, <4>6, MoreHeader
        <4>8. \A i \in 1..(p + d) : (rbuf \o SubSeq(wire, 1, d))[i] = header[i]
          BY <2>6, <1>6, <4>7 DEF Agree
        <4> QED  BY <3>1, <4>7, <4>8, <2>6
      <3>3. MinHeader <= c - 1 /\ c - 1 < Capacity /\ c - 1 \in 1..c
        BY <2>7, <2>11, StreamAssumption
      <3>4. \/ header[c - 1] = CR /\ Parsed
            \/ header[c - 1] # CR /\ verdict' = "CrlfError" /\ phase' = "closed"
        BY <2>11, <3>2, <3>3 DEF HeaderRead
      <3>5. /\ verdict' = "CrlfError" <=> header[c - 1] # CR
            /\ verdict' \notin {"HeaderSize", "NotProxyHdr", "panic"}
            /\ phase' \in {"commands", "closed"}
        BY <3>4 DEF Parsed
      <3>6. HeaderExact'
        <4>1. ~(c - 1 < MinHeader) /\ ~(c - 1 >= Capacity)
          BY <3>3, StreamAssumption
        <4> QED  BY <1>5, <3>1, <3>5, <4>1 DEF HeaderExact
      <3>7. wire' \in Text
        <4>1. d \in 0..Len(wire)
          BY <2>6
        <4> QED  BY <1>3, <3>1, <4>1, Cut
      <3>8. Types' /\ InOrder'
        BY <1>1, <3>1, <3>2, <3>5, <3>7 DEF Types, InOrder
      <3>9. Tracked'
        <4>1. At(text, p + d, <<>>, wire')
          BY <1>3, <1>8, <2>6, <3>1, AtSkip
        <4>2. e[Len(results')] = c
          BY <1>4, <1>9, <3>1
        <4>3. At(text, e[Len(results')], buf', wire')
          BY <1>4, <2>6, <3>1, <4>1, <4>2
        <4> QED  BY <1>8, <3>1, <3>5, <4>3 DEF Tracked
      <3>10. InHeader'
        BY <3>5 DEF InHeader
      <3>11. Scanned'
        <4>1. next_index' = 0 /\ buf' = <<>> /\ Len(<<>>) = 0 /\ \A i \in 1..0 : FALSE
          BY <1>4, <3>1
        <4> QED  BY <4>1 DEF Scanned
      <3>12. AtTheEnd'
        BY <1>4, <3>1 DEF AtTheEnd
      <3> QED  BY <3>6, <3>8, <3>9, <3>10, <3>11, <3>12 DEF StreamInv
    <2> QED  BY <2>8, <2>9, <2>10, <2>11
  <1>17. CASE Newline(pbuf) = {}
    <2>1. \A i \in 1..n : pbuf[i] # LF
      BY <1>12, <1>17 DEF Newline
    <2>2. p + n < 0 + c
      <3> HIDE DEF pbuf
      <3>1. /\ Agree(header, c, text, 0) /\ Agree(pbuf, n, text, p) /\ NoLF(pbuf, n)
        BY <1>14, <1>15, <2>1 DEF Agree, NoLF
      <3> QED  BY <1>6, <1>7, <1>15, <3>1, InsideLine
    <2>3. p + n < c
      BY <1>6, <2>2
    <2>4. CASE p + n > Capacity
      <3>1. Rejects("NotProxyHdr")
        BY <1>5, <1>17, <2>4 DEF PeekHeader
      <3>2. verdict' = "NotProxyHdr" /\ header' = header
        BY <3>1 DEF Rejects, client
      <3>3. ~(c - 1 \in MinHeader..(Capacity - 1)) /\ ~(c - 1 < MinHeader)
        BY <1>6, <2>3, <2>4, StreamAssumption
      <3>4. HeaderExact'
        BY <1>5, <3>2, <3>3 DEF HeaderExact
      <3> QED  BY <1>2, <3>1, <3>4, RejectsStream
    <2>5. CASE ~(p + n > Capacity)
      <3>1. /\ wire' = SubSeq(wire, n + 1, Len(wire))
            /\ rbuf' = rbuf \o SubSeq(wire, 1, n)
            /\ header' = header /\ requests' = requests /\ open' = open
            /\ phase' = phase /\ verdict' = verdict
            /\ buf' = buf /\ readable' = readable /\ eof' = eof
            /\ next_index' = next_index /\ results' = results
        BY <1>5, <1>17, <2>5 DEF PeekHeader, client, codec
      <3>2. /\ rbuf' \in Text /\ Len(rbuf') = p + n
            /\ \A i \in 1..(p + n) : rbuf'[i] = header[i]
        <4>1. \A i \in 1..n : wire[i] = text[p + i]
          BY <1>10, <1>13
        <4>2. p + n <= c
          BY <1>6, <2>3
        <4>3. \A i \in 1..p : rbuf[i] = header[i]
          BY <1>4, <1>5
        <4>4. \A i \in 1..c : text[i] = header[i]
          BY <1>9
        <4>5. Agree(header, c, text, 0) /\ Agree(rbuf, p, header, 0) /\ Agree(wire, n, text, p)
          BY <4>1, <4>3, <4>4 DEF Agree
        <4>6. /\ rbuf \o SubSeq(wire, 1, n) \in Text
              /\ Len(rbuf \o SubSeq(wire, 1, n)) = p + n
              /\ Agree(rbuf \o SubSeq(wire, 1, n), p + n, header, 0)
          BY <1>3, <1>5, <4>2, <4>5, MoreHeader
        <4>7. \A i \in 1..(p + n) : (rbuf \o SubSeq(wire, 1, n))[i] = header[i]
          BY <1>6, <4>6 DEF Agree
        <4> QED  BY <3>1, <4>6, <4>7
      <3>3. wire' \in Text
        BY <1>3, <1>6, <3>1, Cut
      <3>4. Types' /\ InOrder'
        BY <1>1, <3>1, <3>2, <3>3 DEF Types, InOrder
      <3>5. Tracked'
        <4>1. At(text, p + n, <<>>, wire')
          BY <1>3, <1>8, <3>1, AtSkip
        <4>2. At(text, Len(rbuf'), buf', wire')
          BY <1>4, <3>1, <3>2, <4>1
        <4> QED  BY <1>2, <1>8, <3>1, <4>2 DEF Tracked
      <3>6. InHeader'
        BY <1>4, <1>5, <2>3, <3>1, <3>2 DEF InHeader
      <3>7. Scanned' /\ AtTheEnd' /\ HeaderExact'
        BY <1>2, <1>4, <3>1 DEF Scanned, AtTheEnd, HeaderExact
      <3> QED  BY <3>4, <3>5, <3>6, <3>7 DEF StreamInv
    <2> QED  BY <2>4, <2>5
  <1> QED  BY <1>16, <1>17

-----------------------------------------------------------------------------
(* What holds of every state.                                              *)

\* The invariant is inductive.
LEMMA NextStream == StreamInv /\ [Next]_vars => StreamInv'
  <1> SUFFICES ASSUME StreamInv, [Next]_vars PROVE StreamInv'
    OBVIOUS
  <1>1. CASE \E r \in Requests : Request(r)
    BY <1>1, RequestStream
  <1>2. CASE Close
    BY <1>2, CloseStream
  <1>3. CASE Peek
    <2>1. PICK n \in 1..Len(wire) : PeekHeader(n)
      BY <1>3 DEF Peek
    <2>2. n \in Nat
      OBVIOUS
    <2> QED  BY <2>1, <2>2, PeekStream
  <1>4. CASE ReadSome
    BY <1>4, ReadStream DEF ReadSome
  <1>5. CASE ReadEof
    BY <1>5, ReadEofStream
  <1>6. CASE Decode
    BY <1>6, DecodeStream
  <1>7. CASE UNCHANGED vars
    <2>1. /\ header' = header /\ requests' = requests /\ open' = open /\ wire' = wire
          /\ phase' = phase /\ rbuf' = rbuf /\ verdict' = verdict
          /\ buf' = buf /\ readable' = readable /\ eof' = eof
          /\ next_index' = next_index /\ results' = results
      BY <1>7 DEF vars
    <2>2. Types' /\ InOrder' /\ Tracked'
      BY <2>1 DEF StreamInv, Types, InOrder, Tracked
    <2>3. InHeader' /\ Scanned' /\ AtTheEnd' /\ HeaderExact'
      BY <2>1 DEF StreamInv, InHeader, Scanned, AtTheEnd, HeaderExact
    <2> QED  BY <2>2, <2>3 DEF StreamInv
  <1> QED  BY <1>1, <1>2, <1>3, <1>4, <1>5, <1>6, <1>7 DEF Next, Server

\* And so it holds.
LEMMA StreamInvariant == Spec => []StreamInv
  BY InitStream, NextStream, PTL DEF Spec

(***************************************************************************)
(* read_proxy_header's verdict does not depend on the chunks that the      *)
(* header comes in.                                                        *)
(***************************************************************************)
THEOREM HeadersAreExact == Spec => []HeaderExact
  <1>1. StreamInv => HeaderExact
    BY DEF StreamInv
  <1> QED  BY <1>1, StreamInvariant, PTL

(***************************************************************************)
(* The n-th result of FtpCodec is what the parser makes of the n-th line   *)
(* that the client sent, whole and alone.                                  *)
(***************************************************************************)
THEOREM LinesInOrder == Spec => []InOrder
  <1>1. StreamInv => InOrder
    BY DEF StreamInv
  <1> QED  BY <1>1, StreamInvariant, PTL

(***************************************************************************)
(* Where the parser finds in each line, taken alone, the request that the  *)
(* client encoded, the control loop is given what the client asked for.    *)
(***************************************************************************)
THEOREM RequestsAreDelivered ==
  ASSUME ParserExact
  PROVE  Spec => []Delivered
  <1>1. StreamInv => Delivered
    <2> SUFFICES ASSUME StreamInv, NEW n \in DOMAIN results
                 PROVE  n \in DOMAIN requests /\ results[n] = Expected(requests[n])
      BY DEF Delivered
    <2>1. requests \in Seq(Requests) /\ results \in Seq(Results)
      BY DEF StreamInv, Types
    <2>2. PICK N \in Nat, k \in Nat : N = Len(requests) /\ k = Len(results)
      BY <2>1
    <2>3. DOMAIN requests = 1..N /\ DOMAIN results = 1..k
      BY <2>1, <2>2
    <2>4. k <= N /\ \A x \in 1..k : results[x] = parse(Line(requests[x]))
      BY <2>2 DEF StreamInv, InOrder
    <2>5. n \in 1..N /\ n \in 1..k
      BY <2>3, <2>4
    <2>6. requests[n] \in Requests
      BY <2>1, <2>2, <2>5
    <2> QED  BY <2>3, <2>4, <2>5, <2>6 DEF ParserExact
  <1> QED  BY <1>1, StreamInvariant, PTL

(***************************************************************************)
(* A control loop that waits for bytes, or that the end of the stream has  *)
(* ended, has decoded every line.                                          *)
(***************************************************************************)
THEOREM NoLineIsLeft == Spec => []NoLineWaits
  <1>1. StreamInv => NoLineWaits
    <2> SUFFICES ASSUME StreamInv PROVE NoLineWaits
      OBVIOUS
    <2>1. Types /\ InOrder /\ Tracked /\ Scanned /\ AtTheEnd
      BY DEF StreamInv
    <2>2. /\ header \in Text /\ requests \in Seq(Requests) /\ buf \in Text
          /\ results \in Seq(Results) /\ readable \in BOOLEAN
      BY <2>1 DEF Types
    <2>3. PICK N \in Nat, k \in Nat : N = Len(requests) /\ k = Len(results)
      BY <2>2
    <2>4. ASSUME phase = "commands", ~readable, wire = <<>> PROVE k = N
      <3>1. PICK text, e :
              text \in Text /\ Laid(header, requests, text, e) /\ At(text, e[k], buf, <<>>)
        BY <2>1, <2>3, <2>4 DEF Tracked
      <3>2. \A i \in 1..Len(buf) : buf[i] # LF
        BY <2>1, <2>2, <2>4 DEF Scanned
      <3>3. k \in 0..Len(requests)
        BY <2>1, <2>3 DEF InOrder
      <3> QED  BY <2>2, <2>3, <3>1, <3>2, <3>3, NoLine
    <2>5. DOMAIN results = 1..Len(results)
      BY <2>2
    <2>6. (phase = "closed" /\ eof /\ \A n \in DOMAIN results : results[n].cmd # "error")
            => Len(results) = Len(requests)
      BY <2>1, <2>5 DEF AtTheEnd
    <2> QED  BY <2>3, <2>4, <2>6 DEF NoLineWaits
  <1> QED  BY <1>1, StreamInvariant, PTL
=============================================================================

-------------------------- MODULE LineReaderProofs --------------------------
(***************************************************************************)
(* For every size of the buffer, and any number of connections and         *)
(* characters: recv_line loses and invents nothing, and lines that fit     *)
(* arrive whole.                                                           *)
(***************************************************************************)
EXTENDS LineReader, FiniteSetTheorems, TLAPS

(* The part of the present line that was read is in the buffer. *)
CurrentLine ==
    \A k \in 0 .. pos - 1 : buf[k] \in Chars /\ buf[k] = stream[start + k + 1]

(* Where the present line begins. *)
AtLineStart == start = 0 \/ stream[start] = Newline

(* A line that was cut off is the last one; until then each return leaves  *)
(* the reader at the beginning of a line, if the lines fit.                *)
Position ==
    /\ pc = "recv" => \/ Fits => AtLineStart
                      \/ end # "open" /\ ~More /\ pos = 0
    /\ pc = "idle" => pos = 0

Inv == TypeOK /\ CurrentLine /\ LinesTile /\ LineAsSent /\ StaleBytes /\ Position
         /\ WholeLines
-----------------------------------------------------------------------------
(* What CString returns. *)
LEMMA CStringType ==
    ASSUME NEW b \in [0 .. Limit -> Byte]
    PROVE  /\ StrLen(b) \in 0 .. Limit + 1
           /\ CString(b) \in Seq(Byte) /\ Len(CString(b)) = StrLen(b)
           /\ \A k \in 1 .. StrLen(b) : CString(b)[k] = b[k - 1]
<1> DEFINE S == {m \in 0 .. Limit : \A i \in 0 .. m : b[i] # Nul}
<1>1. Limit \in Nat
  BY LineAssumption
<1>2. IsFiniteSet(S) /\ Cardinality(S) \in Nat /\ Cardinality(S) <= Limit + 1
  <2>1. S \in SUBSET Nat /\ \A s \in S : s <= Limit
    BY <1>1
  <2>2. IsFiniteSet(S) /\ Cardinality(S) <= Limit + 1
    BY <1>1, <2>1, FS_BoundedSetOfNaturals
  <2>3. QED
    BY <2>2, FS_CardinalityType
<1>3. StrLen(b) \in 0 .. Limit + 1
  BY <1>1, <1>2 DEF StrLen
<1>4. QED
  BY <1>1, <1>3 DEF CString

(* The characters before the first NUL are seen, and no more. *)
LEMMA CStringPrefix ==
    ASSUME NEW b \in [0 .. Limit -> Byte], NEW n \in 0 .. Limit,
           \A k \in 0 .. n - 1 : b[k] # Nul
    PROVE  StrLen(b) >= n /\ (b[n] = Nul => StrLen(b) = n)
<1> DEFINE S == {m \in 0 .. Limit : \A i \in 0 .. m : b[i] # Nul}
<1>1. Limit \in Nat
  BY LineAssumption
<1>2. IsFiniteSet(S) /\ Cardinality(S) \in Nat
  <2>1. S \in SUBSET Nat /\ \A s \in S : s <= Limit
    BY <1>1
  <2>2. QED
    BY <1>1, <2>1, FS_BoundedSetOfNaturals, FS_CardinalityType
<1>3. Cardinality(0 .. n - 1) = n
  BY <1>1, FS_Interval
<1>4. 0 .. n - 1 \in SUBSET S
  BY <1>1
<1>5. Cardinality(0 .. n - 1) <= Cardinality(S)
  BY <1>2, <1>4, FS_Subset
<1>6. b[n] = Nul => S = 0 .. n - 1
  BY <1>1, <1>4
<1> HIDE DEF S
<1>7. StrLen(b) = Cardinality(S)
  BY DEF StrLen, S
<1>8. QED
  BY <1>1, <1>2, <1>3, <1>5, <1>6, <1>7
-----------------------------------------------------------------------------
LEMMA InvInit == Init => Inv
<1> SUFFICES ASSUME Init PROVE Inv
  OBVIOUS
<1>1. TypeOK
  BY LineAssumption DEF Init, TypeOK, Byte
<1>2. CurrentLine /\ LinesTile /\ LineAsSent /\ StaleBytes /\ Position /\ WholeLines
  BY LineAssumption DEF Init, CurrentLine, LinesTile, LineAsSent, StaleBytes, Position,
     WholeLines
<1>3. QED
  BY <1>1, <1>2 DEF Inv

(* What was sent stays as it was when the peer sends more. *)
LEMMA AsSentStays ==
    ASSUME NEW l \in Line, AsSent(l), Len(stream) \in Nat, Len(stream') = Len(stream) + 1,
           \A i \in 1 .. Len(stream) : stream'[i] = stream[i]
    PROVE  AsSent(l)'
<1>1. l.first \in Nat \ {0} /\ l.len \in 1 .. Limit /\ Limit \in Nat
  BY LineAssumption DEF Line
<1>2. After(l) \in Nat /\ After(l) >= l.first + l.len
  BY <1>1 DEF After
<1>3. ASSUME NEW k \in 1 .. l.len
      PROVE  l.text[k] = stream'[l.first + k - 1] /\ l.text[k] \in Chars
  <2>1. l.text[k] = stream[l.first + k - 1] /\ l.text[k] \in Chars
        /\ After(l) <= Len(stream) + 1
    BY DEF AsSent
  <2>2. l.first + k - 1 \in 1 .. Len(stream)
    BY <1>1, <1>2, <2>1
  <2>3. QED
    BY <2>1, <2>2
<1>4. ASSUME l.kind = "newline"
      PROVE  stream'[l.first + l.len] = Newline
  <2>1. stream[l.first + l.len] = Newline /\ After(l) <= Len(stream) + 1
    BY <1>4 DEF AsSent
  <2>2. l.first + l.len \in 1 .. Len(stream)
    BY <1>1, <1>4, <2>1 DEF After
  <2>3. QED
    BY <2>1, <2>2
<1>5. QED
  BY <1>1, <1>2, <1>3, <1>4 DEF AsSent, After

LEMMA FitsStays ==
    ASSUME Len(stream) \in Nat, Len(stream') = Len(stream) + 1, Fits',
           \A i \in 1 .. Len(stream) : stream'[i] = stream[i]
    PROVE  Fits
<1> SUFFICES ASSUME NEW i \in 1 .. Len(stream) - Limit + 1
             PROVE  \E j \in i .. i + Limit - 1 : stream[j] = Newline
  BY DEF Fits
<1>1. Limit \in Nat \ {0}
  BY LineAssumption
<1>2. i \in 1 .. Len(stream') - Limit + 1
  BY <1>1
<1>3. PICK j \in i .. i + Limit - 1 : stream'[j] = Newline
  BY <1>2 DEF Fits
<1>4. j \in 1 .. Len(stream)
  BY <1>1
<1>5. QED
  BY <1>3, <1>4

LEMMA PeerSendInv ==
    ASSUME Inv, NEW ch \in Chars \cup {Newline}, PeerSend(ch)
    PROVE  Inv'
<1>1. TypeOK'
  BY LineAssumption DEF Inv, PeerSend, TypeOK
<1>2. /\ Len(stream') = Len(stream) + 1
      /\ \A i \in 1 .. Len(stream) : stream'[i] = stream[i]
  BY DEF Inv, TypeOK, PeerSend
<1>3. CurrentLine'
  BY <1>2 DEF Inv, TypeOK, CurrentLine, PeerSend
<1>4. LinesTile'
  BY DEF Inv, LinesTile, PeerSend, After
<1>5. LineAsSent'
  <2> SUFFICES ASSUME NEW i \in DOMAIN lines
               PROVE  AsSent(lines[i])'
    BY DEF LineAsSent, PeerSend
  <2>1. AsSent(lines[i]) /\ lines[i] \in Line
    BY DEF Inv, TypeOK, LineAsSent
  <2>2. QED
    <3>1. Len(stream) \in Nat
      BY DEF Inv, TypeOK
    <3>2. \A l \in Line : AsSent(l) => AsSent(l)'
      BY <1>2, <3>1, AsSentStays
    <3>3. lines' = lines
      BY DEF PeerSend
    <3>4. QED
      BY <2>1, <3>2, <3>3 DEF AsSent, After
<1>6. StaleBytes'
  BY DEF Inv, StaleBytes, PeerSend
<1>7. Fits' => Fits
  <2>1. Len(stream) \in Nat
    BY DEF Inv, TypeOK
  <2>2. QED
    BY <1>2, <2>1, FitsStays
<1>8. Position'
  <2>1. AtLineStart => AtLineStart'
    BY <1>2 DEF Inv, TypeOK, AtLineStart, PeerSend
  <2>2. QED
    BY <1>7, <2>1 DEF Inv, Position, PeerSend
<1>9. WholeLines'
  <2> SUFFICES ASSUME Fits', NEW i \in DOMAIN lines
               PROVE  lines[i].kind # "full" /\ (lines[i].first = 1
                        \/ stream'[lines[i].first - 1] = Newline)
    BY DEF WholeLines, PeerSend
  <2>1. lines[i].kind # "full" /\ (lines[i].first = 1 \/ stream[lines[i].first - 1] = Newline)
    BY <1>7 DEF Inv, WholeLines
  <2>2. lines[i] \in Line /\ After(lines[i]) <= Len(stream) + 1
    BY DEF Inv, TypeOK, LineAsSent, AsSent
  <2>3. /\ lines[i].first \in Nat \ {0} /\ lines[i].len \in 1 .. Limit
        /\ Len(stream) \in Nat /\ Limit \in Nat
    BY <2>2, LineAssumption DEF Inv, TypeOK, Line
  <2>4. lines[i].first - 1 <= Len(stream)
    BY <2>2, <2>3 DEF After
  <2>5. QED
    BY <1>2, <2>1, <2>3, <2>4
<1>10. QED
  BY <1>1, <1>3, <1>4, <1>5, <1>6, <1>8, <1>9 DEF Inv

LEMMA PeerEndInv == Inv /\ PeerEnd => Inv'
<1> SUFFICES ASSUME Inv, PeerEnd PROVE Inv'
  OBVIOUS
<1>1. TypeOK' /\ CurrentLine' /\ LinesTile' /\ StaleBytes'
  BY DEF Inv, PeerEnd, TypeOK, CurrentLine, LinesTile, StaleBytes
<1>2. LineAsSent' /\ WholeLines' /\ Position'
  BY DEF Inv, PeerEnd, LineAsSent, AsSent, WholeLines, Position, Fits, AtLineStart, More
<1>3. QED
  BY <1>1, <1>2 DEF Inv

LEMMA TakeInv == Inv /\ Take => Inv'
<1> SUFFICES ASSUME Inv, Take PROVE Inv'
  OBVIOUS
<1>1. TypeOK'
  BY LineAssumption DEF Inv, TypeOK, Take
<1>2. CurrentLine' /\ LinesTile' /\ LineAsSent' /\ Position' /\ WholeLines'
  BY DEF Take, CurrentLine, LinesTile, LineAsSent, Position, AtLineStart, WholeLines
<1>3. StaleBytes'
  <2> SUFFICES ASSUME NEW i \in 0 .. Limit
               PROVE  \/ buf[i] \in {Nul, Junk}
                      \/ \E t \in past : i < Len(t) /\ buf[i] = t[i + 1]
    BY DEF StaleBytes, Take
  <2>1. pos = 0
    BY DEF Inv, Position, Take
  <2>2. QED
    BY <2>1 DEF Inv, StaleBytes
<1>4. QED
  BY <1>1, <1>2, <1>3 DEF Inv

LEMMA ReadCharInv == Inv /\ ReadChar => Inv'
<1> SUFFICES ASSUME Inv, ReadChar PROVE Inv'
  OBVIOUS
<1> USE DEF ReadChar, Reading, More, NextChar, Store, peerVars
<1>1. /\ Limit \in Nat \ {0} /\ pos \in 0 .. Limit - 1 /\ start \in Nat
      /\ Len(stream) \in Nat /\ buf \in [0 .. Limit -> Byte]
      /\ start + pos + 1 \in 1 .. Len(stream)
  BY LineAssumption DEF Inv, TypeOK
<1>2. stream[start + pos + 1] \in Chars
  BY <1>1 DEF Inv, TypeOK
<1>3. buf' \in [0 .. Limit -> Byte]
  BY <1>1, <1>2 DEF Byte
<1>4. TypeOK'
  BY <1>1, <1>3 DEF Inv, TypeOK
<1>5. CurrentLine'
  BY <1>1, <1>2 DEF Inv, CurrentLine
<1>6. LinesTile' /\ LineAsSent' /\ WholeLines'
  BY DEF Inv, LinesTile, LineAsSent, AsSent, WholeLines, Fits
<1>7. StaleBytes'
  BY <1>1 DEF Inv, StaleBytes
<1>8. Position'
  BY <1>1 DEF Inv, Position, AtLineStart, Fits
<1>9. QED
  BY <1>4, <1>5, <1>6, <1>7, <1>8 DEF Inv

(* The line that recv_line returns next. *)
NewLine(kind, b) == [first |-> start + 1, len |-> pos, kind |-> kind, text |-> CString(b)]

(* What all ways to return have in common.  b is the buffer, with a NUL    *)
(* behind the line or as it was.                                           *)
LEMMA ReturnInv ==
    ASSUME Inv, pc = "recv", NEW kind \in {"newline", "full", "end"},
           NEW b \in [0 .. Limit -> Byte], NEW next \in Nat,
           \A k \in 0 .. pos - 1 : b[k] = buf[k],
           \A k \in pos .. Limit : b[k] = buf[k] \/ b[k] = Nul,
           next = start + pos + (IF kind = "newline" THEN 1 ELSE 0),
           next <= Len(stream),
           kind # "end" => b[pos] = Nul,
           kind = "newline" => stream[start + pos + 1] = Newline,
           Fits => kind # "full" /\ (pos = 0 \/ AtLineStart),
           kind = "end" => end # "open" /\ ~More,
           Return(kind, b, next)
    PROVE  Inv'
<1> DEFINE l == NewLine(kind, b)
<1>1. /\ Limit \in Nat \ {0} /\ pos \in 0 .. Limit /\ start \in Nat
      /\ Len(stream) \in Nat /\ stream \in Seq(Chars \cup {Newline})
  BY LineAssumption DEF Inv, TypeOK
<1>2. /\ StrLen(b) \in 0 .. Limit + 1
      /\ CString(b) \in Seq(Byte) /\ Len(CString(b)) = StrLen(b)
      /\ \A k \in 1 .. StrLen(b) : CString(b)[k] = b[k - 1]
  BY CStringType
<1>3. \A k \in 0 .. pos - 1 : b[k] \in Chars /\ b[k] = stream[start + k + 1]
  BY <1>1 DEF Inv, CurrentLine
<1>4. StrLen(b) >= pos /\ (b[pos] = Nul => StrLen(b) = pos)
  <2>1. \A k \in 0 .. pos - 1 : b[k] # Nul
    BY <1>3, LineAssumption
  <2>2. QED
    BY <1>1, <2>1, CStringPrefix
<1>5. /\ stream' = stream /\ end' = end /\ conns' = conns
      /\ buf' = b /\ start' = next /\ pos' = 0
  BY DEF Return, peerVars
<1>6. CASE pos = 0
  <2>1. lines' = lines /\ past' = past /\ pc' = "idle"
    BY <1>6 DEF Return
  <2>2. TypeOK'
    BY <1>1, <1>5, <2>1 DEF Inv, TypeOK
  <2>3. CurrentLine' /\ LinesTile' /\ LineAsSent' /\ WholeLines' /\ Position'
    BY <1>5, <2>1 DEF Inv, CurrentLine, LinesTile, LineAsSent, AsSent, WholeLines, Fits,
       Position
  <2>4. StaleBytes'
    BY <1>1, <1>5, <1>6, <2>1 DEF Inv, StaleBytes
  <2>5. QED
    BY <2>2, <2>3, <2>4 DEF Inv
<1>7. CASE pos # 0
  <2>1. /\ lines' = Append(lines, l) /\ past' = past \cup {CString(b)}
        /\ pc' \in {"idle", "recv"}
    BY <1>7 DEF Return, NewLine
  <2>2. l \in Line
    BY <1>1, <1>2, <1>7 DEF Line, NewLine
  <2>3. TypeOK'
    BY <1>1, <1>2, <1>5, <2>1, <2>2 DEF Inv, TypeOK
  <2>4. /\ l.first = start + 1 /\ l.len = pos /\ l.kind = kind /\ l.text = CString(b)
        /\ After(l) = next + 1
    BY <1>1 DEF NewLine, After
  <2> HIDE DEF l
  <2>5. AsSent(l)
    <3>1. ASSUME NEW k \in 1 .. pos
          PROVE  CString(b)[k] = stream[start + 1 + k - 1] /\ CString(b)[k] \in Chars
      <4>1. k \in 1 .. StrLen(b) /\ k - 1 \in 0 .. pos - 1
        BY <1>1, <1>2, <1>4
      <4>2. CString(b)[k] = b[k - 1]
        BY <1>2, <4>1
      <4>3. b[k - 1] \in Chars /\ b[k - 1] = stream[start + (k - 1) + 1]
        BY <1>3, <4>1
      <4>4. start + (k - 1) + 1 = start + 1 + k - 1
        BY <1>1, <4>1
      <4>5. QED
        BY <4>2, <4>3, <4>4
    <3>2. start + 1 + pos = start + pos + 1
      BY <1>1
    <3>3. QED
      BY <1>1, <1>2, <1>4, <2>4, <3>1, <3>2 DEF AsSent
  <2>6. /\ lines \in Seq(Line) /\ Len(lines') = Len(lines) + 1
        /\ \A i \in DOMAIN lines : lines'[i] = lines[i]
        /\ lines'[Len(lines) + 1] = l
        /\ DOMAIN lines' = 1 .. Len(lines) + 1 /\ DOMAIN lines = 1 .. Len(lines)
        /\ Len(lines) \in Nat
    BY <2>1, <2>2 DEF Inv, TypeOK
  <2>7. LineAsSent'
    <3> SUFFICES ASSUME NEW i \in DOMAIN lines' PROVE AsSent(lines'[i])
      BY <1>5 DEF LineAsSent, AsSent
    <3>1. CASE i \in DOMAIN lines
      BY <2>6, <3>1 DEF Inv, LineAsSent
    <3>2. CASE i = Len(lines) + 1
      BY <2>5, <2>6, <3>2
    <3>3. QED
      BY <2>6, <3>1, <3>2
  <2>8. LinesTile'
    <3>1. start + 1 = IF lines = << >> THEN 1 ELSE After(lines[Len(lines)])
      BY DEF Inv, LinesTile
    <3>2. ASSUME NEW i \in DOMAIN lines'
          PROVE  lines'[i].first = IF i = 1 THEN 1 ELSE After(lines'[i - 1])
      <4>1. CASE i \in DOMAIN lines
        <5>1. i = 1 \/ i - 1 \in DOMAIN lines
          BY <2>6, <4>1
        <5>2. QED
          BY <2>6, <4>1, <5>1 DEF Inv, LinesTile
      <4>2. CASE i = Len(lines) + 1
        <5>1. CASE lines = << >>
          BY <2>4, <2>6, <3>1, <4>2, <5>1
        <5>2. CASE lines # << >>
          <6>1. Len(lines) \in DOMAIN lines /\ i # 1 /\ i - 1 = Len(lines)
            BY <2>6, <4>2, <5>2
          <6>2. QED
            BY <2>4, <2>6, <3>1, <4>2, <5>2, <6>1
        <5>3. QED
          BY <5>1, <5>2
      <4>3. QED
        BY <2>6, <4>1, <4>2
    <3>3. lines' # << >> /\ start' + 1 = After(lines'[Len(lines')])
      BY <1>5, <2>4, <2>6
    <3>4. QED
      BY <3>2, <3>3 DEF LinesTile, After
  <2>9. WholeLines'
    <3> SUFFICES ASSUME Fits, NEW i \in DOMAIN lines'
                 PROVE  /\ lines'[i].kind # "full"
                        /\ lines'[i].first = 1 \/ stream[lines'[i].first - 1] = Newline
      BY <1>5 DEF WholeLines, Fits
    <3>1. CASE i \in DOMAIN lines
      BY <2>6, <3>1 DEF Inv, WholeLines
    <3>2. CASE i = Len(lines) + 1
      <4>1. AtLineStart /\ kind # "full"
        BY <1>7
      <4>2. start + 1 - 1 = start
        BY <1>1
      <4>3. QED
        BY <1>1, <2>4, <2>6, <3>2, <4>1, <4>2 DEF AtLineStart
    <3>3. QED
      BY <2>6, <3>1, <3>2
  <2>10. CurrentLine'
    BY <1>5 DEF CurrentLine
  <2>11. StaleBytes'
    <3> SUFFICES ASSUME NEW i \in 0 .. Limit
                 PROVE  \/ b[i] \in {Nul, Junk}
                        \/ \E t \in past' : i < Len(t) /\ b[i] = t[i + 1]
      BY <1>5 DEF StaleBytes
    <3>1. CASE i < pos
      <4>1. i + 1 \in 1 .. StrLen(b) /\ i + 1 - 1 = i
        BY <1>1, <1>2, <1>4, <3>1
      <4>2. CString(b)[i + 1] = b[i] /\ i < Len(CString(b))
        BY <1>2, <4>1
      <4>3. QED
        BY <2>1, <4>2
    <3>2. CASE ~(i < pos)
      <4>1. i \in pos .. Limit
        BY <1>1, <3>2
      <4>2. QED
        BY <2>1, <4>1 DEF Inv, StaleBytes
    <3>3. QED
      BY <3>1, <3>2
  <2>12. Position'
    <3>1. CASE kind = "newline"
      BY <1>1, <1>5, <3>1 DEF Position, AtLineStart
    <3>2. CASE kind = "full"
      BY <1>5, <3>2 DEF Position, Fits
    <3>3. CASE kind = "end"
      BY <1>1, <1>5, <3>3 DEF Position, More
    <3>4. QED
      BY <3>1, <3>2, <3>3
  <2>13. QED
    BY <2>3, <2>7, <2>8, <2>9, <2>10, <2>11, <2>12 DEF Inv
<1>8. QED
  BY <1>6, <1>7

LEMMA ReadNewlineInv == Inv /\ ReadNewline => Inv'
<1> SUFFICES ASSUME Inv, ReadNewline PROVE Inv'
  OBVIOUS
<1> USE DEF ReadNewline, Reading, More, NextChar
<1> DEFINE b == [buf EXCEPT ![pos] = Nul]
<1>1. /\ Limit \in Nat \ {0} /\ pos \in 0 .. Limit - 1 /\ start \in Nat
      /\ Len(stream) \in Nat /\ buf \in [0 .. Limit -> Byte]
      /\ start + pos + 1 <= Len(stream)
  BY LineAssumption DEF Inv, TypeOK
<1>2. /\ b \in [0 .. Limit -> Byte] /\ b[pos] = Nul
      /\ \A k \in 0 .. Limit : k # pos => b[k] = buf[k]
  BY <1>1 DEF Byte
<1>3. Fits => AtLineStart
  BY DEF Inv, Position
<1> HIDE DEF b
<1>4. Return("newline", b, start + pos + 1) /\ stream[start + pos + 1] = Newline
      /\ pc = "recv"
  BY DEF b
<1>5. /\ \A k \in 0 .. pos - 1 : b[k] = buf[k]
      /\ \A k \in pos .. Limit : b[k] = buf[k] \/ b[k] = Nul
      /\ start + pos + 1 \in Nat
  BY <1>1, <1>2
<1>6. QED
  BY <1>1, <1>2, <1>3, <1>4, <1>5, ReturnInv

(* A full buffer means that the peer's line does not fit. *)
LEMMA ReadFullInv == Inv /\ ReadFull => Inv'
<1> SUFFICES ASSUME Inv, ReadFull PROVE Inv'
  OBVIOUS
<1> DEFINE b == [buf EXCEPT ![pos] = Nul]
<1>1. /\ Limit \in Nat \ {0} /\ pos = Limit /\ start \in Nat /\ pc = "recv"
      /\ Len(stream) \in Nat /\ buf \in [0 .. Limit -> Byte]
      /\ start + pos <= Len(stream)
  BY LineAssumption DEF Inv, TypeOK, ReadFull
<1>2. /\ b \in [0 .. Limit -> Byte] /\ b[pos] = Nul
      /\ \A k \in 0 .. Limit : k # pos => b[k] = buf[k]
  BY <1>1 DEF Byte
<1>3. ~Fits
  <2> SUFFICES ASSUME Fits PROVE FALSE
    OBVIOUS
  <2>1. start + 1 \in 1 .. Len(stream) - Limit + 1
    BY <1>1
  <2>2. PICK j \in start + 1 .. start + 1 + Limit - 1 : stream[j] = Newline
    BY <2>1 DEF Fits
  <2>3. j - start - 1 \in 0 .. pos - 1 /\ start + (j - start - 1) + 1 = j
    BY <1>1
  <2>4. buf[j - start - 1] \in Chars /\ buf[j - start - 1] = stream[j]
    BY <2>3 DEF Inv, CurrentLine
  <2>5. QED
    BY <2>2, <2>4, LineAssumption
<1> HIDE DEF b
<1>4. Return("full", b, start + pos)
  BY DEF ReadFull, b
<1>5. /\ \A k \in 0 .. pos - 1 : b[k] = buf[k]
      /\ \A k \in pos .. Limit : b[k] = buf[k] \/ b[k] = Nul
      /\ start + pos \in Nat /\ start + pos = start + pos + 0
  BY <1>1, <1>2
<1>6. QED
  BY <1>1, <1>2, <1>3, <1>4, <1>5, ReturnInv

LEMMA ReadEndInv == Inv /\ ReadEnd => Inv'
<1> SUFFICES ASSUME Inv, ReadEnd PROVE Inv'
  OBVIOUS
<1>1. /\ pos \in Nat /\ start \in Nat /\ pc = "recv" /\ buf \in [0 .. Limit -> Byte]
      /\ start + pos <= Len(stream) /\ end # "open" /\ ~More
  BY LineAssumption DEF Inv, TypeOK, ReadEnd, Reading
<1>2. Fits => pos = 0 \/ AtLineStart
  BY <1>1 DEF Inv, Position
<1>3. Return("end", buf, start + pos)
  BY DEF ReadEnd
<1>4. start + pos \in Nat /\ start + pos = start + pos + 0
  BY <1>1
<1>5. QED
  BY <1>1, <1>2, <1>3, <1>4, ReturnInv

LEMMA InvNext == Inv /\ [Next]_vars => Inv'
<1> SUFFICES ASSUME Inv, [Next]_vars PROVE Inv'
  OBVIOUS
<1>1. ASSUME NEW ch \in Chars \cup {Newline}, PeerSend(ch) PROVE Inv'
  BY <1>1, PeerSendInv
<1>2. CASE UNCHANGED vars
  BY <1>2 DEF vars, peerVars, Inv, TypeOK, CurrentLine, LinesTile, LineAsSent, AsSent,
     StaleBytes, Position, AtLineStart, More, WholeLines, Fits
<1>3. QED
  BY <1>1, <1>2, PeerEndInv, TakeInv, ReadCharInv, ReadNewlineInv, ReadFullInv, ReadEndInv
     DEF Next, ThreadNext

LEMMA Invariance == Spec => []Inv
BY InvInit, InvNext, PTL DEF Spec
-----------------------------------------------------------------------------
(* recv_line stays within its buffer, whatever the peer sends. *)
THEOREM BufferSafe == Spec => []TypeOK
<1>1. Inv => TypeOK
  BY DEF Inv
<1>2. QED
  BY <1>1, Invariance, PTL

(* The lines it returns lie side by side in the stream. *)
THEOREM NothingLost == Spec => []LinesTile
<1>1. Inv => LinesTile
  BY DEF Inv
<1>2. QED
  BY <1>1, Invariance, PTL

(* The parser sees what the peer sent. *)
THEOREM SeenAsSent == Spec => []LineAsSent
<1>1. Inv => LineAsSent
  BY DEF Inv
<1>2. QED
  BY <1>1, Invariance, PTL

(* Lines that are shorter than the buffer arrive whole and one by one. *)
THEOREM FittingLinesWhole == Spec => []WholeLines
<1>1. Inv => WholeLines
  BY DEF Inv
<1>2. QED
  BY <1>1, Invariance, PTL

(* What follows a line that was cut off comes from an earlier line of the  *)
(* thread.                                                                 *)
THEOREM LeftoversAreOld == Spec => []StaleBytes
<1>1. Inv => StaleBytes
  BY DEF Inv
<1>2. QED
  BY <1>1, Invariance, PTL
=============================================================================

------------------------- MODULE ModbusStream_proofs -------------------------
(***************************************************************************)
(* Proofs about reading messages off a TCP stream: for headers and bodies  *)
(* of every length, what a reader has made of a message depends on how     *)
(* many of its bytes came, not on the chunks they came in.                 *)
(***************************************************************************)
EXTENDS ModbusStream, Integers, SequenceTheorems, TLAPS

(* The bytes of message m after the first a, up to byte b. *)
Part(m, a, b) == [i \in 1..(b - a) |-> [msg |-> m, pos |-> a + i]]

(* How many bytes of a message's first k a reader has taken out of its buffer. *)
Taken(k) == IF k < MBAP_LENGTH THEN 0
            ELSE IF k = MBAP_LENGTH THEN MBAP_LENGTH ELSE MBAP_LENGTH + FUNCTION_CODE_LENGTH

(* A reader that has got the first k bytes of message m. *)
ReaderAt(m, k) ==
    [buffer |-> Part(m, Taken(k), k),
     header |-> IF k >= MBAP_LENGTH THEN m ELSE NoMessage,
     fcode  |-> IF k > MBAP_LENGTH THEN m ELSE NoMessage]

LEMMA LengthTyping ==
    ASSUME NEW m \in Messages
    PROVE  /\ MBAP_LENGTH \in Nat /\ MBAP_LENGTH > 0 /\ BodyLength[m.kind] \in Nat
           /\ LengthOf(m) = MBAP_LENGTH + 1 + BodyLength[m.kind] /\ LengthOf(m) \in Nat
           /\ m # NoMessage /\ m # Garbage
<1>1. m.kind \in Kinds /\ m.kind # "none" /\ m.kind # "garbage"
  BY DEF Messages, Kinds, AnswerKinds
<1>2. MBAP_LENGTH \in Nat /\ MBAP_LENGTH > 0 /\ BodyLength[m.kind] \in Nat
  BY <1>1, StreamAssumption
<1>3. LengthOf(m) = MBAP_LENGTH + 1 + BodyLength[m.kind]
  BY DEF LengthOf, FUNCTION_CODE_LENGTH
<1> QED BY <1>1, <1>2, <1>3 DEF NoMessage, Garbage

LEMMA WholeIsBytes == ASSUME NEW m \in Messages PROVE Part(m, 0, LengthOf(m)) = Bytes(m)
  BY LengthTyping DEF Part, Bytes

LEMMA PartTyping ==
    ASSUME NEW m, NEW a \in Nat, NEW b \in Nat, a <= b
    PROVE  /\ Part(m, a, b) \in Seq([msg : {m}, pos : Nat])
           /\ Len(Part(m, a, b)) = b - a
           /\ \A i \in 1..(b - a) : Part(m, a, b)[i] = [msg |-> m, pos |-> a + i]
<1>1. b - a \in Nat
  OBVIOUS
<1>2. \A i \in 1..(b - a) : [msg |-> m, pos |-> a + i] \in [msg : {m}, pos : Nat]
  OBVIOUS
<1> QED BY <1>1, <1>2 DEF Part

(* Two parts that follow each other are one. *)
LEMMA PartsJoin ==
    ASSUME NEW m, NEW a \in Nat, NEW b \in Nat, NEW c \in Nat, a <= b, b <= c
    PROVE  Part(m, a, b) \o Part(m, b, c) = Part(m, a, c)
<1> DEFINE S == [msg : {m}, pos : Nat]
           s == Part(m, a, b)
           t == Part(m, b, c)
           u == Part(m, a, c)
<1>1. s \in Seq(S) /\ t \in Seq(S) /\ u \in Seq(S) /\ Len(s) = b - a /\ Len(t) = c - b /\ Len(u) = c - a
  <2>1. a <= c
    OBVIOUS
  <2>2. s \in Seq(S) /\ Len(s) = b - a
    BY PartTyping
  <2>3. t \in Seq(S) /\ Len(t) = c - b
    BY PartTyping
  <2>4. u \in Seq(S) /\ Len(u) = c - a
    BY <2>1, PartTyping
  <2> QED BY <2>2, <2>3, <2>4
<1>2. s \o t \in Seq(S) /\ Len(s \o t) = Len(u)
  <2> HIDE DEF s, t, u
  <2> QED BY <1>1
<1>3. ASSUME NEW i \in 1..Len(u) PROVE (s \o t)[i] = u[i]
  <2>1. u[i] = [msg |-> m, pos |-> a + i]
    <3>1. i \in 1..(c - a)
      BY <1>1
    <3>2. a <= c
      OBVIOUS
    <3>3. \A k \in 1..(c - a) : u[k] = [msg |-> m, pos |-> a + k]
      BY <3>2, PartTyping
    <3> QED BY <3>1, <3>3
  <2>2. CASE i <= b - a
    <3>1. s[i] = [msg |-> m, pos |-> a + i]
      BY <1>1, <2>2, PartTyping
    <3>2. (s \o t)[i] = s[i]
      <4> HIDE DEF s, t, u
      <4> QED BY <1>1, <2>2
    <3> QED BY <2>1, <3>1, <3>2
  <2>3. CASE i > b - a
    <3> DEFINE j == i - (b - a)
    <3>1. j \in 1..(c - b) /\ b + j = a + i
      BY <1>1, <2>3
    <3>2. t[j] = [msg |-> m, pos |-> b + j]
      <4> HIDE DEF j
      <4> QED BY <3>1, PartTyping
    <3>3. (s \o t)[i] = t[j]
      <4>1. i \in 1..(Len(s) + Len(t)) /\ ~(i <= Len(s)) /\ j = i - Len(s)
        BY <1>1, <2>3
      <4> HIDE DEF s, t, u, j, S
      <4> QED BY <1>1, <4>1, ConcatProperties
    <3> QED BY <2>1, <3>1, <3>2, <3>3
  <2> QED BY <1>1, <2>2, <2>3
<1> HIDE DEF s, t, u
<1>4. s \o t = u
  BY <1>1, <1>2, <1>3, SeqEqual
<1> QED BY <1>4 DEF s, t, u

(* What is left of a part when its first n bytes are taken. *)
LEMMA PartBeyond ==
    ASSUME NEW m, NEW a \in Nat, NEW b \in Nat, a <= b, NEW n \in Nat, a + n <= b
    PROVE  Beyond(Part(m, a, b), n) = Part(m, a + n, b)
<1> DEFINE S == [msg : {m}, pos : Nat]
           s == Part(m, a, b)
           t == Beyond(s, n)
           u == Part(m, a + n, b)
<1>1. s \in Seq(S) /\ u \in Seq(S) /\ Len(s) = b - a /\ Len(u) = b - (a + n)
  <2>1. s \in Seq(S) /\ Len(s) = b - a
    BY PartTyping
  <2>2. a + n \in Nat
    OBVIOUS
  <2>3. u \in Seq(S) /\ Len(u) = b - (a + n)
    BY <2>2, PartTyping
  <2> QED BY <2>1, <2>3
<1>2. t \in Seq(S) /\ Len(t) = Len(u) /\ \A i \in 1..Len(u) : t[i] = s[n + i]
  <2> HIDE DEF s, u
  <2>1. n + 1 \in Int /\ Len(s) \in Int /\ \A i \in (n + 1)..Len(s) : s[i] \in S
    <3>1. Len(s) \in Nat /\ \A i \in 1..Len(s) : s[i] \in S
      <4> HIDE DEF S
      <4> QED BY <1>1
    <3> QED BY <3>1
  <2>2. /\ t \in Seq(S)
        /\ Len(t) = IF n + 1 <= Len(s) THEN Len(s) - (n + 1) + 1 ELSE 0
        /\ \A i \in 1..(Len(s) - (n + 1) + 1) : t[i] = s[(n + 1) + i - 1]
    <3> HIDE DEF S
    <3> QED BY <2>1, SubSeqProperties DEF Beyond
  <2>3. Len(s) - (n + 1) + 1 = Len(u) /\ \A i \in 1..Len(u) : (n + 1) + i - 1 = n + i
    BY <1>1
  <2>4. Len(t) = Len(u)
    BY <1>1, <2>2
  <2> QED BY <2>2, <2>3, <2>4
<1>3. \A i \in 1..Len(u) : t[i] = u[i]
  <2> SUFFICES ASSUME NEW i \in 1..Len(u) PROVE t[i] = u[i]
    OBVIOUS
  <2>1. u[i] = [msg |-> m, pos |-> (a + n) + i]
    BY <1>1, PartTyping
  <2>2. n + i \in 1..(b - a)
    BY <1>1
  <2>3. s[n + i] = [msg |-> m, pos |-> a + (n + i)]
    BY <2>2, PartTyping
  <2>4. (a + n) + i = a + (n + i)
    BY <1>1
  <2> QED BY <1>2, <2>1, <2>3, <2>4
<1> HIDE DEF s, t, u
<1>4. t = u
  BY <1>1, <1>2, <1>3, SeqEqual
<1> QED BY <1>4 DEF s, t, u

LEMMA BufferReplaced ==
    ASSUME NEW b, NEW h, NEW c, NEW x
    PROVE  [[buffer |-> b, header |-> h, fcode |-> c] EXCEPT !.buffer = x]
             = [buffer |-> x, header |-> h, fcode |-> c]
  OBVIOUS

LEMMA PartEmpty == ASSUME NEW m, NEW a \in Nat PROVE Part(m, a, a) = <<>>
  BY DEF Part

(* The first bytes of a part have the meaning of the message. *)
LEMMA PartMeaning ==
    ASSUME NEW m, NEW a \in Nat, NEW b \in Nat, NEW n \in Nat, n > 0, a + n <= b
    PROVE  Meaning(Part(m, a, b), a + 1, n) = m
<1>1. \A i \in 1..n : Part(m, a, b)[i] = [msg |-> m, pos |-> a + i]
  <2>1. a <= b /\ \A i \in 1..n : i \in 1..(b - a)
    OBVIOUS
  <2> QED BY <2>1, PartTyping
<1>2. \A i \in 1..n : (a + 1) + i - 1 = a + i
  OBVIOUS
<1>3. Part(m, a, b)[1].msg = m
  <2>1. Part(m, a, b)[1] = [msg |-> m, pos |-> a + 1]
    BY <1>1
  <2> QED BY <2>1
<1> QED BY <1>1, <1>2, <1>3 DEF Meaning

-----------------------------------------------------------------------------
(* The header is taken once, as soon as it is there.                         *)
LEMMA HeaderTaken ==
    ASSUME NEW m \in Messages, NEW k \in Nat, NEW j \in Nat, k <= j
    PROVE  readMBAP([buffer |-> Part(m, Taken(k), j), header |-> ReaderAt(m, k).header,
                     fcode |-> ReaderAt(m, k).fcode])
             = [buffer |-> IF j < MBAP_LENGTH THEN Part(m, 0, j)
                           ELSE IF k <= MBAP_LENGTH THEN Part(m, MBAP_LENGTH, j)
                           ELSE Part(m, MBAP_LENGTH + FUNCTION_CODE_LENGTH, j),
                header |-> ReaderAt(m, j).header,
                fcode  |-> ReaderAt(m, k).fcode]
<1> DEFINE s == [buffer |-> Part(m, Taken(k), j), header |-> ReaderAt(m, k).header,
                 fcode |-> ReaderAt(m, k).fcode]
<1>1. MBAP_LENGTH \in Nat /\ MBAP_LENGTH > 0 /\ m # NoMessage
  BY LengthTyping
<1>2. /\ ReaderAt(m, k).header = IF k >= MBAP_LENGTH THEN m ELSE NoMessage
      /\ ReaderAt(m, j).header = IF j >= MBAP_LENGTH THEN m ELSE NoMessage
  BY DEF ReaderAt
<1>3. CASE k >= MBAP_LENGTH
  <2>1. readMBAP(s) = s
    BY <1>1, <1>2, <1>3 DEF readMBAP
  <2>2. Taken(k) = IF k <= MBAP_LENGTH THEN MBAP_LENGTH ELSE MBAP_LENGTH + FUNCTION_CODE_LENGTH
    BY <1>1, <1>3 DEF Taken
  <2>3. ~(j < MBAP_LENGTH) /\ ReaderAt(m, j).header = ReaderAt(m, k).header
    BY <1>1, <1>2, <1>3
  <2> QED BY <2>1, <2>2, <2>3
<1>4. CASE k < MBAP_LENGTH /\ j < MBAP_LENGTH
  <2>1. Taken(k) = 0 /\ s.buffer = Part(m, 0, j)
    BY <1>4 DEF Taken
  <2>2. Len(s.buffer) = j
    <3>1. 0 <= j /\ 0 \in Nat /\ j - 0 = j
      OBVIOUS
    <3>2. Len(Part(m, 0, j)) = j - 0
      BY <3>1, PartTyping
    <3> QED BY <2>1, <3>1, <3>2
  <2>3. readMBAP(s) = s
    <3>1. ~(Len(s.buffer) >= MBAP_LENGTH)
      BY <1>1, <1>4, <2>2
    <3> QED BY <3>1 DEF readMBAP
  <2>4. ReaderAt(m, j).header = ReaderAt(m, k).header
    BY <1>1, <1>2, <1>4
  <2> QED BY <1>4, <2>1, <2>3, <2>4
<1>5. CASE k < MBAP_LENGTH /\ j >= MBAP_LENGTH
  <2>1. Taken(k) = 0 /\ s.buffer = Part(m, 0, j) /\ s.header = NoMessage
    BY <1>1, <1>2, <1>5 DEF Taken
  <2>2. Len(s.buffer) = j
    <3>1. 0 <= j /\ 0 \in Nat /\ j - 0 = j
      OBVIOUS
    <3>2. Len(Part(m, 0, j)) = j - 0
      BY <3>1, PartTyping
    <3> QED BY <2>1, <3>1, <3>2
  <2>3. readMBAP(s) = [s EXCEPT !.header = Meaning(s.buffer, 1, MBAP_LENGTH),
                                !.buffer = Beyond(@, MBAP_LENGTH)]
    BY <1>5, <2>1, <2>2 DEF readMBAP
  <2>4. Meaning(s.buffer, 1, MBAP_LENGTH) = m
    <3>1. 0 + MBAP_LENGTH <= j /\ 0 + 1 = 1
      BY <1>1, <1>5
    <3>2. Meaning(Part(m, 0, j), 0 + 1, MBAP_LENGTH) = m
      BY <1>1, <3>1, PartMeaning
    <3> QED BY <2>1, <3>1, <3>2
  <2>5. Beyond(s.buffer, MBAP_LENGTH) = Part(m, MBAP_LENGTH, j)
    <3>1. 0 + MBAP_LENGTH <= j /\ 0 <= j /\ 0 + MBAP_LENGTH = MBAP_LENGTH
      BY <1>1, <1>5
    <3>2. Beyond(Part(m, 0, j), MBAP_LENGTH) = Part(m, 0 + MBAP_LENGTH, j)
      BY <1>1, <3>1, PartBeyond
    <3> QED BY <2>1, <3>1, <3>2
  <2>6. readMBAP(s) = [buffer |-> Part(m, MBAP_LENGTH, j), header |-> m, fcode |-> s.fcode]
    BY <2>3, <2>4, <2>5
  <2>7. ~(j < MBAP_LENGTH) /\ k <= MBAP_LENGTH /\ ReaderAt(m, j).header = m
    BY <1>1, <1>2, <1>5
  <2> QED BY <2>6, <2>7
<1> QED BY <1>1, <1>3, <1>4, <1>5

(* The function code is taken once, when the header was and a byte is there. *)
LEMMA CodeTaken ==
    ASSUME NEW m \in Messages, NEW k \in Nat, NEW j \in Nat, k <= j
    PROVE  readFunctionCode(
               [buffer |-> IF j < MBAP_LENGTH THEN Part(m, 0, j)
                           ELSE IF k <= MBAP_LENGTH THEN Part(m, MBAP_LENGTH, j)
                           ELSE Part(m, MBAP_LENGTH + FUNCTION_CODE_LENGTH, j),
                header |-> ReaderAt(m, j).header,
                fcode  |-> ReaderAt(m, k).fcode])
             = ReaderAt(m, j)
<1> DEFINE s == [buffer |-> IF j < MBAP_LENGTH THEN Part(m, 0, j)
                            ELSE IF k <= MBAP_LENGTH THEN Part(m, MBAP_LENGTH, j)
                            ELSE Part(m, MBAP_LENGTH + FUNCTION_CODE_LENGTH, j),
                 header |-> ReaderAt(m, j).header,
                 fcode  |-> ReaderAt(m, k).fcode]
           M == MBAP_LENGTH
<1>1. M \in Nat /\ M > 0 /\ m # NoMessage /\ FUNCTION_CODE_LENGTH = 1
  BY LengthTyping DEF FUNCTION_CODE_LENGTH
<1>2. /\ s.header = IF j >= M THEN m ELSE NoMessage
      /\ s.fcode = IF k > M THEN m ELSE NoMessage
  BY DEF ReaderAt
<1>3. CASE j < M
  <2>1. readFunctionCode(s) = s
    BY <1>1, <1>2, <1>3 DEF readFunctionCode
  <2>2. ~(j >= M) /\ ~(j > M) /\ ~(k > M) /\ Taken(j) = 0
    BY <1>1, <1>3 DEF Taken
  <2>3. s = ReaderAt(m, j)
    BY <1>3, <2>2 DEF ReaderAt
  <2> QED BY <2>1, <2>3
<1>4. CASE k > M
  <2>1. readFunctionCode(s) = s
    BY <1>1, <1>2, <1>4 DEF readFunctionCode
  <2>2. /\ j >= M /\ j > M /\ ~(j < M) /\ ~(k <= M) /\ k >= M
        /\ Taken(j) = MBAP_LENGTH + FUNCTION_CODE_LENGTH
    BY <1>1, <1>4 DEF Taken
  <2>3. s = ReaderAt(m, j)
    BY <1>4, <2>2 DEF ReaderAt
  <2> QED BY <2>1, <2>3
<1>5. CASE k <= M /\ j = M
  <2>1. s.buffer = Part(m, M, M) /\ s.buffer = <<>>
    BY <1>1, <1>5, PartEmpty
  <2>2. readFunctionCode(s) = s
    BY <2>1 DEF readFunctionCode
  <2>3. j >= M /\ ~(j > M) /\ ~(k > M) /\ Taken(j) = M
    BY <1>1, <1>5 DEF Taken
  <2>4. s = ReaderAt(m, j)
    BY <1>1, <1>5, <2>3 DEF ReaderAt
  <2> QED BY <2>2, <2>4
<1>6. CASE k <= M /\ j > M
  <2>1. s.buffer = Part(m, M, j) /\ s.header = m /\ s.fcode = NoMessage
    BY <1>1, <1>2, <1>6
  <2>2. Len(s.buffer) = j - M /\ s.buffer # <<>>
    <3>1. M <= j
      BY <1>1, <1>6
    <3>2. Len(Part(m, M, j)) = j - M
      BY <1>1, <3>1, PartTyping
    <3>3. Len(<<>>) = 0
      OBVIOUS
    <3> QED BY <1>1, <1>6, <2>1, <3>2, <3>3
  <2>3. readFunctionCode(s) = [s EXCEPT !.fcode = Meaning(s.buffer, M + 1, FUNCTION_CODE_LENGTH),
                                        !.buffer = Beyond(@, FUNCTION_CODE_LENGTH)]
    BY <1>1, <2>1, <2>2 DEF readFunctionCode
  <2>4. Meaning(s.buffer, M + 1, FUNCTION_CODE_LENGTH) = m
    <3>1. M + 1 <= j
      BY <1>1, <1>6
    <3>2. Meaning(Part(m, M, j), M + 1, 1) = m
      BY <1>1, <3>1, PartMeaning
    <3> QED BY <1>1, <2>1, <3>2
  <2>5. Beyond(s.buffer, FUNCTION_CODE_LENGTH) = Part(m, M + 1, j)
    <3>1. M + 1 <= j /\ M <= j
      BY <1>1, <1>6
    <3>2. Beyond(Part(m, M, j), 1) = Part(m, M + 1, j)
      BY <1>1, <3>1, PartBeyond
    <3> QED BY <1>1, <2>1, <3>2
  <2>6. readFunctionCode(s) = [buffer |-> Part(m, M + 1, j), header |-> m, fcode |-> m]
    BY <2>1, <2>3, <2>4, <2>5
  <2>7. j >= M /\ j > M /\ Taken(j) = M + 1
    BY <1>1, <1>6 DEF Taken
  <2>8. ReaderAt(m, j) = [buffer |-> Part(m, M + 1, j), header |-> m, fcode |-> m]
    BY <2>7 DEF ReaderAt
  <2> QED BY <2>6, <2>8
<1> QED BY <1>1, <1>3, <1>4, <1>5, <1>6

(* However a message is cut into chunks, the reader that got its first j     *)
(* bytes is the same: one that had k of them and gets a chunk of j - k.      *)
THEOREM ChunksDoNotMatter ==
    ASSUME NEW m \in Messages, NEW k \in Nat, NEW j \in Nat, k <= j
    PROVE  onData(ReaderAt(m, k), Part(m, k, j)) = ReaderAt(m, j)
<1> DEFINE s == [ReaderAt(m, k) EXCEPT !.buffer = @ \o Part(m, k, j)]
<1>1. Taken(k) \in Nat /\ Taken(k) <= k
  BY LengthTyping DEF Taken, FUNCTION_CODE_LENGTH
<1>2. s = [buffer |-> Part(m, Taken(k), k) \o Part(m, k, j), header |-> ReaderAt(m, k).header,
           fcode |-> ReaderAt(m, k).fcode]
  <2> DEFINE b == Part(m, Taken(k), k)
             h == IF k >= MBAP_LENGTH THEN m ELSE NoMessage
             c == IF k > MBAP_LENGTH THEN m ELSE NoMessage
             p == Part(m, k, j)
  <2>1. ReaderAt(m, k) = [buffer |-> b, header |-> h, fcode |-> c]
    BY DEF ReaderAt
  <2> HIDE DEF b, h, c, p
  <2>2. ReaderAt(m, k).buffer = b /\ ReaderAt(m, k).header = h /\ ReaderAt(m, k).fcode = c
    BY <2>1
  <2>3. [ReaderAt(m, k) EXCEPT !.buffer = b \o p] = [buffer |-> b \o p, header |-> h, fcode |-> c]
    BY <2>1, BufferReplaced
  <2>4. [ReaderAt(m, k) EXCEPT !.buffer = @ \o p] = [buffer |-> b \o p, header |-> h, fcode |-> c]
    BY <2>2, <2>3
  <2> QED BY <2>2, <2>4 DEF b, p
<1>3. Part(m, Taken(k), k) \o Part(m, k, j) = Part(m, Taken(k), j)
  BY <1>1, PartsJoin
<1>4. s = [buffer |-> Part(m, Taken(k), j), header |-> ReaderAt(m, k).header,
           fcode |-> ReaderAt(m, k).fcode]
  BY <1>2, <1>3
<1> HIDE DEF s
<1>5. readMBAP(s) = [buffer |-> IF j < MBAP_LENGTH THEN Part(m, 0, j)
                                ELSE IF k <= MBAP_LENGTH THEN Part(m, MBAP_LENGTH, j)
                                ELSE Part(m, MBAP_LENGTH + FUNCTION_CODE_LENGTH, j),
                     header |-> ReaderAt(m, j).header,
                     fcode  |-> ReaderAt(m, k).fcode]
  BY <1>4, HeaderTaken
<1>6. readFunctionCode(readMBAP(s)) = ReaderAt(m, j)
  BY <1>5, CodeTaken
<1> QED BY <1>6 DEF onData, s

(* A reader is complete with the last byte of a message and not before, and  *)
(* what it hands on is that message.                                         *)
THEOREM CompleteAtTheEnd ==
    ASSUME NEW m \in Messages, NEW k \in 0..LengthOf(m)
    PROVE  /\ Complete(ReaderAt(m, k)) <=> k = LengthOf(m)
           /\ k = LengthOf(m) => Parsed(ReaderAt(m, k)) = m
<1> DEFINE s == ReaderAt(m, k)
           M == MBAP_LENGTH
           B == BodyLength[m.kind]
<1>1. /\ M \in Nat /\ M > 0 /\ B \in Nat /\ LengthOf(m) = M + 1 + B /\ k \in Nat
      /\ m # NoMessage /\ m # Garbage /\ FUNCTION_CODE_LENGTH = 1
  BY LengthTyping DEF FUNCTION_CODE_LENGTH
<1>2. CASE k <= M
  <2>1. s.fcode = NoMessage /\ k # LengthOf(m)
    BY <1>1, <1>2 DEF ReaderAt
  <2> QED BY <2>1 DEF Complete
<1>3. CASE k > M
  <2>1. /\ Taken(k) = M + 1 /\ M + 1 \in Nat /\ M + 1 <= k
        /\ s = [buffer |-> Part(m, M + 1, k), header |-> m, fcode |-> m]
    BY <1>1, <1>3 DEF ReaderAt, Taken
  <2>2. Len(s.buffer) = k - (M + 1)
        /\ \A i \in 1..(k - (M + 1)) : s.buffer[i] = [msg |-> m, pos |-> (M + 1) + i]
    <3>1. s.buffer = Part(m, M + 1, k)
      BY <2>1
    <3> HIDE DEF s, M
    <3> QED BY <1>1, <2>1, <3>1, PartTyping
  <2>3. lengthLeft(s) = B
    BY <1>1, <2>1 DEF lengthLeft
  <2>4. Complete(s) <=> k - (M + 1) >= B
    <3>1. s.header = m /\ s.fcode = m
      BY <2>1
    <3>2. Complete(s) <=> Len(s.buffer) >= B
      <4> HIDE DEF s, M, B
      <4> QED BY <1>1, <2>3, <3>1 DEF Complete
    <3> QED BY <2>2, <3>2
  <2>5. Complete(s) <=> k = LengthOf(m)
    BY <1>1, <2>4
  <2>6. ASSUME k = LengthOf(m) PROVE Parsed(s) = m
    <3>1. k - (M + 1) = B
      BY <1>1, <2>6
    <3>2. \A i \in 1..B : s.buffer[i] = [msg |-> m, pos |-> (M + 1) + i]
      <4> HIDE DEF s, M, B
      <4> QED BY <2>2, <3>1
    <3>3. Len(s.buffer) >= B
      <4> HIDE DEF s, M, B
      <4> QED BY <1>1, <2>2, <3>1
    <3>4. s.header = m /\ s.fcode = m
      BY <2>1
    <3> HIDE DEF s, B
    <3> QED BY <1>1, <2>3, <3>2, <3>3, <3>4 DEF Parsed
  <2> QED BY <2>5, <2>6
<1> QED BY <1>1, <1>2, <1>3
=============================================================================

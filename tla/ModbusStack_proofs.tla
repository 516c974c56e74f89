-------------------------- MODULE ModbusStack_proofs --------------------------
(***************************************************************************)
(* A call of the client, its bytes in chunks of any size, and the answer   *)
(* of either peer: for headers and bodies of all lengths, and a program    *)
(* that keeps at most one call waiting (Window <= 1, as modbus4.js does),  *)
(* no reader miscounts and each call hears its own answer, and only once.  *)
(* The connection goes from Idle to Asking to Serving to Hearing and back. *)
(***************************************************************************)
EXTENDS ModbusStack, ModbusStream_proofs, FiniteSetTheorems, WellFoundedInduction

(* The part of a stack that reads. *)
ReaderOf(s) == [buffer |-> s.buffer, header |-> s.header, fcode |-> s.fcode]

FreshReader == [buffer |-> <<>>, header |-> NoMessage, fcode |-> NoMessage]

ReaderNames == {"buffer", "header", "fcode"}

(* A stack that only differs from another in the part that reads. *)
SameBut(t, s) ==
    /\ t = [f \in DOMAIN t |-> t[f]]
    /\ DOMAIN t = DOMAIN s
    /\ \A f \in DOMAIN s \ ReaderNames : t[f] = s[f]

LEMMA ReadMBAPOn ==
    ASSUME NEW s, ReaderNames \subseteq DOMAIN s, s = [f \in DOMAIN s |-> s[f]]
    PROVE  ReaderOf(readMBAP(s)) = readMBAP(ReaderOf(s)) /\ SameBut(readMBAP(s), s)
BY DEF readMBAP, ReaderOf, SameBut, ReaderNames

LEMMA ReadFunctionCodeOn ==
    ASSUME NEW s, ReaderNames \subseteq DOMAIN s, s = [f \in DOMAIN s |-> s[f]]
    PROVE  ReaderOf(readFunctionCode(s)) = readFunctionCode(ReaderOf(s)) /\ SameBut(readFunctionCode(s), s)
BY DEF readFunctionCode, ReaderOf, SameBut, ReaderNames

(* A reader reads alike whatever else the stack it is part of holds. *)
LEMMA BufferGrown ==
    ASSUME NEW s, NEW chunk
    PROVE  [s EXCEPT !.buffer = @ \o chunk]
             = [f \in DOMAIN s |-> IF f = "buffer" THEN s.buffer \o chunk ELSE s[f]]
<1> DEFINE y == s.buffer \o chunk
<1>1. [s EXCEPT !.buffer = @ \o chunk] = [s EXCEPT !.buffer = y]
  OBVIOUS
<1>2. [s EXCEPT !.buffer = y] = [f \in DOMAIN s |-> IF f = "buffer" THEN y ELSE s[f]]
  <2> HIDE DEF y
  <2> QED OBVIOUS
<1> QED BY <1>1, <1>2, Zenon

LEMMA OnDataOn ==
    ASSUME NEW s, NEW chunk, ReaderNames \subseteq DOMAIN s, s = [f \in DOMAIN s |-> s[f]]
    PROVE  ReaderOf(onData(s, chunk)) = onData(ReaderOf(s), chunk) /\ SameBut(onData(s, chunk), s)
<1> DEFINE a == [s EXCEPT !.buffer = @ \o chunk]
           b == readMBAP(a)
           r == [ReaderOf(s) EXCEPT !.buffer = @ \o chunk]
<1>1. ReaderOf(a) = r /\ SameBut(a, s)
  <2> DEFINE x == s.buffer \o chunk
             q == ReaderOf(s)
             z == q.buffer \o chunk
  <2>1. {"buffer", "header", "fcode"} \subseteq DOMAIN s
    BY DEF ReaderNames
  <2>2. a = [f \in DOMAIN s |-> IF f = "buffer" THEN x ELSE s[f]]
    BY BufferGrown
  <2>3. r = [f \in DOMAIN q |-> IF f = "buffer" THEN z ELSE q[f]]
    BY BufferGrown
  <2>4. q = [buffer |-> s.buffer, header |-> s.header, fcode |-> s.fcode]
    BY DEF ReaderOf
  <2> HIDE DEF a, r, q
  <2>5. z = x
    BY <2>4
  <2> HIDE DEF x, z
  <2>6. a.buffer = x /\ a.header = s.header /\ a.fcode = s.fcode
    BY <2>1, <2>2
  <2>7. r = [buffer |-> x, header |-> s.header, fcode |-> s.fcode]
    BY <2>3, <2>4, <2>5
  <2>8. ReaderOf(a) = r
    BY <2>6, <2>7 DEF ReaderOf
  <2>9. SameBut(a, s)
    BY <2>2 DEF SameBut, ReaderNames
  <2> QED BY <2>8, <2>9
<1>2. ReaderNames \subseteq DOMAIN a /\ a = [f \in DOMAIN a |-> a[f]]
  BY <1>1 DEF SameBut
<1>3. onData(s, chunk) = readFunctionCode(b) /\ onData(ReaderOf(s), chunk) = readFunctionCode(readMBAP(r))
  BY DEF onData
<1> HIDE DEF a, r
<1>4. ReaderOf(b) = readMBAP(ReaderOf(a)) /\ SameBut(b, a)
  BY <1>2, ReadMBAPOn
<1>5. ReaderNames \subseteq DOMAIN b /\ b = [f \in DOMAIN b |-> b[f]]
  BY <1>2, <1>4 DEF SameBut
<1> HIDE DEF b
<1>6. ReaderOf(readFunctionCode(b)) = readFunctionCode(ReaderOf(b)) /\ SameBut(readFunctionCode(b), b)
  BY <1>5, ReadFunctionCodeOn
<1> HIDE DEF b
<1> DEFINE c == readFunctionCode(b)
<1>7. ReaderOf(c) = readFunctionCode(readMBAP(r))
  BY <1>1, <1>4, <1>6
<1>8. SameBut(c, b)
  BY <1>6
<1> HIDE DEF c
<1>9. SameBut(c, s)
  BY <1>1, <1>4, <1>8 DEF SameBut
<1> QED BY <1>3, <1>7, <1>9 DEF c

LEMMA ReaderAtTyping ==
    ASSUME NEW m \in Messages, NEW k \in Nat
    PROVE  /\ ReaderAt(m, k) \in ReaderFields
           /\ ReaderAt(m, k).header # Garbage /\ ReaderAt(m, k).fcode # Garbage
           /\ ReaderAt(m, 0) = FreshReader
<1>1. Taken(k) \in Nat /\ Taken(k) <= k /\ Taken(0) = 0
  BY StreamAssumption DEF Taken, FUNCTION_CODE_LENGTH
<1>2. Part(m, Taken(k), k) \in Seq([msg : {m}, pos : Nat])
  BY <1>1, PartTyping
<1>3. [msg : {m}, pos : Nat] \subseteq StreamBytes
  BY DEF StreamBytes
<1>4. Part(m, Taken(k), k) \in Seq(StreamBytes)
  BY <1>2, <1>3, SeqMonotonic
<1>5. m # Garbage /\ NoMessage # Garbage /\ m \in Readings /\ NoMessage \in Readings
  BY LengthTyping DEF NoMessage, Garbage, Readings
<1>6. Part(m, Taken(0), 0) = <<>>
  BY <1>1, PartEmpty
<1>7. ReaderAt(m, 0) = FreshReader
  BY <1>6, StreamAssumption DEF ReaderAt, FreshReader
<1>8. ReaderAt(m, k) \in ReaderFields
  BY <1>4, <1>5 DEF ReaderAt, ReaderFields
<1>9. ReaderAt(m, k).header # Garbage /\ ReaderAt(m, k).fcode # Garbage
  BY <1>5 DEF ReaderAt
<1> QED BY <1>7, <1>8, <1>9

LEMMA CompleteOf ==
    ASSUME NEW s
    PROVE  /\ Complete(ReaderOf(s)) <=> Complete(s)
           /\ Parsed(ReaderOf(s)) = Parsed(s)
BY DEF Complete, Parsed, lengthLeft, ReaderOf

LEMMA ReaderStatus ==
    ASSUME NEW m \in Messages, NEW j \in 0..LengthOf(m), NEW s, ReaderOf(s) = ReaderAt(m, j)
    PROVE  /\ s.buffer \in Seq(StreamBytes) /\ s.header \in Readings /\ s.fcode \in Readings
           /\ s.header # Garbage /\ s.fcode # Garbage
           /\ Complete(s) <=> j = LengthOf(m)
           /\ j = LengthOf(m) => /\ s.header = m /\ s.fcode = m /\ Parsed(s) = m
                                 /\ Beyond(s.buffer, lengthLeft(s)) = <<>>
<1>1. LengthOf(m) \in Nat /\ j \in Nat /\ LengthOf(m) = MBAP_LENGTH + 1 + BodyLength[m.kind]
      /\ MBAP_LENGTH \in Nat /\ MBAP_LENGTH > 0 /\ BodyLength[m.kind] \in Nat /\ m # NoMessage /\ m # Garbage
  BY LengthTyping
<1>2. s.buffer = ReaderAt(m, j).buffer /\ s.header = ReaderAt(m, j).header /\ s.fcode = ReaderAt(m, j).fcode
  BY DEF ReaderOf
<1>3. ReaderAt(m, j) \in ReaderFields /\ ReaderAt(m, j).header # Garbage /\ ReaderAt(m, j).fcode # Garbage
  BY <1>1, ReaderAtTyping
<1>4. s.buffer \in Seq(StreamBytes) /\ s.header \in Readings /\ s.fcode \in Readings
  BY <1>2, <1>3 DEF ReaderFields
<1>5. Complete(s) <=> j = LengthOf(m)
  BY CompleteOf, CompleteAtTheEnd
<1>6. ASSUME j = LengthOf(m)
      PROVE  s.header = m /\ s.fcode = m /\ Parsed(s) = m /\ Beyond(s.buffer, lengthLeft(s)) = <<>>
  <2>1. Parsed(s) = m
    BY <1>6, CompleteOf, CompleteAtTheEnd
  <2>2. s.header = m /\ s.fcode = m
    BY <1>1, <1>2, <1>6 DEF ReaderAt
  <2>3. lengthLeft(s) = BodyLength[m.kind]
    BY <1>1, <2>2 DEF lengthLeft
  <2>4. Taken(j) = MBAP_LENGTH + 1
    BY <1>1, <1>6 DEF Taken, FUNCTION_CODE_LENGTH
  <2>5. s.buffer = Part(m, MBAP_LENGTH + 1, j)
    BY <1>2, <2>4 DEF ReaderAt
  <2>6. Beyond(Part(m, MBAP_LENGTH + 1, j), BodyLength[m.kind]) = Part(m, j, j)
    <3>1. MBAP_LENGTH + 1 \in Nat /\ MBAP_LENGTH + 1 <= j /\ MBAP_LENGTH + 1 + BodyLength[m.kind] = j
      BY <1>1, <1>6
    <3>2. Beyond(Part(m, MBAP_LENGTH + 1, j), BodyLength[m.kind]) = Part(m, MBAP_LENGTH + 1 + BodyLength[m.kind], j)
      BY <1>1, <3>1, PartBeyond
    <3> QED BY <3>1, <3>2
  <2>7. Part(m, j, j) = <<>>
    BY <1>1, PartEmpty
  <2> QED BY <2>1, <2>2, <2>3, <2>5, <2>6, <2>7
<1> QED BY <1>2, <1>3, <1>4, <1>5, <1>6

-----------------------------------------------------------------------------
(* What a chunk does to a stack of the client. *)

LEMMA ClientChunk ==
    ASSUME NEW s \in Stacks, NEW m \in Messages, NEW k \in Nat, NEW j \in Nat, k <= j, j <= LengthOf(m),
           ReaderOf(s) = ReaderAt(m, k), NEW t, t = onData(s, Part(m, k, j))
    PROVE  /\ t \in Stacks
           /\ t.attached = s.attached /\ t.asked = s.asked /\ t.heard = s.heard
           /\ ReaderOf(t) = ReaderAt(m, j)
<1>1. LengthOf(m) \in Nat /\ j \in 0..LengthOf(m)
  BY LengthTyping
<1>2. /\ s = [f \in DOMAIN s |-> s[f]]
      /\ DOMAIN s = {"attached", "asked", "heard", "buffer", "header", "fcode"}
      /\ s.attached \in BOOLEAN /\ s.asked \in FunctionCodes /\ s.heard \in Seq(Readings \union {BadArgument})
  BY DEF Stacks
<1>3. ReaderOf(t) = onData(ReaderOf(s), Part(m, k, j)) /\ SameBut(t, s)
  BY <1>2, OnDataOn DEF ReaderNames
<1>4. ReaderOf(t) = ReaderAt(m, j)
  BY <1>3, ChunksDoNotMatter
<1>5. t.buffer \in Seq(StreamBytes) /\ t.header \in Readings /\ t.fcode \in Readings
  BY <1>1, <1>4, ReaderStatus
<1>6. t.attached = s.attached /\ t.asked = s.asked /\ t.heard = s.heard
  BY <1>2, <1>3 DEF SameBut, ReaderNames
<1>7. t = [f \in {"attached", "asked", "heard", "buffer", "header", "fcode"} |-> t[f]]
  BY <1>2, <1>3 DEF SameBut
<1>8. t = [attached |-> t.attached, asked |-> t.asked, heard |-> t.heard,
           buffer |-> t.buffer, header |-> t.header, fcode |-> t.fcode]
  BY <1>7
<1>9. t.attached \in BOOLEAN /\ t.asked \in FunctionCodes /\ t.heard \in Seq(Readings \union {BadArgument})
  BY <1>2, <1>6
<1>10. t \in Stacks
  BY ONLY <1>5, <1>8, <1>9 DEF Stacks
<1> QED BY <1>4, <1>6, <1>10

LEMMA HearLast ==
    ASSUME NEW t \in Stacks, NEW m \in Messages, ReaderOf(t) = ReaderAt(m, LengthOf(m)),
           m.kind = "exception" \/ m.code \in ClientRESPONSES
    PROVE  /\ hear(t) \in Stacks
           /\ ~hear(t).attached /\ hear(t).asked = t.asked /\ hear(t).heard = Append(t.heard, m)
           /\ hear(t).header = m /\ hear(t).fcode = m
<1>1. LengthOf(m) \in Nat /\ LengthOf(m) \in 0..LengthOf(m)
  BY LengthTyping
<1>2. t.header = m /\ t.fcode = m /\ Parsed(t) = m /\ Beyond(t.buffer, lengthLeft(t)) = <<>>
  BY <1>1, ReaderStatus
<1>3. hear(t) = [t EXCEPT !.heard = Append(@, m), !.attached = FALSE, !.buffer = <<>>]
  BY <1>2 DEF hear
<1>4. t = [attached |-> t.attached, asked |-> t.asked, heard |-> t.heard,
           buffer |-> t.buffer, header |-> t.header, fcode |-> t.fcode]
      /\ t.asked \in FunctionCodes /\ t.heard \in Seq(Readings \union {BadArgument})
  BY DEF Stacks
<1> DEFINE h == Append(t.heard, m)
<1>5. h \in Seq(Readings \union {BadArgument})
  BY <1>4, AppendProperties DEF Readings
<1>6. hear(t) = [t EXCEPT !.heard = h, !.attached = FALSE, !.buffer = <<>>]
  BY <1>3
<1> HIDE DEF h
<1>7. hear(t) = [attached |-> FALSE, asked |-> t.asked, heard |-> h, buffer |-> <<>>, header |-> m, fcode |-> m]
  BY <1>2, <1>4, <1>6
<1>8. <<>> \in Seq(StreamBytes) /\ m \in Readings
  BY EmptySeq DEF Readings
<1>9. hear(t) \in Stacks
  BY <1>4, <1>5, <1>7, <1>8 DEF Stacks
<1> QED BY <1>7, <1>9 DEF h

-----------------------------------------------------------------------------
(* What a chunk does to a stack of the server. *)

LEMMA ServerChunk ==
    ASSUME NEW s \in Responders, NEW m \in Messages, NEW k \in Nat, NEW j \in Nat, k <= j, j <= LengthOf(m),
           ReaderOf(s) = ReaderAt(m, k), NEW t, t = onData(s, Part(m, k, j))
    PROVE  /\ t \in Responders
           /\ t.attached = s.attached /\ t.gotRequest = s.gotRequest /\ t.request = s.request
           /\ ReaderOf(t) = ReaderAt(m, j)
<1>1. LengthOf(m) \in Nat /\ j \in 0..LengthOf(m)
  BY LengthTyping
<1>2. /\ s = [f \in DOMAIN s |-> s[f]]
      /\ DOMAIN s = {"attached", "gotRequest", "request", "buffer", "header", "fcode"}
      /\ s.attached \in BOOLEAN /\ s.gotRequest \in BOOLEAN /\ s.request \in Readings
  BY DEF Responders
<1>3. ReaderOf(t) = onData(ReaderOf(s), Part(m, k, j)) /\ SameBut(t, s)
  BY <1>2, OnDataOn DEF ReaderNames
<1>4. ReaderOf(t) = ReaderAt(m, j)
  BY <1>3, ChunksDoNotMatter
<1>5. t.buffer \in Seq(StreamBytes) /\ t.header \in Readings /\ t.fcode \in Readings
  BY <1>1, <1>4, ReaderStatus
<1>6. t.attached = s.attached /\ t.gotRequest = s.gotRequest /\ t.request = s.request
  BY <1>2, <1>3 DEF SameBut, ReaderNames
<1>7. t = [f \in {"attached", "gotRequest", "request", "buffer", "header", "fcode"} |-> t[f]]
  BY <1>2, <1>3 DEF SameBut
<1>8. t = [attached |-> t.attached, gotRequest |-> t.gotRequest, request |-> t.request,
           buffer |-> t.buffer, header |-> t.header, fcode |-> t.fcode]
  BY <1>7
<1>9. t.attached \in BOOLEAN /\ t.gotRequest \in BOOLEAN /\ t.request \in Readings
  BY <1>2, <1>6
<1>10. t \in Responders
  BY ONLY <1>5, <1>8, <1>9 DEF Responders
<1> QED BY <1>4, <1>6, <1>10

(* A complete request is taken: its code is one that can be parsed. *)
LEMMA RequestParsed ==
    ASSUME NEW t \in Responders, NEW m \in Messages, ReaderOf(t) = ReaderAt(m, LengthOf(m)), t.attached
    PROVE  /\ parseRequest(t) \in Responders /\ Cleanup(parseRequest(t)) \in Responders
           /\ parseRequest(t).attached /\ parseRequest(t).gotRequest /\ parseRequest(t).request = m
           /\ parseRequest(t).header = m /\ parseRequest(t).fcode = m
           /\ ~Cleanup(parseRequest(t)).attached
           /\ Cleanup(parseRequest(t)).request = m
           /\ Cleanup(parseRequest(t)).header = m /\ Cleanup(parseRequest(t)).fcode = m
           /\ t.fcode = m /\ m.code \in ServerREQUESTS
<1>1. LengthOf(m) \in Nat /\ LengthOf(m) \in 0..LengthOf(m)
  BY LengthTyping
<1>2. t.header = m /\ t.fcode = m /\ Parsed(t) = m /\ Beyond(t.buffer, lengthLeft(t)) = <<>> /\ Complete(t)
  BY <1>1, ReaderStatus
<1>3. m.code \in ServerREQUESTS
  <2>1. m.code \in 1..6
    BY ClientAssumption DEF Messages, ClientREQUESTS
  <2>2. m.code \in 1..7
    BY <2>1
  <2> QED BY <2>2 DEF ServerREQUESTS
<1>4. parseRequest(t) = [t EXCEPT !.gotRequest = TRUE, !.request = m, !.buffer = <<>>]
  BY <1>2, <1>3 DEF parseRequest
<1>5. t = [attached |-> t.attached, gotRequest |-> t.gotRequest, request |-> t.request,
           buffer |-> t.buffer, header |-> t.header, fcode |-> t.fcode] /\ t.attached = TRUE
  BY DEF Responders
<1>6. parseRequest(t) = [attached |-> TRUE, gotRequest |-> TRUE, request |-> m, buffer |-> <<>>, header |-> m, fcode |-> m]
  BY <1>2, <1>4, <1>5
<1>7. Cleanup(parseRequest(t)) = [attached |-> FALSE, gotRequest |-> TRUE, request |-> m,
                                  buffer |-> <<>>, header |-> m, fcode |-> m]
  <2> DEFINE p == parseRequest(t)
             e == <<>>
  <2>1. p = [attached |-> TRUE, gotRequest |-> TRUE, request |-> m, buffer |-> e, header |-> m, fcode |-> m]
    BY <1>6
  <2>2. Cleanup(p) = [p EXCEPT !.attached = FALSE]
    BY DEF Cleanup
  <2> HIDE DEF p, e
  <2>3. Cleanup(p) = [attached |-> FALSE, gotRequest |-> TRUE, request |-> m,
                      buffer |-> e, header |-> m, fcode |-> m]
    BY ONLY <2>1, <2>2
  <2> QED BY <2>3 DEF p, e
<1>8. <<>> \in Seq(StreamBytes) /\ m \in Readings
  BY EmptySeq DEF Readings
<1>9. parseRequest(t) \in Responders /\ Cleanup(parseRequest(t)) \in Responders
  <2>1. \A a \in BOOLEAN, e \in Seq(StreamBytes), r \in Readings :
            [attached |-> a, gotRequest |-> TRUE, request |-> r, buffer |-> e, header |-> r, fcode |-> r]
                \in Responders
    BY DEF Responders
  <2>2. TRUE \in BOOLEAN /\ FALSE \in BOOLEAN
    OBVIOUS
  <2>3. [attached |-> TRUE, gotRequest |-> TRUE, request |-> m, buffer |-> <<>>, header |-> m, fcode |-> m]
            \in Responders
    BY ONLY <1>8, <2>1, <2>2, Zenon
  <2>4. [attached |-> FALSE, gotRequest |-> TRUE, request |-> m, buffer |-> <<>>, header |-> m, fcode |-> m]
            \in Responders
    BY ONLY <1>8, <2>1, <2>2, Zenon
  <2> QED BY ONLY <1>6, <1>7, <2>3, <2>4, Zenon
<1> QED BY <1>2, <1>3, <1>6, <1>7, <1>9

IsFlat(f, seqs) == f = [i \in 1..Len(seqs) |-> IF i = 1 THEN seqs[i] ELSE f[i - 1] \o seqs[i]]

(* Of sequences of which only the last has something in it, FlattenSeq is    *)
(* the last.                                                                 *)
LEMMA FlattenLast ==
    ASSUME NEW S, NEW seqs, Len(seqs) \in Nat \ {0}, seqs[Len(seqs)] \in Seq(S),
           \A i \in 1..(Len(seqs) - 1) : seqs[i] = <<>>
    PROVE  FlattenSeq(seqs) = seqs[Len(seqs)]
<1> DEFINE n == Len(seqs)
           flat == CHOOSE f : IsFlat(f, seqs)
<1>1. n \in Nat /\ n >= 1
  OBVIOUS
<1>2. FlattenSeq(seqs) = flat[n]
  BY DEF FlattenSeq, IsFlat
<1>3. \A i \in 1..n : seqs[i] \in Seq(S) /\ <<>> \o seqs[i] = seqs[i]
  <2> SUFFICES ASSUME NEW i \in 1..n PROVE seqs[i] \in Seq(S)
    BY ConcatEmptySeq
  <2>1. i = n \/ i \in 1..(n - 1)
    BY <1>1
  <2>2. CASE i = n
    BY <2>2
  <2>3. CASE i \in 1..(n - 1)
    <3>1. seqs[i] = <<>>
      BY <2>3
    <3> QED BY <3>1, EmptySeq
  <2> QED BY <2>1, <2>2, <2>3
<1>4. \A i \in 2..n : i - 1 \in 1..(n - 1) /\ i \in 1..n
  BY <1>1
<1>5. IsFlat(flat, seqs)
  <2> DEFINE g == [i \in 1..n |-> seqs[i]]
  <2>1. \A i \in 1..n : g[i] = IF i = 1 THEN seqs[i] ELSE g[i - 1] \o seqs[i]
    <3> SUFFICES ASSUME NEW i \in 1..n, i # 1 PROVE g[i] = g[i - 1] \o seqs[i]
      OBVIOUS
    <3>1. i - 1 \in 1..(n - 1) /\ i - 1 \in 1..n
      BY <1>1
    <3>2. g[i - 1] = <<>> /\ g[i] = seqs[i]
      BY <3>1
    <3> HIDE DEF g
    <3> QED BY <1>3, <3>2
  <2>2. IsFlat(g, seqs)
    <3>1. g = [i \in 1..n |-> g[i]]
      OBVIOUS
    <3> HIDE DEF g
    <3> QED BY <2>1, <3>1 DEF IsFlat
  <2> HIDE DEF g
  <2> QED BY <2>2
<1> HIDE DEF flat
<1>6. \A i \in 1..n : flat[i] = IF i = 1 THEN seqs[i] ELSE flat[i - 1] \o seqs[i]
  <2> DEFINE body(i) == IF i = 1 THEN seqs[i] ELSE flat[i - 1] \o seqs[i]
  <2>1. flat = [i \in 1..n |-> body(i)]
    BY <1>5 DEF IsFlat
  <2> HIDE DEF body
  <2>2. \A i \in 1..n : flat[i] = body(i)
    BY <2>1
  <2> QED BY <2>2 DEF body
<1> DEFINE T == {i \in Nat : i \in 1..n /\ flat[i] # seqs[i]}
<1>7. T = {}
  <2> SUFFICES ASSUME T # {} PROVE FALSE
    OBVIOUS
  <2>1. PICK x \in T : \A y \in T : ~ (<<y, x>> \in OpToRel(<, Nat))
    <3> T \subseteq Nat
      OBVIOUS
    <3> HIDE DEF T
    <3> QED BY NatLessThanWellFounded, WFMin, Zenon
  <2>2. \A y \in T : ~ (y < x)
    <3> T \subseteq Nat
      OBVIOUS
    <3> HIDE DEF T
    <3> QED BY <2>1 DEF OpToRel
  <2>3. x \in 2..n /\ x \in 1..n /\ flat[x] # seqs[x]
    BY <1>1, <1>6
  <2>4. x - 1 \in 1..(n - 1) /\ x - 1 \in 1..n /\ x - 1 < x /\ x # 1 /\ x - 1 \in Nat
    BY <1>1, <2>3
  <2>5. flat[x - 1] = seqs[x - 1]
    BY <2>2, <2>4
  <2>6. flat[x - 1] = <<>>
    BY <2>4, <2>5
  <2>7. flat[x] = flat[x - 1] \o seqs[x]
    BY <1>6, <2>3, <2>4
  <2> QED BY <1>3, <2>3, <2>6, <2>7
<1>8. flat[n] = seqs[n]
  BY <1>1, <1>7
<1> QED BY <1>2, <1>8

-----------------------------------------------------------------------------
(* The inductive invariant: the connection is in one of four phases.         *)

(* The calls are all answered, or all but the last, whose request is m.  *)
NonePending == \A i \in DOMAIN stacks : stacks[i].heard # <<>>
LastPending(m) ==
    /\ m.of \in DOMAIN stacks /\ m.of = Len(stacks)
    /\ stacks[m.of].attached /\ stacks[m.of].heard = <<>>
    /\ \A i \in DOMAIN stacks : i # m.of => stacks[i].heard # <<>>

(* What the attached stacks of the client, and the last one of the server, have read. *)
ClientReads(r) == \A i \in DOMAIN stacks : stacks[i].attached => ReaderOf(stacks[i]) = r
ServerListens(r) ==
    LET l == Len(responders)
    IN  /\ l \in DOMAIN responders
        /\ responders[l].attached
        /\ responders[l].gotRequest = FALSE
        /\ ReaderOf(responders[l]) = r

NoneWaits == \A i \in DOMAIN responders : i # Len(responders) => ~responders[i].attached
OneWaits(m) ==
    LET w == Len(responders) - 1
    IN  /\ w \in DOMAIN responders
        /\ responders[w].attached
        /\ responders[w].gotRequest = TRUE
        /\ responders[w].request = m
        /\ \A i \in DOMAIN responders : i # w /\ i # Len(responders) => ~responders[i].attached

NoAnswerYet(m) == \A k \in DOMAIN written : written[k].of < m.of

Idle ==
    /\ NonePending
    /\ up = <<>> /\ down = <<>>
    /\ ClientReads(FreshReader)
    /\ ServerListens(FreshReader) /\ NoneWaits

(* k bytes of the request have been read. *)
Asking(m, k) ==
    /\ m.kind = "request"
    /\ LastPending(m) /\ NoAnswerYet(m)
    /\ up = Part(m, k, LengthOf(m)) /\ down = <<>>
    /\ ClientReads(FreshReader)
    /\ ServerListens(ReaderAt(m, k)) /\ NoneWaits
    /\ peer # "server" => k = 0

(* A handler has the request. *)
Serving(m) ==
    /\ m.kind = "request"
    /\ LastPending(m) /\ NoAnswerYet(m)
    /\ up = <<>> /\ down = <<>>
    /\ ClientReads(FreshReader)
    /\ ServerListens(FreshReader) /\ OneWaits(m)

(* k bytes of the answer have been read. *)
Hearing(m, k) ==
    /\ m.kind = "exception" \/ (m.kind = "response" /\ m.code \in ClientRESPONSES)
    /\ LastPending(m)
    /\ Len(written) \in DOMAIN written /\ written[Len(written)] = m
    /\ up = <<>> /\ down = Part(m, k, LengthOf(m))
    /\ ClientReads(ReaderAt(m, k))
    /\ ServerListens(FreshReader) /\ NoneWaits

Phase ==
    \/ Idle
    \/ \E m \in Messages : \E k \in 0..(LengthOf(m) - 1) : Asking(m, k)
    \/ \E m \in Messages : Serving(m)
    \/ \E m \in Messages : \E k \in 0..(LengthOf(m) - 1) : Hearing(m, k)

(* Answers leave in the order of the requests, and no request has two.       *)
AnswersInOrder == \A i, j \in DOMAIN written : i < j => written[i].of < written[j].of

AnswersToCalls == \A k \in DOMAIN written : written[k].of \in DOMAIN stacks

(* What the callback of a call has been called with: the answer to that call *)
(* and nothing after it, or the error of its arguments and then perhaps an   *)
(* answer to a later call.                                                   *)
HeardOwn ==
    \A i \in DOMAIN stacks :
        \/ stacks[i].heard = <<>>
        \/ stacks[i].heard = <<BadArgument>>
        \/ /\ ~stacks[i].attached
           /\ \E k \in DOMAIN written :
                  \/ written[k].of = i /\ stacks[i].heard = <<written[k]>>
                  \/ stacks[i].heard = <<BadArgument, written[k]>>

IInv ==
    /\ TypeOK
    /\ server_up = TRUE
    /\ Phase
    /\ AnswersInOrder
    /\ AnswersToCalls
    /\ HeardOwn
    /\ NoLeak
    /\ Aligned

-----------------------------------------------------------------------------

LEMMA NewResponderTyping ==
    /\ NewResponder \in Responders
    /\ NewResponder.attached /\ NewResponder.gotRequest = FALSE
    /\ ReaderOf(NewResponder) = FreshReader
    /\ Garbage \notin {NewResponder.header, NewResponder.fcode, NewResponder.request}
<1>1. <<>> \in Seq(StreamBytes) /\ NoMessage \in Readings
  BY EmptySeq DEF Readings
<1>2. \A e \in Seq(StreamBytes), r \in Readings :
          [attached |-> TRUE, gotRequest |-> FALSE, request |-> r, buffer |-> e, header |-> r, fcode |-> r]
              \in Responders
  BY DEF Responders
<1>3. NewResponder \in Responders
  BY ONLY <1>1, <1>2, Zenon DEF NewResponder
<1> QED BY <1>3 DEF NewResponder, ReaderOf, FreshReader, Garbage, NoMessage

LEMMA BytesTyping == ASSUME NEW m \in Messages PROVE Bytes(m) \in Seq(StreamBytes)
<1>1. LengthOf(m) \in Nat
  BY LengthTyping
<1>2. Part(m, 0, LengthOf(m)) \in Seq([msg : {m}, pos : Nat])
  BY <1>1, PartTyping
<1>3. [msg : {m}, pos : Nat] \subseteq StreamBytes
  BY DEF StreamBytes
<1>4. Part(m, 0, LengthOf(m)) \in Seq(StreamBytes)
  BY <1>2, <1>3, SeqMonotonic
<1> QED BY <1>4, WholeIsBytes

LEMMA Initially == Init => IInv
<1> SUFFICES ASSUME Init PROVE IInv
  OBVIOUS
<1> USE DEF Init, StreamInit, ClientInit, ServerInit
<1>1. TypeOK
  <2>1. <<>> \in Seq(StreamBytes) /\ <<>> \in Seq(Messages) /\ <<>> \in Seq(Stacks)
    BY EmptySeq
  <2>2. <<NewResponder>> \in Seq(Responders)
    BY NewResponderTyping
  <2>3. server_up \in BOOLEAN
    OBVIOUS
  <2> QED BY <2>1, <2>2, <2>3 DEF TypeOK, StreamTypeOK, ClientTypeOK, ServerTypeOK
<1>2. DOMAIN stacks = {} /\ DOMAIN written = {}
  OBVIOUS
<1>3. DOMAIN responders = {1} /\ Len(responders) = 1 /\ responders[1] = NewResponder
  OBVIOUS
<1>4. Idle
  BY <1>2, <1>3, NewResponderTyping DEF Idle, NonePending, ClientReads, ServerListens, NoneWaits
<1>5. AnswersInOrder /\ AnswersToCalls /\ HeardOwn /\ NoLeak
  BY <1>2 DEF AnswersInOrder, AnswersToCalls, HeardOwn, NoLeak
<1>6. Aligned
  BY <1>2, <1>3, NewResponderTyping DEF Aligned
<1> QED BY <1>1, <1>4, <1>5, <1>6 DEF IInv, Phase

(* The request of a pending call is answered, the client listening. *)
LEMMA AnswerStep ==
    ASSUME TypeOK, TypeOK', server_up' = TRUE, AnswersInOrder, AnswersToCalls, HeardOwn, NoLeak,
           Aligned', NEW m \in Messages, LastPending(m), NoAnswerYet(m), ClientReads(FreshReader),
           NEW a \in Messages, a.of = m.of,
           a.kind = "exception" \/ (a.kind = "response" /\ a.code \in ClientRESPONSES),
           written' = Append(written, a), UNCHANGED stacks,
           up' = <<>>, down' = Bytes(a), ServerListens(FreshReader)', NoneWaits'
    PROVE  IInv'
<1>1. written \in Seq(Messages) /\ Len(written) \in Nat /\ DOMAIN written = 1..Len(written)
  BY DEF TypeOK, StreamTypeOK
<1>2. /\ DOMAIN written' = 1..(Len(written) + 1) /\ Len(written') = Len(written) + 1
      /\ \A k \in DOMAIN written : k \in DOMAIN written' /\ written'[k] = written[k] /\ k < Len(written) + 1
      /\ written'[Len(written) + 1] = a
      /\ Len(written) + 1 \in DOMAIN written'
  BY <1>1, AppendProperties
<1>3. \A k \in DOMAIN written' : k \in DOMAIN written \/ k = Len(written) + 1
  BY <1>1, <1>2
<1>4. \A k \in DOMAIN written : written[k].of < a.of
  BY DEF NoAnswerYet
<1>5. AnswersInOrder'
  <2> SUFFICES ASSUME NEW i \in DOMAIN written', NEW j \in DOMAIN written', i < j
               PROVE  written'[i].of < written'[j].of
    BY DEF AnswersInOrder
  <2>1. i \in DOMAIN written
    <3>1. j <= Len(written) + 1 /\ j \in Nat /\ i \in Nat
      BY <1>1, <1>2
    <3> QED BY <1>3, <3>1, <1>1
  <2>2. CASE j \in DOMAIN written
    BY <1>2, <2>1, <2>2 DEF AnswersInOrder
  <2>3. CASE j = Len(written) + 1
    BY <1>2, <1>4, <2>1, <2>3
  <2> QED BY <1>3, <2>2, <2>3
<1>6. AnswersToCalls'
  BY <1>2, <1>3 DEF AnswersToCalls, LastPending
<1>7. HeardOwn'
  BY <1>2 DEF HeardOwn
<1>8. NoLeak'
  BY DEF NoLeak
<1>9. LengthOf(a) \in Nat /\ LengthOf(a) > 0 /\ 0 \in 0..(LengthOf(a) - 1) /\ Part(a, 0, LengthOf(a)) = Bytes(a)
  <2>1. LengthOf(a) = MBAP_LENGTH + 1 + BodyLength[a.kind] /\ MBAP_LENGTH \in Nat /\ BodyLength[a.kind] \in Nat
    BY LengthTyping
  <2>2. LengthOf(a) \in Nat /\ LengthOf(a) > 0
    BY <2>1
  <2> QED BY <2>2, WholeIsBytes
<1>10. ReaderAt(a, 0) = FreshReader
  BY ReaderAtTyping
<1>11. LastPending(a)'
  BY DEF LastPending
<1>12. ClientReads(FreshReader)'
  BY DEF ClientReads
<1>13. Hearing(a, 0)'
  BY <1>2, <1>9, <1>10, <1>11, <1>12 DEF Hearing
<1>14. Phase'
  BY <1>9, <1>13 DEF Phase
<1> QED BY <1>5, <1>6, <1>7, <1>8, <1>14 DEF IInv

(* A handler has a request in one phase only. *)
LEMMA WaitingWhenServing ==
    ASSUME IInv, Waiting # {}
    PROVE  \E m \in Messages : Serving(m) /\ Waiting = {Len(responders) - 1}
<1>1. DOMAIN responders = 1..Len(responders) /\ Len(responders) \in Nat
  BY DEF IInv, TypeOK, ServerTypeOK
<1>2. CASE \E m \in Messages : Serving(m)
  <2>1. PICK m \in Messages : Serving(m)
    BY <1>2
  <2>2. Len(responders) # Len(responders) - 1
    <3>1. \A x \in Nat : x # x - 1
      OBVIOUS
    <3> QED BY <1>1, <3>1, Zenon
  <2> DEFINE l == Len(responders)
             w == Len(responders) - 1
  <2>3. /\ l \in DOMAIN responders /\ responders[l].attached /\ responders[l].gotRequest = FALSE
        /\ w \in DOMAIN responders /\ responders[w].attached /\ responders[w].gotRequest = TRUE
        /\ \A i \in DOMAIN responders : i # w /\ i # l => ~responders[i].attached
    BY <2>1 DEF Serving, ServerListens, OneWaits
  <2> HIDE DEF l, w
  <2>4. Waiting = {w}
    BY <2>3 DEF Attached, Waiting
  <2> QED BY <2>1, <2>4 DEF l, w
<1>3. ASSUME NEW r, ServerListens(r), NoneWaits
      PROVE  Waiting = {}
  BY <1>3 DEF ServerListens, NoneWaits, Attached, Waiting
<1>4. CASE \E r : ServerListens(r) /\ NoneWaits
  BY <1>3, <1>4
<1> QED BY <1>2, <1>4 DEF IInv, Phase, Idle, Asking, Hearing

LEMMA HandlerAnswerStep ==
    ASSUME IInv, NEW k \in DOMAIN responders, NEW kind \in AnswerKinds, HandlerAnswer(k, kind),
           UNCHANGED <<stacks, peer>>
    PROVE  IInv'
<1> USE DEF IInv
<1>1. PICK m \in Messages : Serving(m) /\ k = Len(responders) - 1
  BY WaitingWhenServing DEF HandlerAnswer
<1>2. responders[k].request = m
  BY <1>1 DEF Serving, OneWaits
<1> DEFINE a == Answer(responders[k], kind)
<1>3. a = [of |-> m.of, kind |-> kind, code |-> m.code]
  BY <1>2 DEF Answer
<1>4. a \in Messages /\ a.of = m.of /\ a.kind = kind /\ a.code = m.code /\ a # Garbage
  BY <1>3 DEF Messages, Kinds, AnswerKinds, Garbage
<1>5. kind = "exception" \/ (kind = "response" /\ m.code \in ClientRESPONSES)
  BY <1>2 DEF HandlerAnswer, ServerRESPONSES, ClientRESPONSES, AnswerKinds
<1>6. written' = Append(written, a) /\ down' = down \o Bytes(a) /\ up' = up
      /\ responders' = [responders EXCEPT ![k] = Cleanup(responders[k])] /\ server_up' = TRUE
  BY DEF HandlerAnswer
<1> HIDE DEF a
<1>7. Bytes(a) \in Seq(StreamBytes) /\ up' = <<>> /\ down' = Bytes(a)
  <2>1. Bytes(a) \in Seq(StreamBytes)
    BY <1>4, BytesTyping
  <2>2. down = <<>> /\ up = <<>>
    BY <1>1 DEF Serving
  <2> QED BY <1>6, <2>1, <2>2, ConcatEmptySeq
<1>8. /\ responders \in Seq(Responders) /\ Len(responders) \in Nat /\ DOMAIN responders = 1..Len(responders)
      /\ responders[k] \in Responders
  BY ElementOfSeq DEF TypeOK, ServerTypeOK
<1>9. /\ Cleanup(responders[k]) \in Responders /\ ~Cleanup(responders[k]).attached
      /\ \A f \in {"gotRequest", "request", "header", "fcode", "buffer"} :
             Cleanup(responders[k])[f] = responders[k][f]
  BY <1>8 DEF Cleanup, Responders
<1>10. /\ responders' \in Seq(Responders) /\ Len(responders') = Len(responders) /\ DOMAIN responders' = DOMAIN responders
       /\ responders'[k] = Cleanup(responders[k])
       /\ \A i \in DOMAIN responders : i # k => responders'[i] = responders[i]
  BY <1>6, <1>8, <1>9, ExceptSeq
<1>11. TypeOK'
  <2>1. written' \in Seq(Messages)
    BY <1>4, <1>6, AppendProperties DEF TypeOK, StreamTypeOK
  <2>2. StreamTypeOK'
    BY <1>7, <2>1, EmptySeq DEF StreamTypeOK
  <2> QED BY <1>6, <1>10, <2>2 DEF TypeOK, ClientTypeOK, ServerTypeOK
<1>12. Aligned'
  <2>1. \A i \in DOMAIN responders' :
            Garbage \notin {responders'[i].header, responders'[i].fcode, responders'[i].request}
    BY <1>9, <1>10 DEF Aligned
  <2> QED BY <2>1 DEF Aligned
<1>13. Len(responders) # k
  <2>1. \A x \in Nat : x # x - 1
    OBVIOUS
  <2> QED BY <1>1, <1>8, <2>1, Zenon
<1>14. ServerListens(FreshReader)'
  BY <1>1, <1>10, <1>13 DEF Serving, ServerListens
<1>15. NoneWaits'
  BY <1>1, <1>9, <1>10 DEF NoneWaits, Serving, OneWaits
<1> QED BY <1>1, <1>4, <1>5, <1>6, <1>7, <1>11, <1>12, <1>14, <1>15, AnswerStep DEF Serving

(* The code of an answer is one that requests are made with. *)
LEMMA CodeIsOne ==
    ASSUME TypeOK, peer = "gateway", NEW m \in Messages, NEW kind \in AnswerKinds
    PROVE  CodeOf(m, kind) \in FunctionCodes
<1>1. 3 \in FunctionCodes
  BY PeersAssumption DEF TypeOK
<1> QED BY <1>1 DEF CodeOf, Messages

LEMMA GatewayAnswerStep ==
    ASSUME IInv, NEW kind \in AnswerKinds, GatewayAnswer(kind)
    PROVE  IInv'
<1> USE DEF IInv
<1>1. peer = "gateway" /\ up # <<>>
  BY DEF GatewayAnswer, WholeRequest
<1>2. PICK m \in Messages : Asking(m, 0)
  BY <1>1 DEF Phase, Idle, Asking, Serving, Hearing
<1>3. up = Part(m, 0, LengthOf(m)) /\ LengthOf(m) \in Nat /\ LengthOf(m) > 0
  <2>1. LengthOf(m) = MBAP_LENGTH + 1 + BodyLength[m.kind] /\ MBAP_LENGTH \in Nat /\ BodyLength[m.kind] \in Nat
    BY LengthTyping
  <2> QED BY <1>2, <2>1 DEF Asking
<1>4. up[1].msg = m /\ Beyond(up, LengthOf(m)) = <<>>
  <2> DEFINE l == LengthOf(m)
  <2>1. l \in Nat /\ 0 <= l /\ 1 \in 1..(l - 0)
    BY <1>3
  <2>2. Part(m, 0, l)[1] = [msg |-> m, pos |-> 0 + 1]
    <3> HIDE DEF l
    <3>1. \A i \in 1..(l - 0) : Part(m, 0, l)[i] = [msg |-> m, pos |-> 0 + i]
      BY <2>1, PartTyping
    <3> QED BY <2>1, <3>1
  <2>3. Beyond(Part(m, 0, LengthOf(m)), LengthOf(m)) = Part(m, LengthOf(m), LengthOf(m))
    <3>1. 0 <= LengthOf(m) /\ 0 + LengthOf(m) <= LengthOf(m) /\ 0 + LengthOf(m) = LengthOf(m)
      BY <1>3
    <3>2. Beyond(Part(m, 0, LengthOf(m)), LengthOf(m)) = Part(m, 0 + LengthOf(m), LengthOf(m))
      BY <1>3, <3>1, PartBeyond
    <3> QED BY <3>1, <3>2
  <2>4. up[1].msg = m
    BY <1>3, <2>2
  <2>5. Beyond(up, LengthOf(m)) = <<>>
    BY <1>3, <2>3, PartEmpty
  <2> QED BY <2>4, <2>5
<1> DEFINE a == [of |-> m.of, kind |-> kind, code |-> CodeOf(m, kind)]
<1>5. /\ written' = Append(written, a) /\ down' = down \o Bytes(a) /\ up' = Beyond(up, LengthOf(m))
      /\ kind = "response" => m.code \in SlaveCodes
      /\ UNCHANGED <<stacks, server, peer>>
  BY <1>4 DEF GatewayAnswer
<1>6. /\ a \in Messages /\ a.of = m.of /\ a.kind = kind
      /\ kind = "response" => a.code = m.code
  <2>1. CodeOf(m, kind) \in FunctionCodes
    BY <1>1, CodeIsOne
  <2>2. kind = "response" => CodeOf(m, kind) = m.code
    BY DEF CodeOf
  <2> QED BY <2>1, <2>2 DEF Messages, Kinds, AnswerKinds
<1>7. kind = "exception" \/ (kind = "response" /\ m.code \in ClientRESPONSES)
  <2>1. m.code \in 1..6
    BY ClientAssumption DEF Messages, ClientREQUESTS
  <2>2. m.code \in SlaveCodes => m.code \in {3, 4, 6}
    BY <2>1 DEF SlaveCodes
  <2> QED BY <1>5, <2>2 DEF AnswerKinds, ClientRESPONSES
<1> HIDE DEF a
<1>8. Bytes(a) \in Seq(StreamBytes) /\ up' = <<>> /\ down' = Bytes(a)
  <2>1. Bytes(a) \in Seq(StreamBytes)
    BY <1>6, BytesTyping
  <2>2. down = <<>>
    BY <1>2 DEF Asking
  <2> QED BY <1>4, <1>5, <2>1, <2>2, ConcatEmptySeq
<1>9. responders' = responders /\ server_up' = TRUE /\ stacks' = stacks /\ peer' = peer
  BY <1>5 DEF server
<1>10. TypeOK'
  <2>1. written' \in Seq(Messages)
    BY <1>5, <1>6, AppendProperties DEF TypeOK, StreamTypeOK
  <2>2. StreamTypeOK'
    BY <1>8, <2>1, EmptySeq DEF StreamTypeOK
  <2> QED BY <1>9, <2>2 DEF TypeOK, ClientTypeOK, ServerTypeOK
<1>11. Aligned'
  BY <1>9 DEF Aligned
<1>12. ServerListens(FreshReader)' /\ NoneWaits'
  <2>1. ReaderAt(m, 0) = FreshReader
    BY ReaderAtTyping
  <2> QED BY <1>2, <1>9, <2>1 DEF Asking, ServerListens, NoneWaits
<1> QED BY <1>2, <1>5, <1>6, <1>7, <1>8, <1>9, <1>10, <1>11, <1>12, AnswerStep DEF Asking

LEMMA GatewayResetStep ==
    ASSUME IInv, GatewayReset
    PROVE  IInv'
<1> USE DEF IInv
<1>1. /\ peer = "gateway" /\ peer' = "closed" /\ up # <<>>
      /\ up' = up /\ down' = down /\ written' = written /\ stacks' = stacks
      /\ responders' = responders /\ server_up' = server_up
  BY DEF GatewayReset, WholeRequest, stream, server
<1>2. PICK m \in Messages : Asking(m, 0) /\ 0 \in 0..(LengthOf(m) - 1)
  BY <1>1 DEF Phase, Idle, Asking, Serving, Hearing
<1>3. TypeOK'
  BY <1>1 DEF TypeOK, StreamTypeOK, ClientTypeOK, ServerTypeOK
<1>4. AnswersInOrder' /\ AnswersToCalls' /\ HeardOwn' /\ NoLeak' /\ Aligned'
  BY <1>1 DEF AnswersInOrder, AnswersToCalls, HeardOwn, NoLeak, Aligned
<1>5. Asking(m, 0)'
  BY <1>1, <1>2 DEF Asking, LastPending, NoAnswerYet, ClientReads, ServerListens, NoneWaits
<1> QED BY <1>1, <1>2, <1>3, <1>4, <1>5 DEF Phase

-----------------------------------------------------------------------------
(* The client makes a call. *)

LEMMA NonePendingThen ==
    ASSUME TypeOK, Window <= 1, Cardinality(Pending) < Window
    PROVE  NonePending
<1>1. DOMAIN stacks = 1..Len(stacks) /\ Len(stacks) \in Nat
  BY DEF TypeOK, ClientTypeOK
<1>2. IsFiniteSet(1..Len(stacks))
  <2>1. \A x \in Nat : x \in Int
    OBVIOUS
  <2> QED BY <1>1, <2>1, FS_Interval
<1>3. Pending \in SUBSET (1..Len(stacks))
  BY <1>1 DEF Pending
<1>4. IsFiniteSet(Pending)
  BY <1>2, <1>3, FS_Subset
<1>5. Cardinality(Pending) \in Nat
  BY <1>4, FS_CardinalityType
<1>6. Cardinality(Pending) = 0
  BY <1>5, ClientAssumption
<1>7. Pending = {}
  BY <1>4, <1>6, FS_EmptySet
<1> QED BY <1>7 DEF Pending, NonePending

(* The stack of a call whose callback has been called with h. *)
CallStack(code, h) == [NewStack(code) EXCEPT !.heard = h]

LEMMA NewStackTyping ==
    ASSUME NEW code \in FunctionCodes, NEW h \in Seq(Readings \union {BadArgument})
    PROVE  LET s == CallStack(code, h)
           IN  /\ s \in Stacks
               /\ s.attached /\ s.asked = code /\ s.heard = h /\ ReaderOf(s) = FreshReader
               /\ Garbage \notin {s.header, s.fcode}
<1> DEFINE s == CallStack(code, h)
<1> DEFINE e == <<>>
<1>1. e \in Seq(StreamBytes) /\ NoMessage \in Readings
  BY EmptySeq DEF Readings
<1>2. NewStack(code) = [attached |-> TRUE, asked |-> code, heard |-> e,
                        buffer |-> e, header |-> NoMessage, fcode |-> NoMessage]
  BY DEF NewStack
<1>4. FreshReader = [buffer |-> e, header |-> NoMessage, fcode |-> NoMessage]
  BY DEF FreshReader
<1> HIDE DEF e
<1>3. s = [attached |-> TRUE, asked |-> code, heard |-> h,
           buffer |-> e, header |-> NoMessage, fcode |-> NoMessage]
  <2> DEFINE o == NewStack(code)
  <2>1. s = [o EXCEPT !.heard = h]
    BY DEF CallStack
  <2> HIDE DEF o
  <2>2. o = [attached |-> TRUE, asked |-> code, heard |-> e, buffer |-> e, header |-> NoMessage, fcode |-> NoMessage]
    BY <1>2 DEF o
  <2> QED BY ONLY <2>1, <2>2
<1> HIDE DEF s
<1>5. \A x \in Seq(StreamBytes), r \in Readings :
          [attached |-> TRUE, asked |-> code, heard |-> h, buffer |-> x, header |-> r, fcode |-> r] \in Stacks
  BY DEF Stacks
<1>6. s \in Stacks
  BY ONLY <1>1, <1>3, <1>5, Zenon
<1>7. s.attached /\ s.asked = code /\ s.heard = h /\ s.buffer = e /\ s.header = NoMessage /\ s.fcode = NoMessage
  BY ONLY <1>3
<1>8. NoMessage # Garbage
  BY DEF NoMessage, Garbage
<1>9. ReaderOf(s) = FreshReader /\ Garbage \notin {s.header, s.fcode}
  BY <1>4, <1>7, <1>8 DEF ReaderOf
<1> QED BY <1>6, <1>7, <1>9 DEF s

LEMMA RequestStep ==
    ASSUME IInv, Window <= 1, NEW code \in FunctionCodes, NEW fits \in BOOLEAN,
           request(code, fits), UNCHANGED <<server, peer>>
    PROVE  IInv'
<1> USE DEF IInv
<1> DEFINE h == IF fits THEN <<>> ELSE <<BadArgument>>
           s == CallStack(code, h)
           n == Len(stacks)
<1>0. PICK m : m = [of |-> n + 1, kind |-> "request", code |-> code]
  OBVIOUS
<1>1. NonePending
  BY NonePendingThen DEF request
<1>2. Idle
  BY <1>1 DEF NonePending, Phase, Asking, Serving, Hearing, LastPending
<1>3. h \in Seq(Readings \union {BadArgument}) /\ (fits <=> h = <<>>)
  <2>1. CASE fits
    BY <2>1, EmptySeq
  <2>2. CASE ~fits
    <3>1. BadArgument \in Readings \union {BadArgument}
      OBVIOUS
    <3>2. <<BadArgument>> \in Seq(Readings \union {BadArgument}) /\ <<BadArgument>> # <<>>
      <4> DEFINE S == Readings \union {BadArgument}
      <4> HIDE DEF S
      <4> QED BY <3>1 DEF S
    <3> QED BY <2>2, <3>2
  <2> QED BY <2>1, <2>2
<1>4. s \in Stacks /\ s.attached /\ s.asked = code /\ s.heard = h /\ ReaderOf(s) = FreshReader
      /\ Garbage \notin {s.header, s.fcode}
  <2>1. h \in Seq(Readings \union {BadArgument})
    BY <1>3
  <2> HIDE DEF h
  <2> QED BY <2>1, NewStackTyping
<1>5. /\ stacks' = Append(stacks, s) /\ up' = (IF fits THEN up \o Bytes(m) ELSE up)
      /\ UNCHANGED <<down, written, server, peer>>
  BY <1>0 DEF request, CallStack
<1>6. h = <<>> \/ h = <<BadArgument>>
  OBVIOUS
<1> HIDE DEF h, s
<1>7. stacks \in Seq(Stacks) /\ n \in Nat /\ DOMAIN stacks = 1..n
  BY DEF TypeOK, ClientTypeOK
<1>8. /\ stacks' \in Seq(Stacks) /\ Len(stacks') = n + 1 /\ DOMAIN stacks' = 1..(n + 1)
      /\ \A i \in DOMAIN stacks : i \in DOMAIN stacks' /\ stacks'[i] = stacks[i] /\ i # n + 1 /\ i < n + 1
      /\ stacks'[n + 1] = s /\ n + 1 \in DOMAIN stacks'
  BY <1>4, <1>5, <1>7, AppendProperties
<1>9. \A i \in DOMAIN stacks' : i \in DOMAIN stacks \/ i = n + 1
  BY <1>7, <1>8
<1>10. m \in Messages /\ m.of = n + 1 /\ m.kind = "request" /\ m.code = code
  BY <1>0, <1>7 DEF Messages, Kinds
<1>11. Bytes(m) \in Seq(StreamBytes) /\ up' = (IF fits THEN Bytes(m) ELSE <<>>)
  <2>1. Bytes(m) \in Seq(StreamBytes)
    BY <1>10, BytesTyping
  <2>2. <<>> \o Bytes(m) = Bytes(m)
    BY <2>1, ConcatEmptySeq
  <2> QED BY <1>2, <1>5, <2>1, <2>2 DEF Idle
<1>12. responders' = responders /\ server_up' = server_up /\ peer' = peer /\ down' = down /\ written' = written
  BY <1>5 DEF server
<1>13. TypeOK'
  <2>1. up' \in Seq(StreamBytes)
    BY <1>11, EmptySeq
  <2> QED BY <1>8, <1>12, <2>1 DEF TypeOK, StreamTypeOK, ClientTypeOK, ServerTypeOK
<1>14. AnswersInOrder'
  BY <1>12 DEF AnswersInOrder
<1>15. AnswersToCalls'
  BY <1>8, <1>12 DEF AnswersToCalls
<1>16. HeardOwn'
  BY <1>4, <1>6, <1>8, <1>9, <1>12 DEF HeardOwn
<1>17. NoLeak'
  <2> SUFFICES ASSUME NEW i \in DOMAIN stacks', NEW j \in DOMAIN stacks', i <= j,
                      NEW x \in DOMAIN stacks'[j].heard, stacks'[j].heard[x] # BadArgument
               PROVE  ~stacks'[i].attached
    BY DEF NoLeak
  <2>1. j # n + 1
    <3>1. DOMAIN s.heard \subseteq {1} /\ \A y \in DOMAIN s.heard : s.heard[y] = BadArgument
      <4>1. CASE h = <<>>
        BY <1>4, <4>1
      <4>2. CASE h = <<BadArgument>>
        BY <1>4, <4>2
      <4> QED BY <1>6, <4>1, <4>2
    <3> QED BY <1>8, <3>1
  <2>2. j \in DOMAIN stacks
    BY <1>9, <2>1
  <2>3. i # n + 1
    BY <1>7, <2>2
  <2>4. i \in DOMAIN stacks
    BY <1>9, <2>3
  <2> QED BY <1>8, <2>2, <2>4 DEF NoLeak
<1>18. Aligned'
  <2>1. \A i \in DOMAIN stacks' :
           /\ Garbage \notin {stacks'[i].header, stacks'[i].fcode}
           /\ \A k \in DOMAIN stacks'[i].heard : stacks'[i].heard[k] # Garbage
    <3> SUFFICES ASSUME NEW i \in DOMAIN stacks'
                 PROVE  /\ Garbage \notin {stacks'[i].header, stacks'[i].fcode}
                        /\ \A k \in DOMAIN stacks'[i].heard : stacks'[i].heard[k] # Garbage
      OBVIOUS
    <3>1. CASE i \in DOMAIN stacks
      BY <1>8, <3>1 DEF Aligned
    <3>2. CASE i = n + 1
      <4>1. \A y \in DOMAIN h : h[y] = BadArgument
        BY <1>6
      <4>2. BadArgument # Garbage
        BY DEF BadArgument, Garbage
      <4> QED BY <1>4, <1>8, <3>2, <4>1, <4>2
    <3> QED BY <1>9, <3>1, <3>2
  <2> QED BY <1>12, <2>1 DEF Aligned
<1>19. Phase'
  <2>1. ClientReads(FreshReader)'
    BY <1>2, <1>4, <1>8, <1>9 DEF Idle, ClientReads
  <2>2. ServerListens(FreshReader)' /\ NoneWaits' /\ down' = <<>>
    BY <1>2, <1>12 DEF Idle, ServerListens, NoneWaits
  <2>3. CASE fits
    <3>1. LastPending(m)'
      BY <1>1, <1>3, <1>4, <1>8, <1>9, <1>10, <2>3 DEF NonePending, LastPending
    <3>2. NoAnswerYet(m)'
      BY <1>7, <1>8, <1>10, <1>12 DEF AnswersToCalls, NoAnswerYet
    <3>3. LengthOf(m) \in Nat /\ LengthOf(m) > 0 /\ 0 \in 0..(LengthOf(m) - 1) /\ Part(m, 0, LengthOf(m)) = Bytes(m)
      <4>1. LengthOf(m) = MBAP_LENGTH + 1 + BodyLength[m.kind] /\ MBAP_LENGTH \in Nat /\ BodyLength[m.kind] \in Nat
        BY <1>10, LengthTyping
      <4>2. LengthOf(m) \in Nat /\ LengthOf(m) > 0
        BY <4>1
      <4> QED BY <1>10, <4>2, WholeIsBytes
    <3>4. ReaderAt(m, 0) = FreshReader
      BY <1>10, ReaderAtTyping
    <3>5. Asking(m, 0)'
      BY <1>10, <1>11, <2>1, <2>2, <2>3, <3>1, <3>2, <3>3, <3>4 DEF Asking
    <3> QED BY <1>10, <3>3, <3>5 DEF Phase
  <2>4. CASE ~fits
    <3>1. NonePending'
      BY <1>1, <1>3, <1>4, <1>8, <1>9, <2>4 DEF NonePending
    <3> QED BY <1>11, <2>1, <2>2, <2>4, <3>1 DEF Phase, Idle
  <2> QED BY <2>3, <2>4
<1> QED BY <1>12, <1>13, <1>14, <1>15, <1>16, <1>17, <1>18, <1>19

-----------------------------------------------------------------------------
(* A chunk of the answer arrives. *)

LEMMA PartFirst ==
    ASSUME NEW m, NEW a \in Nat, NEW b \in Nat, NEW n \in Nat, a + n <= b
    PROVE  First(Part(m, a, b), n) = Part(m, a, a + n)
<1> DEFINE S == [msg : {m}, pos : Nat]
           s == Part(m, a, b)
           u == Part(m, a, a + n)
<1>1. a <= b /\ a <= a + n /\ a + n \in Nat /\ (a + n) - a = n /\ b - a \in Nat /\ n <= b - a
  OBVIOUS
<1>2. s \in Seq(S) /\ Len(s) = b - a
  BY <1>1, PartTyping
<1>3. \A i \in 1..(b - a) : s[i] = [msg |-> m, pos |-> a + i]
  BY <1>1, PartTyping
<1>4. u \in Seq(S) /\ Len(u) = n
  BY <1>1, PartTyping
<1>5. \A i \in 1..n : u[i] = [msg |-> m, pos |-> a + i]
  BY <1>1, PartTyping
<1> HIDE DEF s, u, S
<1>6. \A i \in 1..n : s[i] \in S
  BY <1>1, <1>2, ElementOfSeq
<1> DEFINE f == SubSeq(s, 1, n)
<1>7. f \in Seq(S) /\ Len(f) = n /\ \A i \in 1..n : f[i] = s[i]
  <2>1. 1 \in Int /\ n \in Int
    OBVIOUS
  <2>2. /\ f \in Seq(S)
        /\ Len(f) = IF 1 <= n THEN n - 1 + 1 ELSE 0
        /\ \A i \in 1..(n - 1 + 1) : f[i] = s[1 + i - 1]
    BY <1>6, <2>1, SubSeqProperties
  <2> HIDE DEF f
  <2> QED BY <2>2
<1> HIDE DEF f
<1>8. \A i \in 1..n : f[i] = u[i]
  <2>1. \A i \in 1..n : i \in 1..(b - a)
    BY <1>1
  <2> QED BY <1>3, <1>5, <1>7, <2>1
<1>9. f = u
  BY <1>4, <1>7, <1>8, SeqEqual
<1> QED BY <1>9 DEF f, First, s, u

LEMMA LengthPositive ==
    ASSUME NEW m \in Messages
    PROVE  LengthOf(m) \in Nat /\ LengthOf(m) > 0
<1>1. LengthOf(m) = MBAP_LENGTH + 1 + BodyLength[m.kind] /\ MBAP_LENGTH \in Nat /\ BodyLength[m.kind] \in Nat
  BY LengthTyping
<1> QED BY <1>1

(* n bytes of what is left of a message after its first k. *)
LEMMA ChunkOf ==
    ASSUME NEW m \in Messages, NEW k \in 0..(LengthOf(m) - 1), NEW bytes, bytes = Part(m, k, LengthOf(m)),
           NEW n \in 1..Len(bytes)
    PROVE  /\ k \in Nat /\ k + n \in Nat /\ k <= k + n /\ k + n <= LengthOf(m) /\ k + n \in 0..LengthOf(m)
           /\ First(bytes, n) = Part(m, k, k + n)
           /\ Beyond(bytes, n) = Part(m, k + n, LengthOf(m))
           /\ Beyond(bytes, n) \in Seq(StreamBytes)
           /\ k + n = LengthOf(m) => Beyond(bytes, n) = <<>>
           /\ k + n # LengthOf(m) => k + n \in 0..(LengthOf(m) - 1)
<1> DEFINE L == LengthOf(m)
<1>1. L \in Nat /\ L > 0
  BY LengthPositive
<1> HIDE DEF L
<1>2. k \in 0..(L - 1) /\ bytes = Part(m, k, L)
  BY DEF L
<1>3. k \in Nat /\ k <= L
  BY <1>1, <1>2
<1>4. Len(bytes) = L - k
  BY <1>1, <1>2, <1>3, PartTyping
<1>5. n \in Nat /\ k + n <= L /\ k + n \in Nat /\ k <= k + n /\ k + n \in 0..L
  BY <1>1, <1>3, <1>4
<1>6. First(bytes, n) = Part(m, k, k + n)
  BY <1>1, <1>2, <1>3, <1>5, PartFirst
<1>7. Beyond(bytes, n) = Part(m, k + n, L)
  BY <1>1, <1>2, <1>3, <1>5, PartBeyond
<1>8. Part(m, k + n, L) \in Seq(StreamBytes)
  <2>1. Part(m, k + n, L) \in Seq([msg : {m}, pos : Nat])
    BY <1>1, <1>5, PartTyping
  <2>2. [msg : {m}, pos : Nat] \subseteq StreamBytes
    BY DEF StreamBytes
  <2> QED BY <2>1, <2>2, SeqMonotonic
<1>9. k + n = L => Part(m, k + n, L) = <<>>
  BY <1>1, PartEmpty
<1>10. k + n # L => k + n \in 0..(L - 1)
  BY <1>1, <1>5
<1> QED BY <1>3, <1>5, <1>6, <1>7, <1>8, <1>9, <1>10 DEF L

(* What becomes of each stack of the client. *)
LEMMA ClientDataEffect ==
    ASSUME TypeOK, NEW m \in Messages, NEW k \in 0..(LengthOf(m) - 1), Hearing(m, k),
           NEW n \in 1..Len(down), ClientData(n)
    PROVE  /\ stacks' \in Seq(Stacks) /\ Len(stacks') = Len(stacks) /\ DOMAIN stacks' = DOMAIN stacks
           /\ \A i \in DOMAIN stacks :
                  /\ stacks'[i].asked = stacks[i].asked
                  /\ ~stacks[i].attached => stacks'[i] = stacks[i]
                  /\ stacks[i].attached /\ k + n # LengthOf(m) =>
                         /\ stacks'[i].attached /\ stacks'[i].heard = stacks[i].heard
                         /\ ReaderOf(stacks'[i]) = ReaderAt(m, k + n)
                         /\ Garbage \notin {stacks'[i].header, stacks'[i].fcode}
                  /\ stacks[i].attached /\ k + n = LengthOf(m) =>
                         /\ ~stacks'[i].attached /\ stacks'[i].heard = Append(stacks[i].heard, m)
                         /\ stacks'[i].header = m /\ stacks'[i].fcode = m
<1> DEFINE j == k + n
           L == LengthOf(m)
           read == [i \in DOMAIN stacks |->
                      IF stacks[i].attached THEN onData(stacks[i], First(down, n)) ELSE stacks[i]]
           becomes(i) == IF read[i].attached /\ Complete(read[i]) THEN hear(read[i]) ELSE read[i]
<1>1. /\ k \in Nat /\ j \in Nat /\ k <= j /\ j <= L /\ j \in 0..L
      /\ First(down, n) = Part(m, k, j)
  BY ChunkOf DEF Hearing
<1>2. stacks \in Seq(Stacks) /\ Len(stacks) \in Nat /\ DOMAIN stacks = 1..Len(stacks)
  BY DEF TypeOK, ClientTypeOK
<1>3. stacks' = [i \in DOMAIN stacks |-> becomes(i)]
  BY DEF ClientData
<1>4. \A i \in DOMAIN stacks : read[i] = IF stacks[i].attached THEN onData(stacks[i], Part(m, k, j)) ELSE stacks[i]
  BY <1>1
<1> HIDE DEF read, j, L
<1>5. ASSUME NEW i \in DOMAIN stacks
      PROVE  /\ becomes(i) \in Stacks /\ becomes(i).asked = stacks[i].asked
             /\ ~stacks[i].attached => becomes(i) = stacks[i]
             /\ stacks[i].attached /\ j # L =>
                    /\ becomes(i).attached /\ becomes(i).heard = stacks[i].heard
                    /\ ReaderOf(becomes(i)) = ReaderAt(m, j)
                    /\ Garbage \notin {becomes(i).header, becomes(i).fcode}
             /\ stacks[i].attached /\ j = L =>
                    /\ ~becomes(i).attached /\ becomes(i).heard = Append(stacks[i].heard, m)
                    /\ becomes(i).header = m /\ becomes(i).fcode = m
  <2>1. stacks[i] \in Stacks
    BY <1>2, ElementOfSeq
  <2>2. CASE ~stacks[i].attached
    <3>1. read[i] = stacks[i]
      BY <1>4, <2>2
    <3> QED BY <2>1, <2>2, <3>1
  <2>3. CASE stacks[i].attached
    <3>1. read[i] = onData(stacks[i], Part(m, k, j))
      BY <1>4, <2>3
    <3>2. ReaderOf(stacks[i]) = ReaderAt(m, k)
      BY <2>3 DEF Hearing, ClientReads
    <3>3. /\ read[i] \in Stacks
          /\ read[i].attached = stacks[i].attached /\ read[i].asked = stacks[i].asked
          /\ read[i].heard = stacks[i].heard /\ ReaderOf(read[i]) = ReaderAt(m, j)
      BY <1>1, <2>1, <3>1, <3>2, ClientChunk DEF L
    <3>4. /\ Garbage \notin {read[i].header, read[i].fcode}
          /\ Complete(read[i]) <=> j = L
      <4>1. j \in 0..LengthOf(m)
        BY <1>1 DEF L
      <4>2. read[i].header # Garbage /\ read[i].fcode # Garbage /\ (Complete(read[i]) <=> j = LengthOf(m))
        BY <3>3, <4>1, ReaderStatus
      <4> QED BY <4>2 DEF L
    <3>5. CASE j # L
      <4>1. becomes(i) = read[i]
        BY <3>4, <3>5
      <4> HIDE DEF becomes
      <4> QED BY <2>3, <3>3, <3>4, <3>5, <4>1
    <3>6. CASE j = L
      <4>1. becomes(i) = hear(read[i])
        BY <2>3, <3>3, <3>4, <3>6
      <4>2. ReaderOf(read[i]) = ReaderAt(m, LengthOf(m))
        BY <3>3, <3>6 DEF L
      <4>3. m.kind = "exception" \/ m.code \in ClientRESPONSES
        BY DEF Hearing
      <4>4. /\ hear(read[i]) \in Stacks
            /\ ~hear(read[i]).attached /\ hear(read[i]).asked = read[i].asked
            /\ hear(read[i]).heard = Append(read[i].heard, m)
            /\ hear(read[i]).header = m /\ hear(read[i]).fcode = m
        BY <3>3, <4>2, <4>3, HearLast
      <4> HIDE DEF becomes
      <4> QED BY <2>3, <3>3, <3>6, <4>1, <4>4
    <3> QED BY <3>5, <3>6
  <2> QED BY <2>2, <2>3
<1> HIDE DEF becomes
<1>6. stacks' \in Seq(Stacks) /\ Len(stacks') = Len(stacks) /\ DOMAIN stacks' = DOMAIN stacks
      /\ \A i \in DOMAIN stacks : stacks'[i] = becomes(i)
  <2>1. \A i \in 1..Len(stacks) : becomes(i) \in Stacks
    BY <1>2, <1>5
  <2>2. stacks' = [i \in 1..Len(stacks) |-> becomes(i)]
    BY <1>2, <1>3
  <2> QED BY <1>2, <2>1, <2>2
<1>7. \A i \in DOMAIN stacks : stacks'[i] = becomes(i)
  BY <1>6
<1> QED BY <1>5, <1>6, <1>7 DEF j, L

LEMMA AppendOne ==
    ASSUME NEW S, NEW h \in Seq(S), NEW x \in S
    PROVE  /\ h = <<>> => Append(h, x) = <<x>>
           /\ \A y : h = <<y>> => Append(h, x) = <<y, x>>
           /\ Append(h, x) # <<>>
           /\ \A i \in DOMAIN Append(h, x) : (i \in DOMAIN h /\ Append(h, x)[i] = h[i]) \/ Append(h, x)[i] = x
<1>1. Append(h, x) \in Seq(S) /\ Len(Append(h, x)) = Len(h) + 1 /\ Len(h) \in Nat
      /\ DOMAIN Append(h, x) = 1..(Len(h) + 1) /\ DOMAIN h = 1..Len(h)
  OBVIOUS
<1>2. \A i \in 1..Len(h) : Append(h, x)[i] = h[i]
  OBVIOUS
<1>3. Append(h, x)[Len(h) + 1] = x
  OBVIOUS
<1>4. h = <<>> => Append(h, x) = <<x>>
  OBVIOUS
<1>5. ASSUME NEW y, h = <<y>> PROVE Append(h, x) = <<y, x>>
  <2>1. Len(h) = 1 /\ h[1] = y
    BY <1>5
  <2>2. y \in S
    BY <2>1, ElementOfSeq
  <2> DEFINE p == <<y, x>>
             q == Append(h, x)
  <2>3. p \in Seq(S) /\ Len(p) = 2 /\ p[1] = y /\ p[2] = x
    BY <2>2
  <2>4. q \in Seq(S) /\ Len(q) = 2 /\ q[1] = y /\ q[2] = x
    BY <1>1, <1>2, <1>3, <2>1
  <2> HIDE DEF p, q
  <2>5. \A i \in 1..2 : i = 1 \/ i = 2
    OBVIOUS
  <2>6. q = p
    BY <2>3, <2>4, <2>5, SeqEqual
  <2> QED BY <2>6 DEF p, q
<1>6. Append(h, x) # <<>>
  BY AppendProperties
<1>7. \A i \in 1..(Len(h) + 1) : i \in 1..Len(h) \/ i = Len(h) + 1
  BY <1>1
<1> QED BY <1>1, <1>2, <1>3, <1>4, <1>5, <1>6, <1>7

LEMMA ClientDataStep ==
    ASSUME IInv, NEW n \in 1..Len(down), ClientData(n), UNCHANGED <<server, peer>>
    PROVE  IInv'
<1> USE DEF IInv
<1>1. down # <<>>
  BY EmptySeq DEF TypeOK, StreamTypeOK
<1>0. PICK m \in Messages : \E k \in 0..(LengthOf(m) - 1) : Hearing(m, k)
  BY <1>1 DEF Phase, Idle, Asking, Serving
<1>2. PICK k \in 0..(LengthOf(m) - 1) : Hearing(m, k)
  BY <1>0
<1> DEFINE j == k + n
           L == LengthOf(m)
<1>3. /\ k \in Nat /\ j \in Nat
      /\ Beyond(down, n) = Part(m, j, L) /\ Beyond(down, n) \in Seq(StreamBytes)
      /\ j = L => Beyond(down, n) = <<>>
      /\ j # L => j \in 0..(L - 1)
  BY <1>2, ChunkOf DEF Hearing
<1>4. /\ down' = Beyond(down, n) /\ up' = up /\ written' = written
      /\ responders' = responders /\ server_up' = server_up /\ peer' = peer
  BY DEF ClientData, server
<1>5. stacks' \in Seq(Stacks) /\ Len(stacks') = Len(stacks) /\ DOMAIN stacks' = DOMAIN stacks
  BY <1>2, ClientDataEffect
<1>6. \A i \in DOMAIN stacks :
          /\ stacks'[i].asked = stacks[i].asked
          /\ ~stacks[i].attached => stacks'[i] = stacks[i]
          /\ stacks[i].attached /\ j # L =>
                 /\ stacks'[i].attached /\ stacks'[i].heard = stacks[i].heard
                 /\ ReaderOf(stacks'[i]) = ReaderAt(m, j)
                 /\ Garbage \notin {stacks'[i].header, stacks'[i].fcode}
          /\ stacks[i].attached /\ j = L =>
                 /\ ~stacks'[i].attached /\ stacks'[i].heard = Append(stacks[i].heard, m)
                 /\ stacks'[i].header = m /\ stacks'[i].fcode = m
  BY <1>2, ClientDataEffect
<1> HIDE DEF j, L
<1>7. m \in Readings \union {BadArgument} /\ m # Garbage /\ m # BadArgument
  <2>1. m.kind # "bad argument" /\ BadArgument.kind = "bad argument"
    BY DEF Messages, Kinds, AnswerKinds, BadArgument
  <2>2. m # BadArgument
    BY <2>1
  <2> QED BY <2>2, LengthTyping DEF Readings
<1>8. \A i \in DOMAIN stacks : stacks[i].heard \in Seq(Readings \union {BadArgument})
  <2> SUFFICES ASSUME NEW i \in DOMAIN stacks PROVE stacks[i].heard \in Seq(Readings \union {BadArgument})
    OBVIOUS
  <2>1. stacks[i] \in Stacks
    BY ElementOfSeq DEF TypeOK, ClientTypeOK
  <2> QED BY <2>1 DEF Stacks
<1>9. ASSUME NEW i \in DOMAIN stacks
      PROVE  LET h == stacks[i].heard IN
             /\ h = <<>> => Append(h, m) = <<m>>
             /\ \A y : h = <<y>> => Append(h, m) = <<y, m>>
             /\ Append(h, m) # <<>>
             /\ \A x \in DOMAIN Append(h, m) : (x \in DOMAIN h /\ Append(h, m)[x] = h[x]) \/ Append(h, m)[x] = m
  <2> DEFINE S == Readings \union {BadArgument}
  <2>1. stacks[i].heard \in Seq(S) /\ m \in S
    BY <1>7, <1>8
  <2> HIDE DEF S
  <2> QED BY <2>1, AppendOne
<1>10. TypeOK'
  BY <1>3, <1>4, <1>5 DEF TypeOK, StreamTypeOK, ClientTypeOK, ServerTypeOK
<1>11. AnswersInOrder' /\ AnswersToCalls'
  BY <1>4, <1>5 DEF AnswersInOrder, AnswersToCalls
<1>12. written[Len(written)] = m /\ Len(written) \in DOMAIN written /\ m.of \in DOMAIN stacks
       /\ stacks[m.of].attached /\ stacks[m.of].heard = <<>>
       /\ \A i \in DOMAIN stacks : i # m.of => stacks[i].heard # <<>>
  BY <1>2 DEF Hearing, LastPending
<1>13. HeardOwn'
  <2> SUFFICES ASSUME NEW i \in DOMAIN stacks
               PROVE  \/ stacks'[i].heard = <<>>
                      \/ stacks'[i].heard = <<BadArgument>>
                      \/ /\ ~stacks'[i].attached
                         /\ \E x \in DOMAIN written :
                                \/ written[x].of = i /\ stacks'[i].heard = <<written[x]>>
                                \/ stacks'[i].heard = <<BadArgument, written[x]>>
    BY <1>4, <1>5 DEF HeardOwn
  <2>1. CASE stacks[i].attached /\ j = L
    <3>1. ~stacks'[i].attached /\ stacks'[i].heard = Append(stacks[i].heard, m)
      BY <1>6, <2>1
    <3>2. CASE stacks[i].heard = <<>>
      <4>1. i = m.of
        BY <1>12, <3>2
      <4>2. stacks'[i].heard = <<m>>
        BY <1>9, <3>1, <3>2
      <4> QED BY <1>12, <3>1, <4>1, <4>2
    <3>3. CASE stacks[i].heard = <<BadArgument>>
      <4>1. stacks'[i].heard = <<BadArgument, m>>
        BY <1>9, <3>1, <3>3
      <4> QED BY <1>12, <3>1, <4>1
    <3> QED BY <2>1, <3>2, <3>3 DEF HeardOwn
  <2>2. CASE ~stacks[i].attached
    BY <1>6, <2>2 DEF HeardOwn
  <2>3. CASE stacks[i].attached /\ j # L
    BY <1>6, <2>3 DEF HeardOwn
  <2> QED BY <2>1, <2>2, <2>3
<1>14. NoLeak'
  <2> SUFFICES ASSUME NEW i \in DOMAIN stacks, NEW o \in DOMAIN stacks, i <= o,
                      NEW x \in DOMAIN stacks'[o].heard, stacks'[o].heard[x] # BadArgument
               PROVE  ~stacks'[i].attached
    BY <1>5 DEF NoLeak
  <2>1. CASE j = L
    BY <1>6, <2>1
  <2>2. CASE j # L
    <3>1. stacks'[o].heard = stacks[o].heard
      BY <1>6, <2>2
    <3>2. ~stacks[i].attached
      BY <3>1 DEF NoLeak
    <3> QED BY <1>6, <3>2
  <2> QED BY <2>1, <2>2
<1>15. Aligned'
  <2>1. ASSUME NEW i \in DOMAIN stacks
        PROVE  /\ Garbage \notin {stacks'[i].header, stacks'[i].fcode}
               /\ \A x \in DOMAIN stacks'[i].heard : stacks'[i].heard[x] # Garbage
    <3>1. CASE ~stacks[i].attached
      BY <1>6, <3>1 DEF Aligned
    <3>2. CASE stacks[i].attached /\ j # L
      BY <1>6, <3>2 DEF Aligned
    <3>3. CASE stacks[i].attached /\ j = L
      <4>1. \A x \in DOMAIN stacks[i].heard : stacks[i].heard[x] # Garbage
        BY DEF Aligned
      <4>2. /\ stacks'[i].heard = Append(stacks[i].heard, m)
            /\ stacks'[i].header = m /\ stacks'[i].fcode = m
        BY <1>6, <3>3
      <4> QED BY <1>7, <1>9, <4>1, <4>2
    <3> QED BY <3>1, <3>2, <3>3
  <2> QED BY <1>4, <1>5, <2>1 DEF Aligned
<1>16. ServerListens(FreshReader)' /\ NoneWaits' /\ up' = <<>>
  BY <1>2, <1>4 DEF Hearing, ServerListens, NoneWaits
<1>17. Phase'
  <2>1. CASE j # L
    <3>1. ClientReads(ReaderAt(m, j))'
      BY <1>5, <1>6, <2>1 DEF ClientReads
    <3>2. LastPending(m)'
      BY <1>2, <1>5, <1>6, <2>1 DEF Hearing, LastPending
    <3>3. Hearing(m, j)'
      BY <1>2, <1>3, <1>4, <1>16, <3>1, <3>2 DEF Hearing, L
    <3>4. j \in 0..(LengthOf(m) - 1)
      BY <1>3, <2>1 DEF L
    <3>5. \E x \in 0..(LengthOf(m) - 1) : Hearing(m, x)'
      BY <3>3, <3>4
    <3> QED BY <3>5 DEF Phase
  <2>2. CASE j = L
    <3>1. ClientReads(FreshReader)'
      BY <1>5, <1>6, <2>2 DEF ClientReads
    <3>2. NonePending'
      <4> SUFFICES ASSUME NEW i \in DOMAIN stacks PROVE stacks'[i].heard # <<>>
        BY <1>5 DEF NonePending
      <4>1. CASE stacks[i].attached
        BY <1>6, <1>9, <2>2, <4>1
      <4>2. CASE ~stacks[i].attached
        BY <1>6, <1>12, <4>2
      <4> QED BY <4>1, <4>2
    <3>3. down' = <<>>
      BY <1>3, <1>4, <2>2
    <3> QED BY <1>16, <3>1, <3>2, <3>3 DEF Phase, Idle
  <2> QED BY <2>1, <2>2
<1> QED BY <1>4, <1>10, <1>11, <1>13, <1>14, <1>15, <1>17

-----------------------------------------------------------------------------
(* A chunk of the request arrives at the server of the library. *)

LEMMA FlattenOne ==
    ASSUME NEW S, NEW x \in Seq(S)
    PROVE  FlattenSeq(<<x>>) = x
<1> DEFINE seqs == <<x>>
<1>1. Len(seqs) = 1 /\ seqs[1] = x
  OBVIOUS
<1>2. \A i \in 1..(1 - 1) : seqs[i] = <<>>
  OBVIOUS
<1>3. 1 \in Nat \ {0}
  OBVIOUS
<1> HIDE DEF seqs
<1>4. FlattenSeq(seqs) = seqs[Len(seqs)]
  BY <1>1, <1>2, <1>3, FlattenLast
<1> QED BY <1>1, <1>4 DEF seqs

(* The answers in one chunk: that to the request of the last stack, or none. *)
LEMMA FlattenAnswers ==
    ASSUME NEW l \in Nat \ {0}, NEW last \in Seq(Messages),
           NEW seqs, seqs = [i \in 1..l |-> IF i = l THEN last ELSE <<>>]
    PROVE  FlattenSeq(seqs) = last
<1>1. \A i \in 1..l : seqs[i] = IF i = l THEN last ELSE <<>>
  OBVIOUS
<1>2. l \in 1..l /\ \A i \in 1..(l - 1) : i \in 1..l /\ i # l
  OBVIOUS
<1>3. seqs[l] = last /\ \A i \in 1..(l - 1) : seqs[i] = <<>>
  BY <1>1, <1>2
<1>4. Len(seqs) = l
  <2>1. \A i \in 1..l : (IF i = l THEN last ELSE <<>>) \in Seq(Messages)
    BY EmptySeq
  <2> DEFINE e(i) == IF i = l THEN last ELSE <<>>
  <2>2. seqs = [i \in 1..l |-> e(i)] /\ \A i \in 1..l : e(i) \in Seq(Messages)
    BY <2>1
  <2> HIDE DEF e
  <2> QED BY <2>2
<1>5. Len(seqs) \in Nat \ {0} /\ seqs[Len(seqs)] \in Seq(Messages)
      /\ \A i \in 1..(Len(seqs) - 1) : seqs[i] = <<>>
  BY <1>3, <1>4
<1>6. FlattenSeq(seqs) = seqs[Len(seqs)]
  BY <1>5, FlattenLast
<1> QED BY <1>3, <1>4, <1>6

LEMMA Copies == ASSUME NEW x PROVE [i \in 1..0 |-> x] = <<>> /\ [i \in 1..1 |-> x] = <<x>>
<1>1. 1..0 = {} /\ 1..1 = {1}
  OBVIOUS
<1>2. [i \in 1..0 |-> x] = <<>>
  BY <1>1
<1> DEFINE p == [i \in 1..1 |-> x]
           q == <<x>>
<1>3. p \in Seq({x}) /\ Len(p) = 1 /\ p[1] = x
  OBVIOUS
<1>4. q \in Seq({x}) /\ Len(q) = 1 /\ q[1] = x
  OBVIOUS
<1> HIDE DEF p, q
<1>5. p = q
  <2>1. \A i \in 1..Len(p) : p[i] = q[i]
    BY <1>3, <1>4
  <2> QED BY <1>3, <1>4, <2>1, SeqEqual
<1> QED BY <1>2, <1>5 DEF p, q

LEMMA FlattenEmpty == FlattenSeq(<<>>) = <<>>
  BY DEF FlattenSeq

(* j bytes of request m have been read, t is what the last stack, the l-th,  *)
(* makes of them, and a the exception that answers the request.              *)
ServerEffect(m, j, l, t, a) ==
    /\ t.request = responders[l].request
    /\ j # LengthOf(m) =>
           /\ responders' = [i \in 1..l |-> IF i = l THEN t ELSE responders[i]]
           /\ written' = written /\ down' = <<>>
    /\ j = LengthOf(m) /\ m.code \in Handlers =>
           /\ responders' = [i \in 1..l |-> IF i = l THEN parseRequest(t) ELSE responders[i]]
                              \o <<NewResponder>>
           /\ written' = written /\ down' = <<>>
    /\ j = LengthOf(m) /\ m.code \notin Handlers =>
           /\ responders' = [i \in 1..l |-> IF i = l THEN Cleanup(parseRequest(t)) ELSE responders[i]]
                              \o <<NewResponder>>
           /\ written' = Append(written, a) /\ down' = Bytes(a)

LEMMA ServerDataEffect ==
    ASSUME TypeOK, NEW m \in Messages, NEW k \in 0..(LengthOf(m) - 1), Asking(m, k),
           NEW n \in 1..Len(up), ServerData(n),
           NEW l, l = Len(responders), NEW t, t = onData(responders[l], Part(m, k, k + n)),
           NEW a, a = [of |-> m.of, kind |-> "exception", code |-> m.code]
    PROVE  /\ t \in Responders /\ t.attached /\ t.gotRequest = FALSE
           /\ ReaderOf(t) = ReaderAt(m, k + n)
           /\ server_up' = TRUE
           /\ ServerEffect(m, k + n, l, t, a)
<1> DEFINE j == k + n
           L == LengthOf(m)
           read    == [i \in DOMAIN responders |->
                        IF i \in Attached THEN onData(responders[i], First(up, n))
                                          ELSE responders[i]]
           done    == {i \in Attached : Complete(read[i])}
           unknown == {i \in done : read[i].fcode.code \notin ServerREQUESTS}
           refused == {i \in done \ unknown : read[i].fcode.code \notin Handlers}
           parsed  == [i \in DOMAIN read |-> IF i \in done THEN parseRequest(read[i]) ELSE read[i]]
           answers == [i \in DOMAIN read |->
                        IF i \in refused THEN <<Answer(parsed[i], "exception")>> ELSE <<>>]
           illegal == FlattenSeq(answers)
<1>1. /\ k \in Nat /\ j \in Nat /\ k <= j /\ j <= L /\ j \in 0..L
      /\ First(up, n) = Part(m, k, j)
  BY ChunkOf DEF Asking
<1>2. responders \in Seq(Responders) /\ Len(responders) \in Nat /\ DOMAIN responders = 1..Len(responders)
  BY DEF TypeOK, ServerTypeOK
<1>3. l \in DOMAIN responders /\ l \in Nat \ {0} /\ DOMAIN responders = 1..l
      /\ responders[l] \in Responders /\ Attached = {l} /\ responders[l].attached
      /\ responders[l].gotRequest = FALSE /\ ReaderOf(responders[l]) = ReaderAt(m, k)
  <2>1. l \in DOMAIN responders
    BY DEF Asking, ServerListens
  <2>2. Attached = {l}
    BY DEF Asking, ServerListens, NoneWaits, Attached
  <2>3. responders[l] \in Responders
    BY <1>2, <2>1, ElementOfSeq
  <2>4. l \in Nat \ {0} /\ DOMAIN responders = 1..l
    BY <1>2, <2>1
  <2> QED BY <2>1, <2>2, <2>3, <2>4 DEF Asking, ServerListens
<1>4. /\ t \in Responders /\ t.attached /\ t.gotRequest = FALSE /\ t.request = responders[l].request
      /\ ReaderOf(t) = ReaderAt(m, j)
  <2>1. responders[l] \in Responders /\ ReaderOf(responders[l]) = ReaderAt(m, k)
    BY <1>3
  <2>2. t = onData(responders[l], Part(m, k, j))
    OBVIOUS
  <2> HIDE DEF j
  <2>3. /\ t \in Responders
        /\ t.attached = responders[l].attached /\ t.gotRequest = responders[l].gotRequest
        /\ t.request = responders[l].request
        /\ ReaderOf(t) = ReaderAt(m, j)
    BY <1>1, <2>1, <2>2, ServerChunk
  <2> QED BY <1>3, <2>3
<1>5. Complete(t) <=> j = L
  <2> HIDE DEF j
  <2> QED BY <1>1, <1>4, ReaderStatus
<1>6. DOMAIN read = 1..l /\ read[l] = t /\ \A i \in 1..l : i # l => read[i] = responders[i]
  <2>1. onData(responders[l], First(up, n)) = t
    BY <1>1
  <2> QED BY <1>3, <2>1
<1>7. /\ up' = Beyond(up, n)
      /\ responders' = [i \in DOMAIN read |-> IF i \in refused THEN Cleanup(parsed[i]) ELSE parsed[i]]
                         \o [i \in 1..Cardinality(done \ unknown) |-> NewResponder]
      /\ server_up' = (unknown = {})
      /\ written' = written \o illegal
      /\ down' = down \o FlattenSeq([i \in DOMAIN illegal |-> Bytes(illegal[i])])
  BY DEF ServerData
<1>8. written \in Seq(Messages) /\ down = <<>>
  BY DEF TypeOK, StreamTypeOK, Asking
<1> HIDE DEF read
<1>9. CASE j # L
  <2>1. done = {}
    BY <1>3, <1>5, <1>6, <1>9
  <2>2. unknown = {} /\ refused = {} /\ done \ unknown = {}
    BY <2>1
  <2>3. parsed = read
    <3>1. read = [i \in 1..l |-> read[i]]
      BY <1>3 DEF read
    <3> HIDE DEF done
    <3> QED BY <1>6, <2>1, <3>1
  <2> HIDE DEF done, unknown, refused, parsed
  <2>4. read = [i \in 1..l |-> IF i = l THEN t ELSE responders[i]]
    <3>1. read = [i \in 1..l |-> read[i]]
      BY <1>3 DEF read
    <3> QED BY <1>6, <3>1
  <2>5. [i \in DOMAIN read |-> IF i \in refused THEN Cleanup(parsed[i]) ELSE parsed[i]] = read
    <3>1. read = [i \in 1..l |-> read[i]]
      BY <1>3 DEF read
    <3> QED BY <1>6, <2>2, <2>3, <3>1
  <2>6. [i \in 1..Cardinality(done \ unknown) |-> NewResponder] = <<>>
    <3>1. Cardinality(done \ unknown) = 0
      BY <2>2, FS_EmptySet
    <3> QED BY <3>1, Copies, Zenon
  <2>7. read \in Seq(Responders)
    <3>1. \A i \in 1..l : (IF i = l THEN t ELSE responders[i]) \in Responders
      BY <1>2, <1>3, <1>4, ElementOfSeq
    <3> DEFINE e(i) == IF i = l THEN t ELSE responders[i]
    <3>2. read = [i \in 1..l |-> e(i)] /\ \A i \in 1..l : e(i) \in Responders
      BY <2>4, <3>1
    <3> HIDE DEF e
    <3> QED BY <1>3, <3>2
  <2>8. responders' = read
    BY <1>7, <2>5, <2>6, <2>7, ConcatEmptySeq
  <2>9. illegal = <<>>
    <3> DEFINE f(i) == <<Answer(parsed[i], "exception")>>
    <3>1. answers = [i \in 1..l |-> IF i \in refused THEN f(i) ELSE <<>>]
      BY <1>6
    <3> HIDE DEF f, answers
    <3>2. answers = [i \in 1..l |-> IF i = l THEN <<>> ELSE <<>>]
      BY <2>2, <3>1
    <3>3. <<>> \in Seq(Messages)
      BY EmptySeq
    <3> QED BY <1>3, <3>2, <3>3, FlattenAnswers
  <2>10. written' = written /\ down' = <<>>
    <3>1. [i \in DOMAIN illegal |-> Bytes(illegal[i])] = <<>>
      BY <2>9
    <3>2. <<>> \o <<>> = <<>>
      BY EmptySeq, ConcatEmptySeq
    <3> HIDE DEF illegal
    <3> QED BY <1>7, <1>8, <2>9, <3>1, <3>2, ConcatEmptySeq, FlattenEmpty
  <2>11. server_up' = TRUE
    BY <1>7, <2>2
  <2> HIDE DEF illegal
  <2> QED BY <1>4, <1>9, <2>4, <2>8, <2>10, <2>11 DEF ServerEffect
<1>10. CASE j = L
  <2> DEFINE r == parseRequest(t)
  <2>1. /\ r \in Responders /\ Cleanup(r) \in Responders /\ r.request = m
        /\ t.fcode = m /\ m.code \in ServerREQUESTS
    <3>1. ReaderOf(t) = ReaderAt(m, LengthOf(m))
      BY <1>4, <1>10
    <3> HIDE DEF j
    <3> QED BY <1>4, <3>1, RequestParsed
  <2>2. done = {l}
    BY <1>3, <1>5, <1>6, <1>10
  <2>3. unknown = {}
    <3> HIDE DEF done
    <3> QED BY <1>6, <2>1, <2>2
  <2>4. refused = IF m.code \in Handlers THEN {} ELSE {l}
    <3> HIDE DEF done, unknown
    <3> QED BY <1>6, <2>1, <2>2, <2>3
  <2> HIDE DEF r
  <2>5. parsed = [i \in 1..l |-> IF i = l THEN r ELSE responders[i]]
    <3>1. parsed = [i \in 1..l |-> IF i \in done THEN parseRequest(read[i]) ELSE read[i]]
      BY <1>6
    <3> HIDE DEF done, parsed
    <3> QED BY <1>6, <2>2, <3>1 DEF r
  <2> HIDE DEF done, unknown, refused, parsed
  <2>6. [i \in 1..Cardinality(done \ unknown) |-> NewResponder] = <<NewResponder>>
    <3>1. Cardinality(done \ unknown) = 1
      BY <2>2, <2>3, FS_Singleton
    <3> QED BY <3>1, Copies, Zenon
  <2> DEFINE kept(c) == [i \in 1..l |-> IF i = l THEN c ELSE responders[i]]
  <2>7. ASSUME NEW c, c = IF m.code \in Handlers THEN r ELSE Cleanup(r)
        PROVE  responders' = kept(c) \o <<NewResponder>>
    <3>1. \A i \in 1..l : parsed[i] = IF i = l THEN r ELSE responders[i]
      BY <2>5
    <3>2. \A i \in 1..l : (IF i \in refused THEN Cleanup(parsed[i]) ELSE parsed[i])
                            = IF i = l THEN c ELSE responders[i]
      BY <2>4, <2>7, <3>1
    <3>3. [i \in DOMAIN read |-> IF i \in refused THEN Cleanup(parsed[i]) ELSE parsed[i]] = kept(c)
      BY <1>6, <3>2
    <3> HIDE DEF kept
    <3> QED BY <1>7, <2>6, <3>3
  <2> DEFINE last == IF m.code \in Handlers THEN <<>> ELSE <<a>>
  <2>8. a \in Messages
    BY DEF Messages, Kinds, AnswerKinds
  <2>9. last \in Seq(Messages)
    BY <2>8, EmptySeq
  <2>10. illegal = last
    <3> DEFINE f(i) == <<Answer(parsed[i], "exception")>>
    <3>1. answers = [i \in 1..l |-> IF i \in refused THEN f(i) ELSE <<>>]
      BY <1>6
    <3>2. f(l) = <<a>>
      <4>1. parsed[l] = r
        BY <1>3, <2>5
      <4>2. Answer(r, "exception") = a
        BY <2>1 DEF Answer
      <4> QED BY <4>1, <4>2
    <3> HIDE DEF f, answers
    <3>3. \A i \in 1..l : (IF i \in refused THEN f(i) ELSE <<>>) = IF i = l THEN last ELSE <<>>
      BY <2>4, <3>2
    <3> HIDE DEF last
    <3>4. answers = [i \in 1..l |-> IF i = l THEN last ELSE <<>>]
      BY <3>1, <3>3
    <3> QED BY <1>3, <2>9, <3>4, FlattenAnswers
  <2>11. server_up' = TRUE
    BY <1>7, <2>3
  <2> HIDE DEF illegal
  <2>12. CASE m.code \in Handlers
    <3>1. illegal = <<>>
      BY <2>10, <2>12
    <3>2. [i \in DOMAIN illegal |-> Bytes(illegal[i])] = <<>>
      BY <3>1
    <3>3. <<>> \o <<>> = <<>>
      BY EmptySeq, ConcatEmptySeq
    <3>4. written' = written /\ down' = <<>>
      BY <1>7, <1>8, <3>1, <3>2, <3>3, ConcatEmptySeq, FlattenEmpty
    <3>5. responders' = kept(r) \o <<NewResponder>>
      BY <2>7, <2>12
    <3> QED BY <1>4, <1>10, <2>11, <2>12, <3>4, <3>5 DEF r, ServerEffect
  <2>13. CASE m.code \notin Handlers
    <3>1. illegal = <<a>>
      BY <2>10, <2>13
    <3>2. [i \in DOMAIN illegal |-> Bytes(illegal[i])] = <<Bytes(a)>>
      BY <3>1
    <3>3. Bytes(a) \in Seq(StreamBytes)
      BY <2>8, BytesTyping
    <3>4. FlattenSeq(<<Bytes(a)>>) = Bytes(a)
      BY <3>3, FlattenOne
    <3>5. down' = Bytes(a)
      BY <1>7, <1>8, <3>2, <3>3, <3>4, ConcatEmptySeq
    <3>6. written' = Append(written, a)
      BY <1>7, <1>8, <2>8, <3>1, AppendIsConcat
    <3>7. responders' = kept(Cleanup(r)) \o <<NewResponder>>
      BY <2>7, <2>13
    <3> QED BY <1>4, <1>10, <2>11, <2>13, <3>5, <3>6, <3>7 DEF r, ServerEffect
  <2> QED BY <2>12, <2>13
<1> QED BY <1>9, <1>10

(* The last stack of the server replaced, and perhaps a new one after it. *)
Grown(g, rs, l, c) ==
    /\ g \in Seq(Responders) /\ Len(g) = l + 1 /\ DOMAIN g = 1..(l + 1)
    /\ g[l] = c /\ g[l + 1] = NewResponder
    /\ \A i \in 1..l : i # l => g[i] = rs[i]

LEMMA Replaced ==
    ASSUME NEW l \in Nat \ {0}, NEW rs \in Seq(Responders), Len(rs) = l, NEW c \in Responders,
           NEW f, f = [i \in 1..l |-> IF i = l THEN c ELSE rs[i]],
           NEW g, g = f \o <<NewResponder>>
    PROVE  /\ f \in Seq(Responders) /\ Len(f) = l /\ DOMAIN f = 1..l
           /\ f[l] = c /\ \A i \in 1..l : i # l => f[i] = rs[i]
           /\ Grown(g, rs, l, c)
<1>1. \A i \in 1..l : (IF i = l THEN c ELSE rs[i]) \in Responders
  BY ElementOfSeq
<1> DEFINE e(i) == IF i = l THEN c ELSE rs[i]
<1>2. f = [i \in 1..l |-> e(i)] /\ \A i \in 1..l : e(i) \in Responders
  BY <1>1
<1>3. f \in Seq(Responders) /\ Len(f) = l /\ DOMAIN f = 1..l
  <2> HIDE DEF e
  <2> QED BY <1>2
<1>4. l \in 1..l
  OBVIOUS
<1>5. f[l] = c /\ \A i \in 1..l : i # l => f[i] = rs[i]
  BY <1>4
<1>6. g = Append(f, NewResponder)
  BY <1>3, NewResponderTyping, AppendIsConcat
<1>7. /\ g \in Seq(Responders) /\ Len(g) = l + 1
      /\ \A i \in 1..l : g[i] = f[i]
      /\ g[l + 1] = NewResponder
  BY <1>3, <1>6, NewResponderTyping, AppendProperties
<1>8. DOMAIN g = 1..(l + 1)
  BY <1>7
<1>9. g[l] = c /\ \A i \in 1..l : i # l => g[i] = rs[i]
  BY <1>4, <1>5, <1>7
<1>10. Grown(g, rs, l, c)
  BY <1>7, <1>8, <1>9 DEF Grown
<1> QED BY <1>3, <1>5, <1>10

LEMMA ServerDataStep ==
    ASSUME IInv, NEW n \in 1..Len(up), ServerData(n), peer = "server", UNCHANGED <<stacks, peer>>
    PROVE  IInv'
<1> USE DEF IInv
<1>1. up # <<>>
  BY EmptySeq DEF TypeOK, StreamTypeOK
<1>2. PICK m \in Messages : \E k \in 0..(LengthOf(m) - 1) : Asking(m, k)
  BY <1>1 DEF Phase, Idle, Serving, Hearing
<1>3. PICK k \in 0..(LengthOf(m) - 1) : Asking(m, k)
  BY <1>2
<1>4. PICK l : l = Len(responders)
  OBVIOUS
<1>5. PICK t : t = onData(responders[l], Part(m, k, k + n))
  OBVIOUS
<1>6. PICK a : a = [of |-> m.of, kind |-> "exception", code |-> m.code]
  OBVIOUS
<1>0. /\ t \in Responders /\ t.attached /\ t.gotRequest = FALSE
      /\ ReaderOf(t) = ReaderAt(m, k + n)
      /\ server_up' = TRUE
      /\ ServerEffect(m, k + n, l, t, a)
  <2>1. TypeOK /\ Asking(m, k)
    BY <1>3
  <2>0. m \in Messages /\ k \in 0..(LengthOf(m) - 1) /\ n \in 1..Len(up) /\ ServerData(n)
    OBVIOUS
  <2>2. server_up' = TRUE
    BY ONLY <2>1, <2>0, <1>4, <1>5, <1>6, ServerDataEffect
  <2>3. ServerEffect(m, k + n, l, t, a)
    BY ONLY <2>1, <2>0, <1>4, <1>5, <1>6, ServerDataEffect
  <2>4. ReaderOf(t) = ReaderAt(m, k + n)
    BY ONLY <2>1, <2>0, <1>4, <1>5, <1>6, ServerDataEffect
  <2>5. t \in Responders /\ t.attached
    BY ONLY <2>1, <2>0, <1>4, <1>5, <1>6, ServerDataEffect
  <2>6. t.gotRequest = FALSE
    BY ONLY <2>1, <2>0, <1>4, <1>5, <1>6, ServerDataEffect
  <2> QED BY ONLY <2>2, <2>3, <2>4, <2>5, <2>6, Zenon
<1> DEFINE j == k + n
           L == LengthOf(m)
           kept(c) == [i \in 1..l |-> IF i = l THEN c ELSE responders[i]]
<1>7. /\ t \in Responders /\ t.attached /\ t.gotRequest = FALSE
      /\ ReaderOf(t) = ReaderAt(m, j)
      /\ server_up' = TRUE
  BY <1>0, Zenon
<1>22. t.request = responders[l].request
  BY <1>0 DEF ServerEffect
<1>8. j # L => responders' = kept(t) /\ written' = written /\ down' = <<>>
  BY <1>0 DEF ServerEffect
<1>9. j = L /\ m.code \in Handlers =>
          responders' = kept(parseRequest(t)) \o <<NewResponder>> /\ written' = written /\ down' = <<>>
  BY <1>0 DEF ServerEffect
<1>10. j = L /\ m.code \notin Handlers =>
          /\ responders' = kept(Cleanup(parseRequest(t))) \o <<NewResponder>>
          /\ written' = Append(written, a) /\ down' = Bytes(a)
  BY <1>0 DEF ServerEffect
<1>11. /\ k \in Nat /\ j \in Nat /\ j \in 0..L
       /\ Beyond(up, n) = Part(m, j, L) /\ Beyond(up, n) \in Seq(StreamBytes)
       /\ j = L => Beyond(up, n) = <<>>
       /\ j # L => j \in 0..(L - 1)
  BY <1>3, ChunkOf DEF Asking
<1>12. up' = Beyond(up, n) /\ stacks' = stacks /\ peer' = peer
  BY DEF ServerData
<1>13. l \in Nat \ {0} /\ responders \in Seq(Responders) /\ DOMAIN responders = 1..l /\ l \in 1..l
       /\ \A i \in 1..l : i # l => ~responders[i].attached
  BY <1>3, <1>4 DEF Asking, ServerListens, NoneWaits, TypeOK, ServerTypeOK
<1>14. a \in Messages /\ a.of = m.of /\ a.code = m.code /\ a.kind = "exception"
  BY <1>6 DEF Messages, Kinds, AnswerKinds
<1> HIDE DEF j, L, kept
<1>15. /\ up' \in Seq(StreamBytes) /\ written \in Seq(Messages) /\ <<>> \in Seq(StreamBytes)
       /\ stacks' \in Seq(Stacks) /\ peer' \in Peers
  BY <1>11, <1>12, EmptySeq DEF TypeOK, StreamTypeOK, ClientTypeOK
<1>16. m # Garbage
  BY LengthTyping
<1>17. \A i \in DOMAIN responders :
           Garbage \notin {responders[i].header, responders[i].fcode, responders[i].request}
  BY DEF Aligned
<1>18. ClientReads(FreshReader) /\ LastPending(m) /\ NoAnswerYet(m) /\ m.kind = "request"
  BY <1>3 DEF Asking
<1>19. AnswersInOrder /\ AnswersToCalls /\ HeardOwn /\ NoLeak
  OBVIOUS
<1>20. CASE j # L
  <2>1. /\ responders' \in Seq(Responders) /\ Len(responders') = l /\ DOMAIN responders' = 1..l
        /\ responders'[l] = t /\ \A i \in 1..l : i # l => responders'[i] = responders[i]
    BY <1>4, <1>7, <1>8, <1>13, <1>20, Replaced DEF kept
  <2>2. t.header # Garbage /\ t.fcode # Garbage
    <3>1. j \in 0..LengthOf(m)
      BY <1>11 DEF L
    <3> QED BY <1>7, <3>1, ReaderStatus
  <2>3. TypeOK'
    BY <1>7, <1>8, <1>15, <1>20, <2>1 DEF TypeOK, StreamTypeOK, ClientTypeOK, ServerTypeOK
  <2>4. Aligned'
    BY <1>12, <1>13, <1>17, <1>22, <2>1, <2>2 DEF Aligned
  <2>5. Asking(m, j)'
    <3>1. ServerListens(ReaderAt(m, j))' /\ NoneWaits'
      BY <1>7, <1>13, <2>1 DEF ServerListens, NoneWaits
    <3>2. ClientReads(FreshReader)' /\ LastPending(m)' /\ NoAnswerYet(m)'
      BY <1>8, <1>12, <1>18, <1>20 DEF ClientReads, LastPending, NoAnswerYet
    <3>3. up' = Part(m, j, LengthOf(m)) /\ down' = <<>> /\ peer' = "server"
      BY <1>8, <1>11, <1>12, <1>20 DEF L
    <3> QED BY <1>18, <3>1, <3>2, <3>3 DEF Asking
  <2>6. Phase'
    <3>1. j \in 0..(LengthOf(m) - 1)
      BY <1>11, <1>20 DEF L
    <3>2. \E x \in 0..(LengthOf(m) - 1) : Asking(m, x)'
      BY <2>5, <3>1
    <3> QED BY <3>2 DEF Phase
  <2>7. AnswersInOrder' /\ AnswersToCalls' /\ HeardOwn' /\ NoLeak'
    BY <1>8, <1>12, <1>19, <1>20 DEF AnswersInOrder, AnswersToCalls, HeardOwn, NoLeak
  <2> QED BY <1>7, <2>3, <2>4, <2>6, <2>7
<1>21. CASE j = L
  <2> DEFINE r == parseRequest(t)
  <2>1. /\ r \in Responders /\ Cleanup(r) \in Responders
        /\ r.attached /\ r.gotRequest /\ r.request = m /\ r.header = m /\ r.fcode = m
        /\ ~Cleanup(r).attached
        /\ Cleanup(r).request = m /\ Cleanup(r).header = m /\ Cleanup(r).fcode = m
    <3>1. ReaderOf(t) = ReaderAt(m, LengthOf(m))
      BY <1>7, <1>21 DEF L
    <3> QED BY <1>7, <3>1, RequestParsed
  <2> HIDE DEF r
  <2>2. ASSUME NEW c \in Responders, responders' = kept(c) \o <<NewResponder>>
        PROVE  /\ responders' \in Seq(Responders) /\ Len(responders') = l + 1 /\ DOMAIN responders' = 1..(l + 1)
               /\ responders'[l] = c /\ responders'[l + 1] = NewResponder
               /\ \A i \in 1..l : i # l => responders'[i] = responders[i]
    <3> DEFINE f == kept(c)
    <3>1. f = [i \in 1..l |-> IF i = l THEN c ELSE responders[i]]
      BY DEF kept
    <3>2. Len(responders) = l
      BY <1>4
    <3> DEFINE g == f \o <<NewResponder>>
    <3>3. responders' = g
      BY <2>2
    <3>4. g = f \o <<NewResponder>>
      OBVIOUS
    <3> HIDE DEF f, g
    <3>5. l \in Nat \ {0} /\ responders \in Seq(Responders)
      BY <1>13
    <3>6. Grown(g, responders, l, c)
      BY ONLY c \in Responders, <3>1, <3>2, <3>4, <3>5, Replaced
    <3>7. Grown(responders', responders, l, c)
      BY ONLY <3>3, <3>6, Zenon
    <3> QED BY <3>7 DEF Grown
  <2>3. \A i \in 1..(l + 1) : i \in 1..l \/ i = l + 1
    BY <1>13
  <2>4. l + 1 \in 1..(l + 1) /\ l \in 1..(l + 1) /\ l # l + 1 /\ (l + 1) - 1 = l
    BY <1>13
  <2>5. ASSUME NEW c \in Responders, responders' = kept(c) \o <<NewResponder>>,
               c.header = m, c.fcode = m, c.request = m
        PROVE  Aligned' /\ ServerListens(FreshReader)' /\ responders' \in Seq(Responders)
    <3>1. /\ responders' \in Seq(Responders) /\ Len(responders') = l + 1 /\ DOMAIN responders' = 1..(l + 1)
          /\ responders'[l] = c /\ responders'[l + 1] = NewResponder
          /\ \A i \in 1..l : i # l => responders'[i] = responders[i]
      BY <2>2, <2>5
    <3>2. \A i \in 1..(l + 1) :
              Garbage \notin {responders'[i].header, responders'[i].fcode, responders'[i].request}
      <4> SUFFICES ASSUME NEW i \in 1..(l + 1)
                   PROVE  Garbage \notin {responders'[i].header, responders'[i].fcode, responders'[i].request}
        OBVIOUS
      <4>1. CASE i = l + 1
        BY <3>1, <4>1, NewResponderTyping
      <4>2. CASE i = l
        BY <1>16, <2>5, <3>1, <4>2
      <4>3. CASE i \in 1..l /\ i # l
        BY <1>13, <1>17, <3>1, <4>3
      <4> QED BY <2>3, <4>1, <4>2, <4>3
    <3>3. Aligned'
      BY <1>12, <3>1, <3>2 DEF Aligned
    <3>4. ServerListens(FreshReader)'
      BY <2>4, <3>1, NewResponderTyping DEF ServerListens
    <3> QED BY <3>1, <3>3, <3>4
  <2>6. up' = <<>>
    BY <1>11, <1>12, <1>21
  <2>7. CASE m.code \in Handlers
    <3>1. responders' = kept(r) \o <<NewResponder>> /\ written' = written /\ down' = <<>>
      BY <1>9, <1>21, <2>7 DEF r
    <3>2. /\ responders' \in Seq(Responders) /\ Len(responders') = l + 1 /\ DOMAIN responders' = 1..(l + 1)
          /\ responders'[l] = r /\ responders'[l + 1] = NewResponder
          /\ \A i \in 1..l : i # l => responders'[i] = responders[i]
      BY <2>1, <2>2, <3>1
    <3>3. Aligned' /\ ServerListens(FreshReader)'
      BY <2>1, <2>5, <3>1
    <3>4. OneWaits(m)'
      BY <1>13, <2>1, <2>3, <2>4, <3>2 DEF OneWaits, Responders
    <3>5. ClientReads(FreshReader)' /\ LastPending(m)' /\ NoAnswerYet(m)'
      BY <1>12, <1>18, <3>1 DEF ClientReads, LastPending, NoAnswerYet
    <3>6. Serving(m)'
      BY <1>18, <2>6, <3>1, <3>3, <3>4, <3>5 DEF Serving
    <3>7. TypeOK'
      BY <1>7, <1>15, <3>1, <3>2 DEF TypeOK, StreamTypeOK, ClientTypeOK, ServerTypeOK
    <3>8. AnswersInOrder' /\ AnswersToCalls' /\ HeardOwn' /\ NoLeak'
      BY <1>12, <1>19, <3>1 DEF AnswersInOrder, AnswersToCalls, HeardOwn, NoLeak
    <3>9. Phase'
      BY <3>6 DEF Phase
    <3> QED BY <1>7, <3>3, <3>7, <3>8, <3>9
  <2>8. CASE m.code \notin Handlers
    <3> DEFINE c == Cleanup(r)
    <3>1. responders' = kept(c) \o <<NewResponder>> /\ written' = Append(written, a) /\ down' = Bytes(a)
      BY <1>10, <1>21, <2>8 DEF r
    <3>2. c \in Responders /\ ~c.attached /\ c.request = m /\ c.header = m /\ c.fcode = m
      BY <2>1
    <3> HIDE DEF c
    <3>3. /\ responders' \in Seq(Responders) /\ Len(responders') = l + 1 /\ DOMAIN responders' = 1..(l + 1)
          /\ responders'[l] = c /\ responders'[l + 1] = NewResponder
          /\ \A i \in 1..l : i # l => responders'[i] = responders[i]
      BY <2>2, <3>1, <3>2
    <3>4. Aligned' /\ ServerListens(FreshReader)'
      BY <2>5, <3>1, <3>2
    <3>5. NoneWaits'
      BY <1>13, <2>3, <2>4, <3>2, <3>3 DEF NoneWaits
    <3>6. TypeOK'
      <4>1. down' \in Seq(StreamBytes)
        BY <1>14, <3>1, BytesTyping
      <4>2. written' \in Seq(Messages)
        BY <1>14, <1>15, <3>1, AppendProperties
      <4> QED BY <1>7, <1>15, <3>3, <4>1, <4>2 DEF TypeOK, StreamTypeOK, ClientTypeOK, ServerTypeOK
    <3> QED BY <1>7, <1>12, <1>14, <1>18, <1>19, <2>6, <3>1, <3>4, <3>5, <3>6, AnswerStep
  <2> QED BY <2>7, <2>8
<1> QED BY <1>20, <1>21

-----------------------------------------------------------------------------
(* The invariant is inductive when a caller waits for one call at a time.    *)

LEMMA Stuttering ==
    ASSUME IInv, UNCHANGED vars
    PROVE  IInv'
<1>1. /\ up' = up /\ down' = down /\ written' = written /\ stacks' = stacks
      /\ responders' = responders /\ server_up' = server_up /\ peer' = peer
  BY DEF vars, stream, server
<1>2. TypeOK'
  BY <1>1 DEF IInv, TypeOK, StreamTypeOK, ClientTypeOK, ServerTypeOK
<1>3. AnswersInOrder' /\ AnswersToCalls' /\ HeardOwn' /\ NoLeak' /\ Aligned'
  BY <1>1 DEF IInv, AnswersInOrder, AnswersToCalls, HeardOwn, NoLeak, Aligned
<1>4. \A m : LastPending(m)' = LastPending(m) /\ NoAnswerYet(m)' = NoAnswerYet(m) /\ OneWaits(m)' = OneWaits(m)
  BY <1>1 DEF LastPending, NoAnswerYet, OneWaits
<1>5. \A r : ClientReads(r)' = ClientReads(r) /\ ServerListens(r)' = ServerListens(r)
  BY <1>1 DEF ClientReads, ServerListens
<1>6. NonePending' = NonePending /\ NoneWaits' = NoneWaits
  BY <1>1 DEF NonePending, NoneWaits
<1>7. CASE Idle
  <2>1. Idle'
    BY <1>1, <1>5, <1>6, <1>7 DEF Idle
  <2> QED BY <1>1, <1>2, <1>3, <2>1 DEF IInv, Phase
<1>8. CASE \E m \in Messages : \E k \in 0..(LengthOf(m) - 1) : Asking(m, k)
  <2>1. PICK m \in Messages : \E k \in 0..(LengthOf(m) - 1) : Asking(m, k)
    BY <1>8
  <2>2. PICK k \in 0..(LengthOf(m) - 1) : Asking(m, k)
    BY <2>1
  <2>3. Asking(m, k)'
    BY <1>1, <1>4, <1>5, <1>6, <2>2 DEF Asking
  <2> QED BY <1>1, <1>2, <1>3, <2>3 DEF IInv, Phase
<1>9. CASE \E m \in Messages : Serving(m)
  <2>1. PICK m \in Messages : Serving(m)
    BY <1>9
  <2>2. Serving(m)'
    BY <1>1, <1>4, <1>5, <2>1 DEF Serving
  <2> QED BY <1>1, <1>2, <1>3, <2>2 DEF IInv, Phase
<1>10. CASE \E m \in Messages : \E k \in 0..(LengthOf(m) - 1) : Hearing(m, k)
  <2>1. PICK m \in Messages : \E k \in 0..(LengthOf(m) - 1) : Hearing(m, k)
    BY <1>10
  <2>2. PICK k \in 0..(LengthOf(m) - 1) : Hearing(m, k)
    BY <2>1
  <2>3. Hearing(m, k)'
    BY <1>1, <1>4, <1>5, <1>6, <2>2 DEF Hearing
  <2> QED BY <1>1, <1>2, <1>3, <2>3 DEF IInv, Phase
<1> QED BY <1>7, <1>8, <1>9, <1>10 DEF IInv, Phase

LEMMA StepKeeps ==
    ASSUME IInv, Window <= 1, [Next]_vars
    PROVE  IInv'
<1>1. CASE ClientStep
  <2>1. CASE \E code \in FunctionCodes, fits \in BOOLEAN : request(code, fits)
    BY <1>1, <2>1, RequestStep DEF ClientStep
  <2>2. CASE \E n \in 1..Len(down) : ClientData(n)
    BY <1>1, <2>2, ClientDataStep DEF ClientStep
  <2> QED BY <1>1, <2>1, <2>2 DEF ClientStep, ClientNext
<1>2. CASE ServerStep
  <2>1. CASE \E n \in 1..Len(up) : ServerData(n)
    BY <1>2, <2>1, ServerDataStep DEF ServerStep
  <2>2. CASE \E k \in DOMAIN responders, kind \in AnswerKinds : HandlerAnswer(k, kind)
    BY <1>2, <2>2, HandlerAnswerStep DEF ServerStep
  <2> QED BY <1>2, <2>1, <2>2 DEF ServerStep, ServerNext
<1>3. CASE GatewayStep \/ GatewayReset
  BY <1>3, GatewayAnswerStep, GatewayResetStep DEF GatewayStep
<1>4. CASE UNCHANGED vars
  BY <1>4, Stuttering
<1> QED BY <1>1, <1>2, <1>3, <1>4 DEF Next

LEMMA Invariant == ASSUME Window <= 1 PROVE Spec => []IInv
<1>1. IInv /\ [Next]_vars => IInv'
  BY StepKeeps
<1> QED BY Initially, <1>1, PTL DEF Spec

(* Bytes, readers, answers and what callbacks heard stay of their kinds,     *)
(* whatever the lengths of header and bodies (modbus-stack.js:120-210).      *)
THEOREM Typing == ASSUME Window <= 1 PROVE Spec => []TypeOK
<1>1. IInv => TypeOK
  BY DEF IInv
<1> QED BY Invariant, <1>1, PTL

(* No reader of either end ever miscounts: the client's are all where the    *)
(* answer is, and the server's last one where the request is.                *)
THEOREM NeverMiscounts == ASSUME Window <= 1 PROVE Spec => []Aligned
<1>1. IInv => Aligned
  BY DEF IInv
<1> QED BY Invariant, <1>1, PTL

(* An answer cleans up every stack there is (modbus-stack.js:159).           *)
THEOREM NothingLeaks == ASSUME Window <= 1 PROVE Spec => []NoLeak
<1>1. IInv => NoLeak
  BY DEF IInv
<1> QED BY Invariant, <1>1, PTL

(* A client of this library never makes the server throw: each request has a *)
(* function code the server can parse (modbus-stack.js:195-199).             *)
THEOREM ServerSurvives == ASSUME Window <= 1 PROVE Spec => []server_up
<1>1. IInv => server_up
  BY DEF IInv
<1> QED BY Invariant, <1>1, PTL

(* The callback of a call with fitting arguments is called once at most, and *)
(* with the answer to that call, though no transaction id is compared        *)
(* (client.js:18).                                                           *)
THEOREM OwnAnswers == ASSUME Window <= 1 PROVE Spec => []HeardOwn
<1>1. IInv => HeardOwn
  BY DEF IInv
<1> QED BY Invariant, <1>1, PTL

-----------------------------------------------------------------------------
(* The calls are those of ModbusExchange. *)

CallsBounded == Len(stacks) <= MaxCalls

LEMMA BoundedStep ==
    ASSUME IInv, IInv', [Next]_vars, CallsBounded
    PROVE  CallsBounded'
<1>1. /\ Len(stacks) \in Nat /\ DOMAIN stacks = 1..Len(stacks) /\ stacks \in Seq(Stacks)
      /\ Len(stacks') \in Nat /\ DOMAIN stacks' = 1..Len(stacks') /\ stacks' \in Seq(Stacks)
  BY DEF IInv, TypeOK, ClientTypeOK
<1>2. ASSUME DOMAIN stacks' = DOMAIN stacks PROVE CallsBounded'
  BY <1>1, <1>2 DEF CallsBounded
<1>3. ASSUME stacks' = stacks PROVE CallsBounded'
  BY <1>3 DEF CallsBounded
<1>4. CASE \E code \in FunctionCodes, fits \in BOOLEAN : request(code, fits)
  <2>1. PICK code \in FunctionCodes, fits \in BOOLEAN : request(code, fits)
    BY <1>4
  <2>2. PICK s : stacks' = Append(stacks, s)
    BY <2>1 DEF request
  <2>3. Len(stacks) + 1 <= MaxCalls
    BY <2>1 DEF request
  <2>4. Len(stacks') = Len(stacks) + 1
    BY <1>1, <2>2
  <2> QED BY <2>3, <2>4 DEF CallsBounded
<1>5. CASE \E n \in 1..Len(down) : ClientData(n)
  <2>1. DOMAIN stacks' = DOMAIN stacks
    BY <1>5 DEF ClientData
  <2> QED BY <1>2, <2>1
<1> QED BY <1>3, <1>4, <1>5
        DEF Next, ClientStep, ClientNext, ServerStep, GatewayStep, GatewayAnswer, GatewayReset,
            vars

LEMMA Bounded == ASSUME Window <= 1 PROVE Spec => []CallsBounded
<1>1. Init => CallsBounded
  BY ClientAssumption DEF Init, ClientInit, CallsBounded
<1>2. IInv /\ IInv' /\ [Next]_vars /\ CallsBounded => CallsBounded'
  BY BoundedStep
<1> QED BY Invariant, <1>1, <1>2, PTL DEF Spec

(* A step that gives no answer and calls no callback changes no call. *)
LEMMA SameCalls ==
    ASSUME written' = written, Fitting' = Fitting, \A i \in Fitting : stacks'[i].heard = stacks[i].heard
    PROVE  Calls' = Calls
<1>1. \A i : GivenTo(i)' = GivenTo(i)
  BY DEF GivenTo
<1>2. \A i : OneOf(GivenTo(i))' = OneOf(GivenTo(i))
  BY <1>1
<1> QED BY <1>2 DEF Calls

LEMMA RequestIsAsk ==
    ASSUME IInv, Window <= 1, NEW code \in FunctionCodes, NEW fits \in BOOLEAN, request(code, fits)
    PROVE  [Exchange!Next]_Calls
<1> DEFINE h == IF fits THEN <<>> ELSE <<BadArgument>>
           s == CallStack(code, h)
           n == Len(stacks)
<1>1. n \in Nat /\ n + 1 \in Nat /\ DOMAIN stacks = 1..n /\ stacks \in Seq(Stacks) /\ n + 1 \notin DOMAIN stacks
  BY DEF IInv, TypeOK, ClientTypeOK
<1>2. stacks' = Append(stacks, s) /\ written' = written /\ n + 1 <= MaxCalls /\ Cardinality(Pending) < Window
  BY DEF request, CallStack
<1>3. h \in Seq(Readings \union {BadArgument})
  <2>1. BadArgument \in Readings \union {BadArgument}
    OBVIOUS
  <2>2. <<BadArgument>> \in Seq(Readings \union {BadArgument})
    <3> DEFINE S == Readings \union {BadArgument}
    <3> HIDE DEF S
    <3> QED BY <2>1 DEF S
  <2> QED BY <2>2, EmptySeq
<1>4. s \in Stacks /\ s.heard = h
  <2> HIDE DEF h
  <2> QED BY <1>3, NewStackTyping
<1>5. CASE ~fits
  <2>1. h # <<>> /\ h[1] = BadArgument
    BY <1>5
  <2> HIDE DEF h, s
  <2>2. /\ DOMAIN stacks' = 1..(n + 1) /\ stacks'[n + 1] = s
        /\ \A i \in DOMAIN stacks : i \in DOMAIN stacks' /\ stacks'[i] = stacks[i]
        /\ \A i \in DOMAIN stacks' : i \in DOMAIN stacks \/ i = n + 1
    BY <1>1, <1>2, <1>4, AppendProperties
  <2>3. Fitting' = Fitting
    BY <1>4, <2>1, <2>2 DEF Fitting
  <2>4. \A i \in Fitting : stacks'[i].heard = stacks[i].heard
    BY <2>2 DEF Fitting
  <2> QED BY <1>2, <2>3, <2>4, SameCalls
<1>6. CASE fits
  <2>1. h = <<>>
    BY <1>6
  <2> HIDE DEF h, s
  <2>2. /\ DOMAIN stacks' = 1..(n + 1) /\ stacks'[n + 1] = s
        /\ \A i \in DOMAIN stacks : i \in DOMAIN stacks' /\ stacks'[i] = stacks[i]
        /\ \A i \in DOMAIN stacks' : i \in DOMAIN stacks \/ i = n + 1
        /\ n + 1 \in DOMAIN stacks'
    BY <1>1, <1>2, <1>4, AppendProperties
  <2>3. Fitting' = Fitting \union {n + 1} /\ n + 1 \notin Fitting
    BY <1>1, <1>4, <2>1, <2>2 DEF Fitting
  <2>4. \A i : GivenTo(i)' = GivenTo(i)
    BY <1>2 DEF GivenTo
  <2>5. \A i : OneOf(GivenTo(i))' = OneOf(GivenTo(i))
    BY <2>4
  <2>6. OneOf(GivenTo(n + 1)) = NoMessage
    <3>1. \A k \in DOMAIN written : written[k].of # n + 1
      BY <1>1 DEF IInv, AnswersToCalls
    <3> QED BY <3>1 DEF GivenTo, OneOf
  <2>7. Calls' = [k \in Fitting \union {n + 1} |-> IF k = n + 1 THEN [given |-> NoMessage, heard |-> <<>>]
                                                               ELSE Calls[k]]
    <3>1. Calls' = [i \in Fitting' |-> [given |-> OneOf(GivenTo(i))', heard |-> stacks'[i].heard]]
      BY DEF Calls
    <3>2. \A i \in Fitting : stacks'[i].heard = stacks[i].heard
      BY <2>2 DEF Fitting
    <3>3. \A i \in Fitting : Calls[i] = [given |-> OneOf(GivenTo(i)), heard |-> stacks[i].heard]
      BY DEF Calls
    <3>4. stacks'[n + 1].heard = <<>>
      BY <1>4, <2>1, <2>2
    <3> HIDE DEF n
    <3> QED BY <2>3, <2>5, <2>6, <3>1, <3>2, <3>3, <3>4
  <2>8. DOMAIN Calls = Fitting
    BY DEF Calls
  <2>9. Exchange!Waiting = Pending
    BY DEF Exchange!Waiting, Calls, Fitting, Pending
  <2>10. Exchange!Ask(n + 1)
    <3>1. Exchange!Cardinality(Exchange!Waiting) < Window
      <4>1. Exchange!Cardinality(Pending) = Cardinality(Pending)
        BY DEF Exchange!Cardinality, Cardinality
      <4> QED BY <1>2, <2>9, <4>1
    <3>2. n + 1 \notin DOMAIN Calls
      BY <2>3, <2>8
    <3>3. Calls' = [k \in DOMAIN Calls \union {n + 1} |->
                      IF k = n + 1 THEN [given |-> NoMessage, heard |-> <<>>] ELSE Calls[k]]
      BY <2>7, <2>8, Zenon
    <3> HIDE DEF n
    <3> QED BY <3>1, <3>2, <3>3, Zenon DEF Exchange!Ask
  <2>11. n + 1 \in 1..MaxCalls
    BY <1>1, <1>2, ClientAssumption
  <2> QED BY <2>10, <2>11 DEF Exchange!Next
<1> QED BY <1>5, <1>6

LEMMA AnswerIsGive ==
    ASSUME IInv, CallsBounded, NEW m \in Messages, LastPending(m), NoAnswerYet(m),
           NEW kind \in AnswerKinds, NEW code \in FunctionCodes,
           NEW a, a = [of |-> m.of, kind |-> kind, code |-> code],
           written' = Append(written, a), stacks' = stacks
    PROVE  Exchange!Next
<1>1. m.of \in DOMAIN stacks /\ stacks[m.of].heard = <<>> /\ m.of \in 1..MaxCalls
  <2>1. Len(stacks) \in Nat /\ DOMAIN stacks = 1..Len(stacks)
    BY DEF IInv, TypeOK, ClientTypeOK
  <2>2. m.of \in DOMAIN stacks /\ stacks[m.of].heard = <<>>
    BY DEF LastPending
  <2> QED BY <2>1, <2>2, ClientAssumption DEF CallsBounded
<1>2. a \in [of : 1..MaxCalls, kind : AnswerKinds, code : FunctionCodes] /\ a.of = m.of /\ a \in Messages
  BY <1>1 DEF Messages, Kinds
<1>3. /\ written \in Seq(Messages) /\ DOMAIN written' = DOMAIN written \union {Len(written) + 1}
      /\ \A k \in DOMAIN written : written'[k] = written[k]
      /\ written'[Len(written) + 1] = a
  <2>1. written \in Seq(Messages) /\ Len(written) \in Nat /\ DOMAIN written = 1..Len(written)
    BY DEF IInv, TypeOK, StreamTypeOK
  <2>2. DOMAIN written' = 1..(Len(written) + 1)
    BY <1>2, <2>1, AppendProperties
  <2>3. 1..(Len(written) + 1) = 1..Len(written) \union {Len(written) + 1}
    <3> DEFINE w == Len(written)
    <3>1. w \in Nat
      BY <2>1
    <3> HIDE DEF w
    <3>2. 1..(w + 1) = 1..w \union {w + 1}
      BY <3>1
    <3> QED BY <3>2 DEF w
  <2> QED BY <1>2, <2>1, <2>2, <2>3, AppendProperties
<1>4. \A k \in DOMAIN written : written[k].of # m.of
  <2>1. \A k \in DOMAIN written : written[k].of \in Nat /\ written[k].of < m.of
    <3>1. \A k \in DOMAIN written : written[k] \in Messages
      BY <1>3, ElementOfSeq
    <3> QED BY <3>1 DEF Messages, NoAnswerYet
  <2>2. m.of \in Nat
    BY DEF Messages
  <2> QED BY <2>1, <2>2
<1>5. GivenTo(m.of) = {}
  BY <1>4 DEF GivenTo
<1>6. GivenTo(m.of)' = {a}
  BY <1>2, <1>3, <1>4 DEF GivenTo
<1>7. \A i : i # m.of => GivenTo(i)' = GivenTo(i)
  BY <1>2, <1>3 DEF GivenTo
<1>8. OneOf(GivenTo(m.of)) = NoMessage /\ OneOf({a}) = a
  BY <1>5 DEF OneOf
<1>9. Fitting' = Fitting /\ m.of \in Fitting
  BY <1>1 DEF Fitting
<1>10. Calls[m.of] = [given |-> NoMessage, heard |-> <<>>]
  BY <1>1, <1>8, <1>9 DEF Calls
<1>11. Calls' = [Calls EXCEPT ![m.of].given = a]
  <2> DEFINE given(i) == OneOf(GivenTo(i))
             next(i) == OneOf(GivenTo(i)')
  <2>1. Calls = [i \in Fitting |-> [given |-> given(i), heard |-> stacks[i].heard]]
    BY DEF Calls
  <2>2. Calls' = [i \in Fitting |-> [given |-> next(i), heard |-> stacks[i].heard]]
    BY <1>9 DEF Calls
  <2>3. next(m.of) = a /\ \A i : i # m.of => next(i) = given(i)
    BY <1>6, <1>7, <1>8
  <2> HIDE DEF given, next
  <2> QED BY <1>9, <2>1, <2>2, <2>3
<1>12. DOMAIN Calls = Fitting
  BY DEF Calls
<1>13. Exchange!Give(m.of)
  <2>1. m.of \in DOMAIN Calls
    BY <1>9, <1>12
  <2>2. Calls[m.of].given = NoMessage
    BY <1>10
  <2>3. \E x \in [of : 1..MaxCalls, kind : AnswerKinds, code : FunctionCodes] :
            Calls' = [Calls EXCEPT ![m.of].given = x]
    BY <1>2, <1>11, Zenon
  <2> QED BY <2>1, <2>2, <2>3, Zenon DEF Exchange!Give
<1> QED BY <1>9, <1>12, <1>13 DEF Exchange!Next

LEMMA ClientDataIsHear ==
    ASSUME IInv, NEW n \in 1..Len(down), ClientData(n)
    PROVE  [Exchange!Next]_Calls
<1>1. down # <<>>
  BY EmptySeq DEF IInv, TypeOK, StreamTypeOK
<1>2. PICK m \in Messages : \E k \in 0..(LengthOf(m) - 1) : Hearing(m, k)
  BY <1>1 DEF IInv, Phase, Idle, Asking, Serving
<1>3. PICK k \in 0..(LengthOf(m) - 1) : Hearing(m, k)
  BY <1>2
<1>4. TypeOK
  BY DEF IInv
<1>5. DOMAIN stacks' = DOMAIN stacks /\ written' = written
  BY <1>3, <1>4, ClientDataEffect DEF ClientData
<1>6. \A i \in DOMAIN stacks :
          /\ ~stacks[i].attached => stacks'[i] = stacks[i]
          /\ stacks[i].attached /\ k + n # LengthOf(m) => stacks'[i].heard = stacks[i].heard
          /\ stacks[i].attached /\ k + n = LengthOf(m) => stacks'[i].heard = Append(stacks[i].heard, m)
  BY <1>3, <1>4, ClientDataEffect
<1>7. CASE k + n # LengthOf(m)
  <2>1. \A i \in DOMAIN stacks : stacks'[i].heard = stacks[i].heard
    BY <1>6, <1>7
  <2>2. Fitting' = Fitting
    BY <1>5, <2>1 DEF Fitting
  <2>3. \A i \in Fitting : stacks'[i].heard = stacks[i].heard
    BY <2>1 DEF Fitting
  <2> QED BY <1>5, <2>2, <2>3, SameCalls
<1>8. CASE k + n = LengthOf(m)
  <2>1. /\ m.of \in DOMAIN stacks /\ stacks[m.of].attached /\ stacks[m.of].heard = <<>>
        /\ \A i \in DOMAIN stacks : i # m.of => stacks[i].heard # <<>>
    BY <1>3 DEF Hearing, LastPending
  <2>2. m \in Readings \union {BadArgument} /\ m # BadArgument
    <3>1. m.kind # "bad argument" /\ BadArgument.kind = "bad argument"
      BY DEF Messages, Kinds, AnswerKinds, BadArgument
    <3>2. m # BadArgument
      BY <3>1
    <3> QED BY <3>2 DEF Readings
  <2>3. stacks'[m.of].heard = <<m>>
    <3>1. <<>> \in Seq({m}) /\ Append(<<>>, m) = <<m>>
      OBVIOUS
    <3> QED BY <1>6, <1>8, <2>1, <3>1
  <2>4. ASSUME NEW i \in DOMAIN stacks, i # m.of, stacks[i].attached
        PROVE  stacks[i].heard = <<BadArgument>> /\ stacks'[i].heard = <<BadArgument, m>>
    <3>1. stacks[i].heard = <<BadArgument>>
      BY <2>1, <2>4 DEF IInv, HeardOwn
    <3>2. Append(<<BadArgument>>, m) = <<BadArgument, m>>
      <4> DEFINE S == Readings \union {BadArgument}
                 h == <<BadArgument>>
      <4>1. BadArgument \in S /\ m \in S
        BY <2>2
      <4>2. h \in Seq(S)
        <5> HIDE DEF S
        <5> QED BY <4>1
      <4> HIDE DEF S
      <4>3. \A y : h = <<y>> => Append(h, m) = <<y, m>>
        <5> HIDE DEF h
        <5> QED BY <4>1, <4>2, AppendOne
      <4> QED BY <4>3
    <3> QED BY <1>6, <1>8, <2>4, <3>1, <3>2
  <2>5. \A i \in DOMAIN stacks : i # m.of => \/ stacks'[i].heard = stacks[i].heard
                                             \/ /\ stacks[i].heard = <<BadArgument>>
                                                /\ stacks'[i].heard = <<BadArgument, m>>
    BY <1>6, <2>4
  <2>6. /\ <<BadArgument>> # <<>> /\ <<BadArgument>>[1] = BadArgument
        /\ <<BadArgument, m>> # <<>> /\ <<BadArgument, m>>[1] = BadArgument
        /\ <<m>> # <<>> /\ <<m>>[1] = m
    OBVIOUS
  <2>7. \A i \in DOMAIN stacks : i \in Fitting' <=> i \in Fitting
    <3>1. ASSUME NEW i \in DOMAIN stacks PROVE i \in Fitting' <=> i \in Fitting
      <4>1. CASE i = m.of
        BY <1>5, <2>1, <2>2, <2>3, <2>6, <4>1 DEF Fitting
      <4>2. CASE i # m.of
        BY <1>5, <2>5, <2>6, <4>2 DEF Fitting
      <4> QED BY <4>1, <4>2
    <3> QED BY <3>1
  <2>8. Fitting' = Fitting
    BY <1>5, <2>7 DEF Fitting
  <2>9. m.of \in Fitting
    BY <2>1 DEF Fitting
  <2>10. \A i \in Fitting : i # m.of => stacks'[i].heard = stacks[i].heard
    BY <2>5, <2>6 DEF Fitting
  <2>11. OneOf(GivenTo(m.of)) = m
    <3>1. Len(written) \in DOMAIN written /\ written[Len(written)] = m
      BY <1>3 DEF Hearing
    <3>2. ASSUME NEW x \in DOMAIN written, written[x].of = m.of PROVE written[x] = m
      <4>1. DOMAIN written = 1..Len(written) /\ Len(written) \in Nat
        BY DEF IInv, TypeOK, StreamTypeOK
      <4>2. m.of \in Nat
        BY DEF Messages
      <4>3. ~(x < Len(written))
        <5>1. x < Len(written) => written[x].of < written[Len(written)].of
          BY <3>1 DEF IInv, AnswersInOrder
        <5> QED BY <3>1, <3>2, <4>2, <5>1
      <4>4. x = Len(written)
        BY <4>1, <4>3
      <4> QED BY <3>1, <4>4
    <3>3. GivenTo(m.of) = {m}
      BY <3>1, <3>2 DEF GivenTo
    <3> QED BY <3>3 DEF OneOf
  <2>12. m # NoMessage
    BY LengthTyping
  <2>13. Calls[m.of] = [given |-> m, heard |-> <<>>]
    BY <2>1, <2>9, <2>11 DEF Calls
  <2>14. Calls' = [Calls EXCEPT ![m.of].heard = <<m>>]
    <3> DEFINE given(i) == OneOf(GivenTo(i))
               after(i) == stacks'[i].heard
               before(i) == stacks[i].heard
               one == <<m>>
    <3>1. Calls = [i \in Fitting |-> [given |-> given(i), heard |-> before(i)]]
      BY DEF Calls
    <3>2. Calls' = [i \in Fitting |-> [given |-> given(i), heard |-> after(i)]]
      <4>1. \A i : GivenTo(i)' = GivenTo(i)
        BY <1>5 DEF GivenTo
      <4>2. \A i : OneOf(GivenTo(i))' = OneOf(GivenTo(i))
        BY <4>1
      <4> QED BY <2>8, <4>2 DEF Calls
    <3>3. after(m.of) = one /\ \A i \in Fitting : i # m.of => after(i) = before(i)
      BY <2>3, <2>10
    <3> HIDE DEF given, after, before, one
    <3>4. Calls' = [Calls EXCEPT ![m.of].heard = one]
      BY <2>9, <3>1, <3>2, <3>3
    <3> QED BY <3>4 DEF one
  <2>15. DOMAIN Calls = Fitting
    BY DEF Calls
  <2>16. Exchange!Hear(m.of)
    BY <2>9, <2>12, <2>13, <2>14, <2>15 DEF Exchange!Hear
  <2> QED BY <2>9, <2>15, <2>16 DEF Exchange!Next
<1> QED BY <1>7, <1>8

LEMMA ServerDataIsGive ==
    ASSUME IInv, CallsBounded, NEW n \in 1..Len(up), ServerData(n), stacks' = stacks
    PROVE  [Exchange!Next]_Calls
<1>1. up # <<>>
  BY EmptySeq DEF IInv, TypeOK, StreamTypeOK
<1>2. PICK m \in Messages : \E k \in 0..(LengthOf(m) - 1) : Asking(m, k)
  BY <1>1 DEF IInv, Phase, Idle, Serving, Hearing
<1>3. PICK k \in 0..(LengthOf(m) - 1) : Asking(m, k)
  BY <1>2
<1>4. PICK l : l = Len(responders)
  OBVIOUS
<1>5. PICK t : t = onData(responders[l], Part(m, k, k + n))
  OBVIOUS
<1>6. PICK a : a = [of |-> m.of, kind |-> "exception", code |-> m.code]
  OBVIOUS
<1>7. ServerEffect(m, k + n, l, t, a)
  <2>1. TypeOK /\ Asking(m, k)
    BY <1>3 DEF IInv
  <2>2. m \in Messages /\ k \in 0..(LengthOf(m) - 1) /\ n \in 1..Len(up) /\ ServerData(n)
    OBVIOUS
  <2> QED BY ONLY <2>1, <2>2, <1>4, <1>5, <1>6, ServerDataEffect
<1>8. CASE written' = written
  <2>1. Fitting' = Fitting
    BY DEF Fitting
  <2> QED BY <1>8, <2>1, SameCalls
<1>9. CASE written' = Append(written, a)
  <2>1. LastPending(m) /\ NoAnswerYet(m)
    BY <1>3 DEF Asking
  <2>2. "exception" \in AnswerKinds
    BY DEF AnswerKinds
  <2>3. m.code \in FunctionCodes
    BY DEF Messages
  <2> QED BY <1>6, <1>9, <2>1, <2>2, <2>3, AnswerIsGive
<1> QED BY <1>7, <1>8, <1>9 DEF ServerEffect

LEMMA HandlerAnswerIsGive ==
    ASSUME IInv, CallsBounded, NEW k \in DOMAIN responders, NEW kind \in AnswerKinds,
           HandlerAnswer(k, kind), stacks' = stacks
    PROVE  Exchange!Next
<1>1. PICK m \in Messages : Serving(m) /\ k = Len(responders) - 1
  BY WaitingWhenServing DEF HandlerAnswer
<1>2. responders[k].request = m
  BY <1>1 DEF Serving, OneWaits
<1>3. PICK a : a = [of |-> m.of, kind |-> kind, code |-> m.code]
  OBVIOUS
<1>4. written' = Append(written, a)
  BY <1>2, <1>3 DEF HandlerAnswer, Answer
<1>5. m.code \in FunctionCodes
  BY DEF Messages
<1> QED BY <1>1, <1>3, <1>4, <1>5, AnswerIsGive DEF Serving

LEMMA GatewayAnswerIsGive ==
    ASSUME IInv, CallsBounded, NEW kind \in AnswerKinds, GatewayAnswer(kind)
    PROVE  Exchange!Next
<1>1. peer = "gateway" /\ up # <<>> /\ stacks' = stacks
  BY DEF GatewayAnswer, WholeRequest
<1>2. PICK m \in Messages : Asking(m, 0)
  BY <1>1 DEF IInv, Phase, Idle, Asking, Serving, Hearing
<1>3. up[1].msg = m
  <2> DEFINE l == LengthOf(m)
  <2>1. l \in Nat /\ 0 <= l /\ 1 \in 1..(l - 0)
    BY LengthPositive
  <2>2. up = Part(m, 0, l)
    BY <1>2 DEF Asking
  <2> HIDE DEF l
  <2>3. \A i \in 1..(l - 0) : Part(m, 0, l)[i] = [msg |-> m, pos |-> 0 + i]
    BY <2>1, PartTyping
  <2>4. Part(m, 0, l)[1] = [msg |-> m, pos |-> 0 + 1]
    BY <2>1, <2>3
  <2> QED BY <2>2, <2>4
<1>4. PICK a : a = [of |-> m.of, kind |-> kind, code |-> CodeOf(m, kind)]
  OBVIOUS
<1>5. written' = Append(written, a)
  BY <1>3, <1>4 DEF GatewayAnswer
<1>6. CodeOf(m, kind) \in FunctionCodes
  BY <1>1, CodeIsOne DEF IInv
<1> QED BY <1>1, <1>2, <1>4, <1>5, <1>6, AnswerIsGive DEF Asking

(* Bytes, chunks, stacks and peers hidden, every step of the connection is a *)
(* step of ModbusExchange on the calls whose arguments fit, or changes none  *)
(* of them: an answer is given once, and heard once, by the call it is for   *)
(* (the safety half of ImplementsExchange).                                  *)
THEOREM Implements ==
    ASSUME Window <= 1
    PROVE  Spec => Exchange!Init /\ [][Exchange!Next]_Calls
<1>1. Init => Exchange!Init
  <2> SUFFICES ASSUME Init PROVE Exchange!Init
    OBVIOUS
  <2>1. DOMAIN stacks = {}
    BY DEF Init, ClientInit
  <2> QED BY <2>1 DEF Exchange!Init, Calls, Fitting
<1>2. IInv /\ CallsBounded /\ [Next]_vars => [Exchange!Next]_Calls
  <2> SUFFICES ASSUME IInv, CallsBounded, [Next]_vars
               PROVE  [Exchange!Next]_Calls
    OBVIOUS
  <2>1. CASE ClientStep
    <3>1. CASE \E code \in FunctionCodes, fits \in BOOLEAN : request(code, fits)
      BY <3>1, RequestIsAsk
    <3>2. CASE \E n \in 1..Len(down) : ClientData(n)
      BY <3>2, ClientDataIsHear
    <3> QED BY <2>1, <3>1, <3>2 DEF ClientStep, ClientNext
  <2>2. CASE ServerStep
    <3>1. stacks' = stacks
      BY <2>2 DEF ServerStep
    <3>2. CASE \E n \in 1..Len(up) : ServerData(n)
      BY <3>1, <3>2, ServerDataIsGive
    <3>3. CASE \E k \in DOMAIN responders, kind \in AnswerKinds : HandlerAnswer(k, kind)
      BY <3>1, <3>3, HandlerAnswerIsGive
    <3> QED BY <2>2, <3>2, <3>3 DEF ServerStep, ServerNext
  <2>3. CASE GatewayStep
    BY <2>3, GatewayAnswerIsGive DEF GatewayStep
  <2>4. CASE GatewayReset \/ UNCHANGED vars
    <3>1. written' = written /\ stacks' = stacks
      BY <2>4 DEF GatewayReset, vars, stream
    <3>2. Fitting' = Fitting
      BY <3>1 DEF Fitting
    <3> QED BY <3>1, <3>2, SameCalls
  <2> QED BY <2>1, <2>2, <2>3, <2>4 DEF Next
<1> QED BY Invariant, Bounded, <1>1, <1>2, PTL DEF Spec

=============================================================================

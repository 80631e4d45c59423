---- MODULE RecordingProofs ----
(***************************************************************************)
(* Proofs about Recording for every sequence of messages, every flush      *)
(* interval and any number of crashes and restarts: what a clean recording *)
(* holds, what a replay of it sends and what a crash costs.                *)
(***************************************************************************)
EXTENDS Recording, Integers, SequenceTheorems, FiniteSetTheorems, NaturalsInduction, WellFoundedInduction, TLAPS

-----------------------------------------------------------------------------
(* Lines and pieces.                                                       *)

Piece == [id : Nat, part : {"head", "rest", "newline"}]

\* A set of numbers has a least element.
LEMMA LeastElement ==
  ASSUME NEW T, T \subseteq Nat, T # {}
  PROVE  Min(T) \in T /\ \A y \in T : Min(T) <= y
<1> DEFINE R == {ss \in Nat \X Nat : ss[1] < ss[2]}
<1>1. IsWellFoundedOn(R, Nat)
  BY NatLessThanWellFounded DEF OpToRel
<1> HIDE DEF R
<1>2. PICK x \in T : \A y \in T : ~(<<y, x>> \in R)
  BY <1>1, WFMin, Zenon
<1>3. ASSUME NEW y \in T PROVE x <= y
  <2>1. <<y, x>> \in Nat \X Nat /\ ~(y < x)
    BY <1>2 DEF R
  <2> QED
    BY <2>1
<1> QED
  BY <1>3 DEF Min

\* A line has three pieces, the last of which is its only newline.
LEMMA LineFacts ==
  ASSUME NEW id \in Nat
  PROVE  /\ Json(id) \in Seq(Piece) /\ Len(Json(id)) = 2
         /\ LineOf(id) \in Seq(Piece) /\ Len(LineOf(id)) = 3
         /\ LineOf(id)[1] = Json(id)[1] /\ LineOf(id)[2] = Json(id)[2]
         /\ LineOf(id)[3] = Newline(id)
         /\ \A k \in 1 .. 3 : /\ LineOf(id)[k] \in Piece
                              /\ LineOf(id)[k].id = id
                              /\ LineOf(id)[k].part = "newline" <=> k = 3
<1>1. /\ [id |-> id, part |-> "head"] \in Piece /\ [id |-> id, part |-> "rest"] \in Piece
      /\ Newline(id) \in Piece
  BY DEF Piece, Newline
<1>2. Json(id) \in Seq(Piece) /\ Len(Json(id)) = 2
  BY <1>1 DEF Json
<1>3. /\ LineOf(id) \in Seq(Piece) /\ Len(LineOf(id)) = 3
      /\ LineOf(id)[1] = Json(id)[1] /\ LineOf(id)[2] = Json(id)[2]
      /\ LineOf(id)[3] = Newline(id)
  <2> DEFINE j == Json(id)
             n == Newline(id)
  <2>1. j \in Seq(Piece) /\ n \in Piece
    BY <1>1, <1>2
  <2>2. Len(j) = 2
    BY <1>2
  <2> HIDE DEF j, n
  <2>3. /\ Append(j, n) \in Seq(Piece) /\ Len(Append(j, n)) = Len(j) + 1
        /\ \A i \in 1 .. Len(j) : Append(j, n)[i] = j[i]
        /\ Append(j, n)[Len(j) + 1] = n
    BY <2>1, AppendProperties
  <2> DEFINE l == Append(j, n)
  <2>4. /\ l \in Seq(Piece) /\ Len(l) = Len(j) + 1
        /\ \A i \in 1 .. Len(j) : l[i] = j[i]
        /\ l[Len(j) + 1] = n
    BY <2>3, Zenon
  <2> HIDE DEF l
  <2>5. l \in Seq(Piece) /\ Len(l) = 3 /\ l[1] = j[1] /\ l[2] = j[2] /\ l[3] = n
    BY <2>2, <2>4
  <2> QED
    BY <2>5, Zenon DEF LineOf, j, n, l
<1>4. /\ Json(id)[1] = [id |-> id, part |-> "head"] /\ Json(id)[2] = [id |-> id, part |-> "rest"]
  BY DEF Json
<1>5. \A k \in 1 .. 3 : k = 1 \/ k = 2 \/ k = 3
  OBVIOUS
<1> QED
  BY <1>1, <1>2, <1>3, <1>4, <1>5 DEF Newline

\* Quotient and remainder.
LEMMA DivMod ==
  ASSUME NEW a \in Nat, NEW b \in Nat \ {0}
  PROVE  /\ a % b \in 0 .. (b - 1)
         /\ a \div b \in Nat
         /\ a = b * (a \div b) + (a % b)
OBVIOUS

\* Every piece of a file of n lines has a line and a place there.
LEMMA PlaceExists ==
  ASSUME NEW n \in Nat, NEW i \in 1 .. 3 * n
  PROVE  \E id \in 1 .. n, k \in 1 .. 3 : i = 3 * (id - 1) + k
<1>1. \A b \in Nat \ {0} : \E q \in Nat, r \in 0 .. (b - 1) : i - 1 = b * q + r
  <2> SUFFICES ASSUME NEW b \in Nat \ {0}
               PROVE  \E q \in Nat, r \in 0 .. (b - 1) : i - 1 = b * q + r
    OBVIOUS
  <2>1. i - 1 \in Nat
    OBVIOUS
  <2>2. /\ (i - 1) % b \in 0 .. (b - 1) /\ (i - 1) \div b \in Nat
        /\ i - 1 = b * ((i - 1) \div b) + ((i - 1) % b)
    BY <2>1, DivMod
  <2> QED
    BY <2>2
<1>2. PICK q \in Nat, r \in 0 .. 2 : i - 1 = 3 * q + r
  BY <1>1
<1>3. q + 1 \in 1 .. n /\ r + 1 \in 1 .. 3 /\ i = 3 * ((q + 1) - 1) + (r + 1)
  BY <1>2
<1> QED
  BY <1>3

\* One more message adds its line.
LEMMA AddLine ==
  ASSUME NEW n \in Nat, NEW s \in Seq(Piece), HoldsLines(s, n)
  PROVE  HoldsLines(s \o LineOf(n + 1), n + 1)
<1> DEFINE l == LineOf(n + 1)
           c == s \o l
<1>1. l \in Seq(Piece)
  BY LineFacts
<1>2. Len(l) = 3
  BY LineFacts
<1>3. Len(s) = 3 * n /\ \A id \in 1 .. n, k \in 1 .. 3 : s[3 * (id - 1) + k] = LineOf(id)[k]
  BY DEF HoldsLines
<1> HIDE DEF l
<1>4. /\ Len(c) = Len(s) + Len(l)
      /\ \A i \in 1 .. Len(s) + Len(l) : c[i] = IF i <= Len(s) THEN s[i] ELSE l[i - Len(s)]
  BY <1>1, ConcatProperties
<1> HIDE DEF c
<1>5. ASSUME NEW id \in 1 .. n + 1, NEW k \in 1 .. 3
      PROVE  c[3 * (id - 1) + k] = LineOf(id)[k]
  <2> DEFINE i == 3 * (id - 1) + k
  <2>1. CASE id \in 1 .. n
    <3>1. i \in 1 .. 3 * n
      BY <2>1
    <3>2. s[i] = LineOf(id)[k]
      BY <1>3, <2>1, Zenon
    <3> HIDE DEF i
    <3>3. c[i] = s[i]
      BY <1>2, <1>3, <1>4, <3>1
    <3> QED
      BY <3>2, <3>3 DEF i
  <2>2. CASE id = n + 1
    <3>1. i \in 3 * n + 1 .. 3 * n + 3 /\ i - 3 * n = k
      BY <2>2
    <3> HIDE DEF i
    <3>2. c[i] = l[k]
      BY <1>2, <1>3, <1>4, <3>1
    <3> QED
      BY <2>2, <3>2 DEF i, l
  <2> QED
    BY <2>1, <2>2
<1>6. Len(c) = 3 * (n + 1)
  BY <1>2, <1>3, <1>4
<1> QED
  BY <1>5, <1>6 DEF HoldsLines, c, l

\* readline(): the pieces up to the first newline, or all that are left.
LEMMA ReadLineFacts ==
  ASSUME NEW s \in Seq(Piece), s # <<>>
  PROVE  /\ ReadLine(s) \in Seq(Piece) /\ Len(ReadLine(s)) \in 1 .. Len(s)
         /\ \A i \in 1 .. Len(ReadLine(s)) : ReadLine(s)[i] = s[i]
         /\ \A i \in 1 .. Len(ReadLine(s)) - 1 : s[i].part # "newline"
         /\ s[Len(ReadLine(s))].part = "newline" \/ Len(ReadLine(s)) = Len(s)
<1>1. /\ Len(s) \in Nat \ {0} /\ DOMAIN s = 1 .. Len(s)
      /\ \A i \in 1 .. Len(s) : s[i] \in Piece
  BY LenProperties, EmptySeq, ElementOfSeq
<1>2. CASE Newlines(s) = {}
  <2>1. ReadLine(s) = s
    BY <1>2 DEF ReadLine
  <2> QED
    BY <1>1, <1>2, <2>1 DEF Newlines
<1>3. CASE Newlines(s) # {}
  <2> DEFINE m == Min(Newlines(s))
             l == SubSeq(s, 1, m)
  <2>1. m \in Newlines(s) /\ \A i \in Newlines(s) : m <= i
    <3>1. Newlines(s) \subseteq Nat
      BY <1>1 DEF Newlines
    <3> QED
      BY <1>3, <3>1, LeastElement
  <2> HIDE DEF m
  <2>2. m \in 1 .. Len(s) /\ s[m].part = "newline"
    BY <1>1, <2>1 DEF Newlines
  <2>3. \A i \in 1 .. m - 1 : s[i].part # "newline"
    BY <1>1, <2>1, <2>2 DEF Newlines
  <2>4. l \in Seq(Piece) /\ Len(l) = m /\ \A i \in 1 .. m : l[i] = s[i]
    <3>1. \A i \in 1 .. m : s[i] \in Piece
      BY <1>1, <2>2
    <3> QED
      BY <1>1, <2>2, <3>1, SubSeqProperties
  <2>5. ReadLine(s) = l
    BY <1>3 DEF ReadLine, m
  <2> HIDE DEF l
  <2> QED
    BY <1>1, <2>2, <2>3, <2>4, <2>5
<1> QED
  BY <1>2, <1>3

\* The line that starts after p pieces of a file.
LEMMA NextLineFacts ==
  ASSUME NEW f \in Seq(Piece), NEW p \in 0 .. Len(f), p < Len(f),
         NEW line, line = ReadLine(SubSeq(f, p + 1, Len(f)))
  PROVE  /\ line \in Seq(Piece) /\ Len(line) \in 1 .. Len(f) - p
         /\ \A i \in 1 .. Len(line) : line[i] = f[p + i]
         /\ \A i \in 1 .. Len(line) - 1 : f[p + i].part # "newline"
         /\ f[p + Len(line)].part = "newline" \/ p + Len(line) = Len(f)
<1> DEFINE s == SubSeq(f, p + 1, Len(f))
<1>1. Len(f) \in Nat /\ \A i \in p + 1 .. Len(f) : f[i] \in Piece
  BY LenProperties, ElementOfSeq
<1>2. /\ s \in Seq(Piece) /\ Len(s) = Len(f) - p
      /\ \A i \in 1 .. Len(f) - p : s[i] = f[p + i]
  <2>1. /\ s \in Seq(Piece)
        /\ Len(s) = IF p + 1 <= Len(f) THEN Len(f) - (p + 1) + 1 ELSE 0
        /\ \A i \in 1 .. Len(f) - (p + 1) + 1 : s[i] = f[p + 1 + i - 1]
    BY <1>1, SubSeqProperties
  <2> HIDE DEF s
  <2>2. ASSUME NEW i \in 1 .. Len(f) - p PROVE s[i] = f[p + i]
    <3>1. i \in 1 .. Len(f) - (p + 1) + 1 /\ p + 1 + i - 1 = p + i
      BY <1>1
    <3> QED
      BY <2>1, <3>1
  <2> QED
    BY <1>1, <2>1, <2>2
<1>3. line = ReadLine(s)
  OBVIOUS
<1> HIDE DEF s
<1>4. s # <<>>
  BY <1>1, <1>2, EmptySeq
<1>5. /\ line \in Seq(Piece) /\ Len(line) \in 1 .. Len(s)
      /\ \A i \in 1 .. Len(line) : line[i] = s[i]
      /\ \A i \in 1 .. Len(line) - 1 : s[i].part # "newline"
      /\ s[Len(line)].part = "newline" \/ Len(line) = Len(s)
  <2>1. s \in Seq(Piece)
    BY <1>2
  <2> QED
    BY <1>3, <1>4, <2>1, ReadLineFacts, Zenon
<1>6. Len(line) \in 1 .. Len(f) - p
  BY <1>1, <1>2, <1>5
<1>7. ASSUME NEW i \in 1 .. Len(line) PROVE line[i] = f[p + i] /\ s[i] = f[p + i]
  <2>1. i \in 1 .. Len(f) - p
    BY <1>1, <1>6
  <2> QED
    BY <1>2, <1>5, <2>1
<1>8. ASSUME NEW i \in 1 .. Len(line) - 1 PROVE f[p + i].part # "newline"
  <2>1. i \in 1 .. Len(line)
    BY <1>1, <1>6
  <2>2. s[i] = f[p + i]
    BY <1>7, <2>1
  <2> QED
    BY <1>5, <2>2
<1>9. f[p + Len(line)].part = "newline" \/ p + Len(line) = Len(f)
  BY <1>1, <1>2, <1>5, <1>6, <1>7
<1> QED
  BY <1>5, <1>6, <1>7, <1>8, <1>9

\* rstrip() leaves a line's pieces but the newline.
LEMMA StrippedFacts ==
  ASSUME NEW line \in Seq(Piece), line # <<>>
  PROVE  /\ Stripped(line) \in Seq(Piece)
         /\ Len(Stripped(line)) = IF line[Len(line)].part = "newline" THEN Len(line) - 1
                                  ELSE Len(line)
         /\ \A i \in 1 .. Len(Stripped(line)) : Stripped(line)[i] = line[i]
<1>1. Len(line) \in Nat \ {0} /\ \A i \in 1 .. Len(line) : line[i] \in Piece
  BY LenProperties, EmptySeq, ElementOfSeq
<1>2. CASE line[Len(line)].part = "newline"
  <2> DEFINE n == Len(line) - 1
             s == SubSeq(line, 1, n)
  <2>1. n \in Nat /\ \A i \in 1 .. n : line[i] \in Piece
    BY <1>1
  <2> HIDE DEF n
  <2>2. s \in Seq(Piece) /\ Len(s) = n /\ \A i \in 1 .. n : s[i] = line[i]
    BY <2>1, SubSeqProperties
  <2>3. Stripped(line) = s
    BY <1>2 DEF Stripped, Last, Front, n
  <2> HIDE DEF s
  <2> QED
    BY <1>2, <2>2, <2>3 DEF n
<1>3. CASE line[Len(line)].part # "newline"
  BY <1>1, <1>3 DEF Stripped, Last
<1> QED
  BY <1>2, <1>3

-----------------------------------------------------------------------------
(* The inductive invariant.                                                *)

Payload == [form : {"original", "line"}, line : Seq(Piece)]

\* TypeOK and what it leaves out.
Types ==
  /\ TypeOK
  /\ file \in Seq(Piece) /\ buffer \in Seq(Piece) /\ sent \in Seq(Payload)
  /\ crashes \in Nat

\* Outside the with statement nothing is buffered, and the loop never waits
\* for a message with a flush overdue.
Buffered ==
  /\ recorder \notin {"recv", "flush", "leave"} => buffer = <<>> /\ lines_since_flush = 0
  /\ recorder = "recv" => lines_since_flush < FlushEvery

\* Without a crash, the file and what is buffered for it hold every message.
Clean == crashes = 0 => HoldsLines(file \o buffer, received)

\* A pass over a finished recording is at a line's end.
Pass ==
  settled =>
    /\ recorder = "exited" /\ crashes = 0
    /\ position = 3 * Len(sent)
    /\ \A i \in DOMAIN sent : sent[i] = ReplayPayload(Json(i))
    /\ replay = "open" /\ exists => Len(sent) = received

IInv == Types /\ Buffered /\ Clean /\ Pass /\ PayloadsUnmixed

-----------------------------------------------------------------------------
(* The file.                                                               *)

\* Some of what is buffered, and the rest.
LEMMA SplitBuffer ==
  ASSUME NEW S, NEW p \in Seq(S), NEW n \in 0 .. Len(p)
  PROVE  /\ SubSeq(p, 1, n) \in Seq(S) /\ SubSeq(p, n + 1, Len(p)) \in Seq(S)
         /\ SubSeq(p, 1, n) \o SubSeq(p, n + 1, Len(p)) = p
<1>1. Len(p) \in Nat /\ \A i \in 1 .. Len(p) : p[i] \in S
  BY LenProperties, ElementOfSeq
<1>2. SubSeq(p, 1, n) \in Seq(S)
  <2>1. \A i \in 1 .. n : p[i] \in S
    BY <1>1
  <2> QED
    BY <2>1, SubSeqProperties
<1>3. SubSeq(p, n + 1, Len(p)) \in Seq(S)
  <2>1. \A i \in n + 1 .. Len(p) : p[i] \in S
    BY <1>1
  <2>2. n + 1 \in Int /\ Len(p) \in Int
    BY <1>1
  <2> QED
    BY <2>1, <2>2, SubSeqProperties
<1>4. 1 \in 1 .. Len(p) + 1 /\ n \in 1 - 1 .. Len(p) /\ Len(p) \in n .. Len(p)
  BY <1>1
<1>5. SubSeq(p, 1, n) \o SubSeq(p, n + 1, Len(p)) = SubSeq(p, 1, Len(p))
  BY <1>4, ConcatAdjacentSubSeq
<1>6. SubSeq(p, 1, Len(p)) = p
  BY SubSeqFull
<1> QED
  BY <1>2, <1>3, <1>5, <1>6, Zenon

\* Handing a to the operating system and keeping b.
LEMMA WriteOut ==
  ASSUME NEW S, NEW f \in Seq(S), NEW a \in Seq(S), NEW b \in Seq(S),
         NEW p, p = a \o b
  PROVE  /\ f \o a \in Seq(S) /\ Len(f) <= Len(f \o a)
         /\ (f \o a) \o b = f \o p
<1>1. f \o a \in Seq(S) /\ Len(f \o a) = Len(f) + Len(a) /\ Len(f) \in Nat /\ Len(a) \in Nat
  BY ConcatProperties, LenProperties
<1> QED
  BY <1>1, ConcatAssociative, SMTT(30)

\* Closing or flushing the file.
LEMMA WriteAll ==
  ASSUME NEW S, NEW f \in Seq(S), NEW b \in Seq(S)
  PROVE  /\ f \o b \in Seq(S) /\ Len(f) <= Len(f \o b)
         /\ (f \o b) \o <<>> = f \o b
<1>1. f \o b \in Seq(S) /\ Len(f \o b) = Len(f) + Len(b) /\ Len(f) \in Nat /\ Len(b) \in Nat
  BY ConcatProperties, LenProperties
<1> QED
  BY <1>1, ConcatEmptySeq

\* The file only grows, and what is in it or on its way changes only when a
\* message arrives or the process crashes.
LEMMA StorageStep ==
  ASSUME Types, [Next]_vars
  PROVE  /\ file' \in Seq(Piece) /\ buffer' \in Seq(Piece)
         /\ Len(file) <= Len(file')
         /\ \/ received' = received /\ file' \o buffer' = file \o buffer
            \/ /\ received' = received + 1
               /\ file' \o buffer' = (file \o buffer) \o LineOf(received + 1)
            \/ Crash
<1>1. file \in Seq(Piece) /\ buffer \in Seq(Piece) /\ Len(file) \in Nat /\ received \in Nat
  BY LenProperties, MessagesAssumption DEF Types, TypeOK, RecorderTypeOK
<1>2. CASE RecvMessage
  <2> DEFINE line == LineOf(received + 1)
             pending == buffer \o line
  <2>1. line \in Seq(Piece)
    BY <1>1, LineFacts, SMTT(30)
  <2>2. /\ received' = received + 1
        /\ \E n \in 0 .. Len(pending) :
             /\ file' = file \o SubSeq(pending, 1, n)
             /\ buffer' = SubSeq(pending, n + 1, Len(pending))
    BY <1>2 DEF RecvMessage
  <2> HIDE DEF line
  <2>3. pending \in Seq(Piece) /\ file \o pending = (file \o buffer) \o line
    BY <1>1, <2>1, ConcatProperties, ConcatAssociative, SMTT(30)
  <2> HIDE DEF pending
  <2>4. PICK n \in 0 .. Len(pending) :
             /\ file' = file \o SubSeq(pending, 1, n)
             /\ buffer' = SubSeq(pending, n + 1, Len(pending))
    BY <2>2
  <2>5. /\ file' \in Seq(Piece) /\ buffer' \in Seq(Piece)
        /\ Len(file) <= Len(file')
        /\ file' \o buffer' = file \o pending
    <3> DEFINE a == SubSeq(pending, 1, n)
               b == SubSeq(pending, n + 1, Len(pending))
    <3>1. a \in Seq(Piece) /\ b \in Seq(Piece) /\ pending = a \o b
      <4>1. pending \in Seq(Piece)
        BY <2>3
      <4> QED
        BY ONLY <4>1, n \in 0 .. Len(pending), SplitBuffer, Zenon
    <3>2. file' = file \o a /\ buffer' = b
      BY <2>4
    <3> HIDE DEF a, b
    <3>3. /\ file \o a \in Seq(Piece) /\ Len(file) <= Len(file \o a)
          /\ (file \o a) \o b = file \o pending
      BY ONLY <1>1, <3>1, WriteOut, SMTT(30)
    <3> QED
      BY <3>1, <3>2, <3>3, Zenon
  <2> QED
    BY <2>2, <2>3, <2>5, Zenon DEF line
<1>3. CASE Flush \/ Leave
  <2>1. \/ file' = file \o buffer /\ buffer' = <<>>
        \/ file' = file /\ buffer' = buffer
    BY <1>3 DEF Flush, Leave
  <2>2. received' = received
    BY <1>3 DEF Flush, Leave, history
  <2>3. <<>> \in Seq(Piece) /\ Len(file) <= Len(file)
    BY <1>1, EmptySeq
  <2> QED
    BY <1>1, <2>1, <2>2, <2>3, WriteAll, ZenonT(30)
<1>4. CASE Crash
  <2>1. file' = file /\ buffer' = <<>>
    BY <1>4 DEF Crash
  <2> QED
    BY <1>1, <1>4, <2>1, EmptySeq
<1>5. CASE UNCHANGED <<file, buffer, received>>
  BY <1>1, <1>5
<1> QED
  BY <1>2, <1>3, <1>4, <1>5
  DEF Next, vars, RecorderThread, RecorderStep, Connect, ConnectFails, Subscribe, SubscribeFails,
      RecvClosed, JoinPing, CloseConnection, Wait, PingTask, PingStep, PingSend, PingWait,
      Pong, RecvPong, Venue, World, Environment, RequestStop, LoseConnection, Restart,
      ReplayHandler, Client, recorderVars, storage, history

\* The pieces of a file that no crash has torn.
LEMMA CleanPiece ==
  ASSUME Types, Clean, crashes = 0, NEW i \in 1 .. Len(file)
  PROVE  /\ \E id \in 1 .. received, k \in 1 .. 3 : i = 3 * (id - 1) + k
         /\ \A id \in 1 .. received, k \in 1 .. 3 :
              i = 3 * (id - 1) + k => /\ file[i] = LineOf(id)[k]
                                      /\ file[i].id = id
                                      /\ file[i].part = "newline" <=> k = 3
<1> DEFINE c == file \o buffer
<1>1. file \in Seq(Piece) /\ buffer \in Seq(Piece) /\ received \in Nat
  BY MessagesAssumption, LenProperties DEF Types, TypeOK, RecorderTypeOK
<1>2. /\ Len(c) = Len(file) + Len(buffer) /\ Len(file) \in Nat /\ Len(buffer) \in Nat
      /\ \A j \in 1 .. Len(file) + Len(buffer) :
           c[j] = IF j <= Len(file) THEN file[j] ELSE buffer[j - Len(file)]
  BY <1>1, ConcatProperties, LenProperties
<1>3. /\ Len(c) = 3 * received
      /\ \A id \in 1 .. received, k \in 1 .. 3 : c[3 * (id - 1) + k] = LineOf(id)[k]
  BY DEF Clean, HoldsLines
<1> HIDE DEF c
<1>4. i \in 1 .. 3 * received /\ c[i] = file[i]
  BY <1>2, <1>3
<1>5. \E id \in 1 .. received, k \in 1 .. 3 : i = 3 * (id - 1) + k
  BY <1>1, <1>4, PlaceExists
<1>6. ASSUME NEW id \in 1 .. received, NEW k \in 1 .. 3, i = 3 * (id - 1) + k
      PROVE  /\ file[i] = LineOf(id)[k]
             /\ file[i].id = id
             /\ file[i].part = "newline" <=> k = 3
  <2>1. file[i] = LineOf(id)[k]
    BY <1>3, <1>4, <1>6, Zenon
  <2>2. id \in Nat
    BY <1>1
  <2> QED
    BY <2>1, <2>2, LineFacts
<1> QED
  BY <1>5, <1>6

-----------------------------------------------------------------------------
(* Init and Next.                                                          *)

\* The program starts with no file, nothing buffered and no pass begun.
LEMMA InitIInv == Init => IInv
<1> SUFFICES ASSUME Init PROVE IInv
  OBVIOUS
<1> USE DEF Init, InitRecorder, InitReplay
<1>1. Types
  <2>1. Len(file) = 0 /\ file \in Seq(Piece) /\ buffer \in Seq(Piece) /\ sent \in Seq(Payload)
    BY EmptySeq
  <2>2. Len(Messages) \in Nat
    BY MessagesAssumption, LenProperties
  <2> QED
    BY <2>1, <2>2, RecorderAssumption DEF Types, TypeOK, RecorderTypeOK
<1>2. Buffered
  BY DEF Buffered
<1>3. Clean
  <2>1. file \o buffer = <<>> /\ Len(<<>>) = 0
    BY ConcatEmptySeq, EmptySeq
  <2> QED
    BY <2>1 DEF Clean, HoldsLines
<1>4. Pass
  BY DEF Pass
<1>5. PayloadsUnmixed
  BY DEF PayloadsUnmixed
<1> QED
  BY <1>1, <1>2, <1>3, <1>4, <1>5 DEF IInv

\* Every other action than the ones cited leaves the buffer alone.
LEMMA NextBuffered == ASSUME IInv, [Next]_vars PROVE Buffered'
<1> USE RecorderAssumption
    DEF IInv, Types, TypeOK, RecorderTypeOK, Buffered, storage, history, process
<1>1. CASE RecorderThread
  <2> USE DEF RecorderThread
  <2>1. CASE Connect \/ ConnectFails
    BY <2>1 DEF Connect, ConnectFails, AfterConnection
  <2>2. CASE Subscribe \/ SubscribeFails
    BY <2>2 DEF Subscribe, SubscribeFails, Loop
  <2>3. CASE Flush
    BY <2>3 DEF Flush, Loop
  <2>4. CASE RecvClosed \/ Leave
    BY <2>4 DEF RecvClosed, Leave
  <2>5. CASE JoinPing \/ CloseConnection \/ Wait
    BY <2>5 DEF JoinPing, CloseConnection, Wait, AfterConnection
  <2> QED
    BY <1>1, <2>1, <2>2, <2>3, <2>4, <2>5 DEF RecorderStep
<1>2. CASE PingTask
  BY <1>2 DEF PingTask, PingStep, PingSend, PingWait
<1>3. CASE Pong
  BY <1>3 DEF Pong, RecvPong, Loop
<1>4. CASE Venue
  BY <1>4 DEF Venue, RecvMessage
<1>5. CASE World
  <2>1. CASE RequestStop \/ LoseConnection
    BY <2>1 DEF RequestStop, LoseConnection
  <2>2. CASE Crash
    BY <2>2 DEF Crash
  <2>3. CASE Restart
    BY <2>3 DEF Restart, Running
  <2> QED
    BY <1>5, <2>1, <2>2, <2>3 DEF World, Environment
<1>6. CASE ReplayHandler \/ Client
  BY <1>6 DEF ReplayHandler, Client, recorderVars
<1>7. CASE UNCHANGED vars
  BY <1>7 DEF vars
<1> QED
  BY <1>1, <1>2, <1>3, <1>4, <1>5, <1>6, <1>7 DEF Next

\* The delay stops growing.
LEMMA BackoffCapped ==
  ASSUME NEW n \in 0 .. MaxBackoff
  PROVE  Min({n + 1, MaxBackoff}) \in 0 .. MaxBackoff
<1> DEFINE T == {n + 1, MaxBackoff}
<1>1. T \subseteq Nat /\ T # {} /\ MaxBackoff \in T
  BY RecorderAssumption
<1> HIDE DEF T
<1>2. Min(T) \in T /\ \A y \in T : Min(T) <= y
  BY <1>1, LeastElement
<1>3. Min(T) \in Nat /\ Min(T) <= MaxBackoff
  BY <1>1, <1>2, Zenon
<1>4. Min(T) \in 0 .. MaxBackoff
  BY <1>3, RecorderAssumption
<1> QED
  BY <1>4 DEF T

\* The recorder keeps its delay within BACKOFF_MAX_S and its unflushed lines
\* within FLUSH_EVERY_N_LINES.
LEMMA NextRecorderTypes == ASSUME IInv, [Next]_vars PROVE RecorderTypeOK' /\ crashes' \in Nat
<1> USE RecorderAssumption
    DEF IInv, Types, TypeOK, RecorderTypeOK, storage, history, process, connection
<1>1. Len(Messages) \in Nat
  BY MessagesAssumption, LenProperties
<1>2. CASE RecorderThread
  <2> USE DEF RecorderThread
  <2>1. CASE Connect \/ ConnectFails
    BY <2>1 DEF Connect, ConnectFails, AfterConnection
  <2>2. CASE Subscribe \/ SubscribeFails
    BY <2>2 DEF Subscribe, SubscribeFails, Loop
  <2>3. CASE Flush
    BY <2>3 DEF Flush, Loop
  <2>4. CASE RecvClosed \/ Leave
    BY <2>4, SMTT(30) DEF RecvClosed, Leave
  <2>5. CASE JoinPing \/ CloseConnection
    BY <2>5 DEF JoinPing, CloseConnection, AfterConnection
  <2>6. CASE Wait
    <3>1. backoff' \in 0 .. MaxBackoff
      BY <2>6, BackoffCapped DEF Wait
    <3> QED
      BY <2>6, <3>1 DEF Wait
  <2> QED
    BY <1>2, <2>1, <2>2, <2>3, <2>4, <2>5, <2>6 DEF RecorderStep
<1>3. CASE PingTask
  BY <1>3 DEF PingTask, PingStep, PingSend, PingWait
<1>4. CASE Pong
  BY <1>4 DEF Pong, RecvPong, Loop
<1>5. CASE Venue
  <2>1. /\ received' \in 0 .. Len(Messages) /\ lines_since_flush' \in 0 .. FlushEvery
        /\ recorder' = "flush" /\ UNCHANGED <<ping, backoff, crashes>>
    BY <1>1, <1>5 DEF Venue, RecvMessage, Buffered
  <2> QED
    BY <2>1
<1>6. CASE World
  BY <1>6, SMTT(30) DEF World, Environment, RequestStop, LoseConnection, Crash, Restart
<1>7. CASE ReplayHandler \/ Client
  BY <1>7 DEF ReplayHandler, Client, recorderVars
<1>8. CASE UNCHANGED vars
  BY <1>8 DEF vars
<1> QED
  BY <1>2, <1>3, <1>4, <1>5, <1>6, <1>7, <1>8 DEF Next

\* What a pass sends next.
LEMMA SendLineFacts ==
  ASSUME IInv, SendLine, NEW line, line = ReadLine(SubSeq(file, position + 1, Len(file)))
  PROVE  /\ line \in Seq(Piece) /\ line # <<>>
         /\ Len(line) \in 1 .. Len(file) - position
         /\ Stripped(line) \in Seq(Piece)
         /\ ReplayPayload(Stripped(line)) \in Payload
         /\ ReplayPayload(Stripped(line)).line = Stripped(line)
<1>1. file \in Seq(Piece) /\ position \in 0 .. Len(file) /\ position < Len(file)
  BY DEF IInv, Types, TypeOK, SendLine
<1>2. line \in Seq(Piece) /\ Len(line) \in 1 .. Len(file) - position
  BY <1>1, NextLineFacts
<1>3. line # <<>>
  BY <1>1, <1>2, LenProperties, EmptySeq
<1>4. Stripped(line) \in Seq(Piece)
  BY <1>2, <1>3, StrippedFacts
<1> QED
  BY <1>2, <1>3, <1>4 DEF ReplayPayload, Payload

\* The reader never passes the end of the file, which only grows.
LEMMA NextTypes == ASSUME IInv, [Next]_vars PROVE Types'
<1>1. /\ RecorderTypeOK' /\ crashes' \in Nat
      /\ file' \in Seq(Piece) /\ buffer' \in Seq(Piece) /\ Len(file) <= Len(file')
      /\ Len(file) \in Nat /\ Len(file') \in Nat
  BY NextRecorderTypes, StorageStep, LenProperties DEF IInv, Types
<1>2. /\ position \in 0 .. Len(file) /\ sent \in Seq(Payload)
      /\ replay \in {"open", "send", "ended"}
  BY DEF IInv, Types, TypeOK
<1> SUFFICES /\ position' \in 0 .. Len(file') /\ sent' \in Seq(Payload)
             /\ replay' \in {"open", "send", "ended"}
  BY <1>1 DEF Types, TypeOK
<1>3. CASE ReplayHandler
  <2>1. file' = file
    BY <1>3 DEF ReplayHandler, recorderVars
  <2>2. CASE OpenRecording
    BY <1>1, <2>2, EmptySeq DEF OpenRecording
  <2>3. CASE SendLine
    <3> DEFINE line == ReadLine(SubSeq(file, position + 1, Len(file)))
               payload == ReplayPayload(Stripped(line))
    <3>1. Len(line) \in 1 .. Len(file) - position /\ payload \in Payload
      BY <2>3, SendLineFacts
    <3>2. /\ position' = 0 \/ position' = position + Len(line)
          /\ sent' = <<>> \/ sent' = sent \/ sent' = Append(sent, payload)
          /\ replay' = "ended" \/ replay' = replay
      BY <2>3 DEF SendLine
    <3> HIDE DEF line, payload
    <3>3. Append(sent, payload) \in Seq(Payload)
      BY <1>2, <3>1, AppendProperties
    <3>4. sent' \in Seq(Payload)
      BY <1>2, <3>2, <3>3, EmptySeq, Zenon
    <3> QED
      BY <1>1, <1>2, <2>1, <3>1, <3>2, <3>4
  <2>4. CASE EndOfFile
    BY <1>2, <2>1, <2>4 DEF EndOfFile
  <2> QED
    BY <1>3, <2>2, <2>3, <2>4 DEF ReplayHandler, ReplayStep
<1>4. CASE UNCHANGED <<position, sent, replay>>
  BY <1>1, <1>2, <1>4
<1> QED
  BY <1>3, <1>4
  DEF Next, vars, RecorderThread, PingTask, Pong, Venue, World, Client, ClientLeaves, replayVars

\* crashes is never reset.
LEMMA CleanBefore ==
  ASSUME IInv, [Next]_vars, crashes' = 0
  PROVE  crashes = 0 /\ ~Crash
<1>1. crashes \in Nat
  BY DEF IInv, Types
<1>2. crashes' = crashes \/ crashes' = crashes + 1
  BY DEF Next, vars, RecorderThread, RecorderStep, Connect, ConnectFails, Subscribe,
         SubscribeFails, Flush, RecvClosed, Leave, JoinPing, CloseConnection, Wait,
         PingTask, PingStep, PingSend, PingWait, Pong, RecvPong, Venue, RecvMessage,
         World, Environment, RequestStop, LoseConnection, Crash, Restart,
         ReplayHandler, Client, recorderVars, history
<1> QED
  BY <1>1, <1>2 DEF Crash

\* A message adds its line; a crash leaves the clean case.
LEMMA NextClean == ASSUME IInv, [Next]_vars PROVE Clean'
<1> SUFFICES ASSUME crashes' = 0 PROVE HoldsLines(file' \o buffer', received')
  BY DEF Clean
<1>1. received \in Nat /\ file \in Seq(Piece) /\ buffer \in Seq(Piece)
  BY MessagesAssumption, LenProperties DEF IInv, Types, TypeOK, RecorderTypeOK
<1>2. crashes = 0 /\ ~Crash
  BY CleanBefore
<1>3. HoldsLines(file \o buffer, received)
  BY <1>2 DEF IInv, Clean
<1>4. CASE received' = received /\ file' \o buffer' = file \o buffer
  BY <1>3, <1>4, Zenon
<1>5. CASE /\ received' = received + 1
           /\ file' \o buffer' = (file \o buffer) \o LineOf(received + 1)
  <2> DEFINE c == file \o buffer
  <2>1. c \in Seq(Piece) /\ HoldsLines(c, received)
    BY <1>1, <1>3, ConcatProperties
  <2> HIDE DEF c
  <2>2. HoldsLines(c \o LineOf(received + 1), received + 1)
    BY <1>1, <2>1, AddLine
  <2> QED
    BY <1>5, <2>2, Zenon DEF c
<1> QED
  BY <1>2, <1>4, <1>5, StorageStep DEF IInv

-----------------------------------------------------------------------------
(* The replay.                                                             *)

\* A line, or what there is of it, has pieces of one message: between pieces
\* of two there is a newline.
LEMMA LineUnmixed ==
  ASSUME IInv, crashes = 0, position < Len(file),
         NEW line, line = ReadLine(SubSeq(file, position + 1, Len(file))),
         NEW j \in 1 .. Len(line), NEW k \in 1 .. Len(line), j < k
  PROVE  line[j].id = line[k].id
<1>1. file \in Seq(Piece) /\ position \in 0 .. Len(file) /\ Len(file) \in Nat /\ Types /\ Clean
  BY LenProperties DEF IInv, Types, TypeOK
<1>2. /\ Len(line) \in 1 .. Len(file) - position
      /\ \A i \in 1 .. Len(line) : line[i] = file[position + i]
      /\ \A i \in 1 .. Len(line) - 1 : file[position + i].part # "newline"
  BY <1>1, NextLineFacts
<1> DEFINE a == position + j
           b == position + k
<1>3. /\ a \in 1 .. Len(file) /\ b \in 1 .. Len(file) /\ a < b
      /\ line[j] = file[a] /\ line[k] = file[b]
  BY <1>1, <1>2
<1>4. PICK p \in 1 .. received, u \in 1 .. 3 : a = 3 * (p - 1) + u
  BY <1>1, <1>3, CleanPiece
<1>5. PICK q \in 1 .. received, v \in 1 .. 3 : b = 3 * (q - 1) + v
  BY <1>1, <1>3, CleanPiece
<1>6. file[a].id = p /\ file[b].id = q
  BY <1>1, <1>3, <1>4, <1>5, CleanPiece, ZenonT(30)
<1>7. ASSUME p # q PROVE FALSE
  <2> DEFINE n == 3 * (p - 1) + 3
  <2>1. n \in 1 .. Len(file) /\ n - position \in 1 .. Len(line) - 1
    <3> DEFINE L == Len(line)
               F == Len(file)
    <3>1. /\ position \in Nat /\ F \in Nat /\ position <= F /\ L \in 1 .. F - position
          /\ j \in 1 .. L /\ k \in 1 .. L /\ j < k /\ received \in Nat
      BY <1>1, <1>2, MessagesAssumption, LenProperties DEF Types, TypeOK, RecorderTypeOK
    <3>2. /\ p \in 1 .. received /\ q \in 1 .. received /\ u \in 1 .. 3 /\ v \in 1 .. 3
          /\ position + j = 3 * (p - 1) + u /\ position + k = 3 * (q - 1) + v /\ p # q
      BY <1>4, <1>5, <1>7
    <3> HIDE DEF L, F
    <3>3. n \in 1 .. F /\ n - position \in 1 .. L - 1
      BY ONLY <3>1, <3>2
    <3> QED
      BY <3>3 DEF L, F
  <2>2. file[n].part = "newline"
    <3>1. n = 3 * (p - 1) + 3 /\ 3 \in 1 .. 3 /\ p \in 1 .. received
      OBVIOUS
    <3> HIDE DEF n
    <3>2. \A id \in 1 .. received, i \in 1 .. 3 :
            n = 3 * (id - 1) + i => (file[n].part = "newline" <=> i = 3)
      BY <1>1, <2>1, CleanPiece
    <3> QED
      BY <3>1, <3>2
  <2>3. position + (n - position) = n
    BY <1>1
  <2> HIDE DEF n
  <2> QED
    BY <1>2, <2>1, <2>2, <2>3
<1> QED
  BY <1>3, <1>6, <1>7

\* One payload more.
LEMMA AppendFacts ==
  ASSUME NEW S, NEW s \in Seq(S), NEW e \in S, NEW t, t = Append(s, e)
  PROVE  /\ Len(s) \in Nat /\ DOMAIN s = 1 .. Len(s)
         /\ Len(t) = Len(s) + 1 /\ DOMAIN t = 1 .. Len(s) + 1
         /\ \A i \in 1 .. Len(s) : t[i] = s[i]
         /\ t[Len(s) + 1] = e
<1>1. /\ t \in Seq(S) /\ Len(t) = Len(s) + 1
      /\ \A i \in 1 .. Len(s) : t[i] = s[i]
      /\ t[Len(s) + 1] = e
  BY AppendProperties
<1>2. /\ Len(s) \in Nat /\ DOMAIN s = 1 .. Len(s)
      /\ DOMAIN t = 1 .. Len(t)
  BY <1>1, LenProperties
<1> QED
  BY <1>1, <1>2

OneMessage(payload) ==
  \A j, k \in DOMAIN payload.line : payload.line[j].id = payload.line[k].id

\* Each payload that is sent is one line, stripped.
LEMMA NextUnmixed == ASSUME IInv, [Next]_vars PROVE PayloadsUnmixed'
<1> DEFINE after == sent'
<1> SUFFICES ASSUME crashes' = 0 PROVE \A i \in DOMAIN after : OneMessage(after[i])
  BY DEF PayloadsUnmixed, OneMessage
<1>1. crashes = 0
  BY CleanBefore
<1>2. \A i \in DOMAIN sent : OneMessage(sent[i])
  BY <1>1 DEF IInv, PayloadsUnmixed, OneMessage
<1>3. CASE sent' = sent
  <2>1. after = sent
    BY <1>3
  <2> HIDE DEF after
  <2> QED
    BY <1>2, <2>1
<1>4. CASE sent' = <<>>
  <2>1. DOMAIN <<>> = {} /\ after = <<>>
    BY <1>4
  <2> HIDE DEF after
  <2> QED
    BY <2>1, Zenon
<1>5. CASE SendLine /\ sent' # sent /\ sent' # <<>>
  <2> DEFINE line == ReadLine(SubSeq(file, position + 1, Len(file)))
             payload == ReplayPayload(Stripped(line))
  <2>1. /\ line \in Seq(Piece) /\ line # <<>> /\ Stripped(line) \in Seq(Piece)
        /\ payload \in Payload /\ payload.line = Stripped(line)
    BY <1>5, SendLineFacts
  <2>2. OneMessage(payload)
    <3> SUFFICES ASSUME NEW j \in DOMAIN payload.line, NEW k \in DOMAIN payload.line
                 PROVE  payload.line[j].id = payload.line[k].id
      BY DEF OneMessage
    <3>1. position < Len(file)
      BY <1>5 DEF SendLine
    <3>2. \A i1, i2 \in 1 .. Len(line) : i1 < i2 => line[i1].id = line[i2].id
      BY <1>1, <3>1, LineUnmixed
    <3> HIDE DEF line
    <3>3. /\ Len(Stripped(line)) \in Nat /\ Len(line) \in Nat
          /\ DOMAIN Stripped(line) = 1 .. Len(Stripped(line))
      BY <2>1, LenProperties
    <3>4. /\ Len(Stripped(line)) = IF line[Len(line)].part = "newline" THEN Len(line) - 1
                                   ELSE Len(line)
          /\ \A i \in 1 .. Len(Stripped(line)) : Stripped(line)[i] = line[i]
      BY <2>1, StrippedFacts
    <3>5. /\ j \in 1 .. Len(line) /\ k \in 1 .. Len(line)
          /\ payload.line[j] = line[j] /\ payload.line[k] = line[k]
      BY <2>1, <3>3, <3>4
    <3>6. line[j].id = line[k].id
      BY <3>2, <3>5
    <3> QED
      BY <3>5, <3>6
  <2>3. after = Append(sent, payload)
    BY <1>5 DEF SendLine
  <2>4. sent \in Seq(Payload)
    BY DEF IInv, Types
  <2>5. payload \in Payload
    BY <2>1
  <2> HIDE DEF payload, after
  <2>6. /\ Len(sent) \in Nat /\ DOMAIN sent = 1 .. Len(sent)
        /\ DOMAIN after = 1 .. Len(sent) + 1
        /\ \A i \in 1 .. Len(sent) : after[i] = sent[i]
        /\ after[Len(sent) + 1] = payload
    BY ONLY <2>3, <2>4, <2>5, AppendFacts
  <2>7. ASSUME NEW i \in DOMAIN after
        PROVE  (i \in DOMAIN sent /\ after[i] = sent[i]) \/ after[i] = payload
    BY <2>6
  <2> QED
    BY <1>2, <2>2, <2>7
<1> QED
  BY <1>3, <1>4, <1>5
  DEF Next, vars, RecorderThread, PingTask, Pong, Venue, World, ReplayHandler, ReplayStep,
      OpenRecording, EndOfFile, Client, ClientLeaves, replayVars

\* In a file of whole lines, a reader at the end of one reads the next.
LEMMA WholeLine ==
  ASSUME NEW f \in Seq(Piece), NEW n \in Nat, HoldsLines(f, n),
         NEW m \in Nat, NEW p, p = 3 * m, p < Len(f),
         NEW line, line = ReadLine(SubSeq(f, p + 1, Len(f)))
  PROVE  m + 1 \in 1 .. n /\ Len(line) = 3 /\ Stripped(line) = Json(m + 1)
<1>1. /\ Len(f) = 3 * n
      /\ \A id \in 1 .. n, k \in 1 .. 3 : f[3 * (id - 1) + k] = LineOf(id)[k]
  BY DEF HoldsLines
<1>2. m + 1 \in 1 .. n /\ p \in 0 .. Len(f)
  BY <1>1
<1>3. ASSUME NEW k \in 1 .. 3
      PROVE  f[p + k] = LineOf(m + 1)[k] /\ (f[p + k].part = "newline" <=> k = 3)
  <2>1. p + k = 3 * ((m + 1) - 1) + k
    OBVIOUS
  <2>2. f[p + k] = LineOf(m + 1)[k]
    BY <1>1, <1>2, <2>1, Zenon
  <2>3. LineOf(m + 1)[k].part = "newline" <=> k = 3
    BY LineFacts, SMTT(30)
  <2> QED
    BY <2>2, <2>3, Zenon
<1>4. /\ line \in Seq(Piece) /\ Len(line) \in 1 .. Len(f) - p
      /\ \A i \in 1 .. Len(line) : line[i] = f[p + i]
      /\ \A i \in 1 .. Len(line) - 1 : f[p + i].part # "newline"
      /\ f[p + Len(line)].part = "newline" \/ p + Len(line) = Len(f)
  BY ONLY f \in Seq(Piece), p < Len(f), line = ReadLine(SubSeq(f, p + 1, Len(f))), <1>2,
          NextLineFacts, Z3
<1>5. Len(line) = 3
  <2> DEFINE L == Len(line)
  <2>1. L \in Nat /\ L >= 1 /\ L <= 3 * n - p /\ p + 3 <= 3 * n
    BY <1>1, <1>2, <1>4
  <2>2. \A i \in 1 .. L - 1 : f[p + i].part # "newline"
    BY <1>4
  <2>3. f[p + L].part = "newline" \/ p + L = 3 * n
    BY <1>1, <1>4
  <2> HIDE DEF L
  <2>4. L <= 3
    <3>1. 3 \in 1 .. 3 /\ f[p + 3].part = "newline"
      BY <1>3
    <3> QED
      BY <2>1, <2>2, <3>1
  <2>5. ~(L < 3)
    <3>1. SUFFICES ASSUME L < 3 PROVE FALSE
      OBVIOUS
    <3>2. L \in 1 .. 3 /\ L # 3 /\ p + L # 3 * n
      BY <2>1, <3>1
    <3>3. f[p + L].part # "newline"
      BY ONLY <1>3, <3>2, Zenon
    <3> QED
      BY <2>3, <3>2, <3>3
  <2>6. L = 3
    BY ONLY <2>1, <2>4, <2>5
  <2> QED
    BY <2>6 DEF L
<1>6. \A i \in 1 .. 3 : line[i] = LineOf(m + 1)[i] /\ (line[i].part = "newline" <=> i = 3)
  <2> SUFFICES ASSUME NEW i \in 1 .. 3
               PROVE  line[i] = LineOf(m + 1)[i] /\ (line[i].part = "newline" <=> i = 3)
    OBVIOUS
  <2>1. line[i] = f[p + i]
    BY <1>4, <1>5
  <2> QED
    BY <1>3, <2>1
<1> DEFINE s == Stripped(line)
           j == Json(m + 1)
<1>7. line # <<>>
  <2>1. Len(<<>>) = 0
    OBVIOUS
  <2> QED
    BY ONLY <1>5, <2>1
<1>8. /\ s \in Seq(Piece)
      /\ Len(s) = IF line[Len(line)].part = "newline" THEN Len(line) - 1 ELSE Len(line)
      /\ \A i \in 1 .. Len(s) : s[i] = line[i]
  <2>1. line \in Seq(Piece)
    BY <1>4
  <2> QED
    BY <1>7, <2>1, StrippedFacts, Zenon
<1>9. j \in Seq(Piece) /\ Len(j) = 2 /\ LineOf(m + 1)[1] = j[1] /\ LineOf(m + 1)[2] = j[2]
  BY LineFacts
<1> HIDE DEF s, j
<1>10. line[3].part = "newline" /\ line[1] = j[1] /\ line[2] = j[2]
  BY <1>6, <1>9
<1>11. Len(s) = 2
  BY <1>5, <1>8, <1>10
<1>12. \A i \in 1 .. 2 : s[i] = j[i]
  <2>1. s[1] = line[1] /\ s[2] = line[2]
    <3>1. 1 \in 1 .. Len(s) /\ 2 \in 1 .. Len(s)
      BY ONLY <1>11
    <3> QED
      BY ONLY <1>8, <3>1, Zenon
  <2>2. \A i \in 1 .. 2 : i = 1 \/ i = 2
    OBVIOUS
  <2> QED
    BY <1>10, <2>1, <2>2
<1>13. s = j
  <2>1. s \in Seq(Piece) /\ j \in Seq(Piece)
    BY <1>8, <1>9
  <2>2. Len(s) = Len(j) /\ \A i \in 1 .. Len(s) : s[i] = j[i]
    BY <1>9, <1>11, <1>12
  <2> QED
    BY <2>1, <2>2, SeqEqual
<1> QED
  BY <1>2, <1>5, <1>13 DEF s, j

\* A recorder that has ended without a crash leaves whole lines.
LEMMA FinishedFile ==
  ASSUME IInv, recorder = "exited", crashes = 0
  PROVE  HoldsLines(file, received)
<1>1. buffer = <<>> /\ file \in Seq(Piece)
  BY DEF IInv, Types, Buffered
<1>2. file \o buffer = file
  BY <1>1, ConcatEmptySeq
<1>3. HoldsLines(file \o buffer, received)
  BY DEF IInv, Clean
<1> QED
  BY <1>2, <1>3, Zenon

\* A pass over a finished recording sends its messages in order; a recorder
\* that is started again unsettles it.
LEMMA NextPass == ASSUME IInv, [Next]_vars PROVE Pass'
<1> SUFFICES ASSUME settled'
             PROVE  /\ recorder' = "exited" /\ crashes' = 0
                    /\ position' = 3 * Len(sent')
                    /\ \A i \in DOMAIN sent' : sent'[i] = ReplayPayload(Json(i))
                    /\ replay' = "open" /\ exists' => Len(sent') = received'
  BY DEF Pass
<1>1. sent \in Seq(Payload) /\ file \in Seq(Piece) /\ received \in Nat
  BY MessagesAssumption, LenProperties DEF IInv, Types, TypeOK, RecorderTypeOK
<1>2. ASSUME settled
      PROVE  /\ recorder = "exited" /\ crashes = 0
             /\ position = 3 * Len(sent)
             /\ \A i \in DOMAIN sent : sent[i] = ReplayPayload(Json(i))
             /\ replay = "open" /\ exists => Len(sent) = received
  BY <1>2 DEF IInv, Pass
<1>3. CASE ReplayHandler
  <2>1. UNCHANGED <<recorder, crashes, exists, received>>
    BY <1>3 DEF ReplayHandler, recorderVars
  <2>2. ASSUME sent' = <<>>, position' = 0, replay' # "open", recorder = "exited", crashes = 0
        PROVE  /\ recorder' = "exited" /\ crashes' = 0
               /\ position' = 3 * Len(sent')
               /\ \A i \in DOMAIN sent' : sent'[i] = ReplayPayload(Json(i))
               /\ replay' = "open" /\ exists' => Len(sent') = received'
    BY <2>1, <2>2
  <2>3. CASE OpenRecording
    <3>1. recorder = "exited" /\ crashes = 0
      BY <1>3, <2>3 DEF ReplayHandler, OpenRecording
    <3>2. sent' = <<>> /\ position' = 0 /\ replay' # "open"
      BY <2>3 DEF OpenRecording
    <3> QED
      BY <2>2, <3>1, <3>2
  <2>4. CASE SendLine
    <3>1. settled /\ recorder = "exited" /\ crashes = 0
      BY <1>2, <1>3, <2>4 DEF ReplayHandler, SendLine
    <3> DEFINE line == ReadLine(SubSeq(file, position + 1, Len(file)))
               m == Len(sent)
               payload == ReplayPayload(Json(m + 1))
               after == sent'
    <3>2. HoldsLines(file, received)
      BY <3>1, FinishedFile
    <3>3. m \in Nat /\ position = 3 * m /\ position < Len(file)
      BY <1>1, <1>2, <2>4, <3>1, LenProperties DEF SendLine
    <3>4. Len(line) = 3 /\ Stripped(line) = Json(m + 1)
      <4> HIDE DEF m
      <4> QED
        BY ONLY <1>1, <3>2, <3>3, WholeLine
    <3>5. Json(m + 1) # <<>> /\ payload \in Payload
      <4>1. m + 1 \in Nat
        BY <3>3
      <4> HIDE DEF m
      <4>2. Json(m + 1) \in Seq(Piece) /\ Len(Json(m + 1)) = 2
        BY ONLY <4>1, LineFacts
      <4>3. Json(m + 1) # <<>>
        BY DEF Json
      <4> QED
        BY <4>2, <4>3 DEF ReplayPayload, Payload
    <3>6. CASE client_gone
      <4>1. sent' = <<>> /\ position' = 0 /\ replay' # "open"
        BY <2>4, <3>4, <3>5, <3>6 DEF SendLine
      <4> QED
        BY <2>2, <3>1, <4>1
    <3>7. CASE ~client_gone
      <4>1. position' = position + 3 /\ after = Append(sent, payload) /\ replay' = "send"
        BY <2>4, <3>4, <3>5, <3>7 DEF SendLine
      <4>2. \A i \in DOMAIN sent : sent[i] = ReplayPayload(Json(i))
        BY <1>2, <3>1
      <4> SUFFICES /\ position' = 3 * Len(after)
                   /\ \A i \in DOMAIN after : after[i] = ReplayPayload(Json(i))
        BY <2>1, <3>1, <4>1
      <4> HIDE DEF after, payload, m
      <4>3. sent \in Seq(Payload) /\ payload \in Payload /\ after = Append(sent, payload)
        BY <1>1, <3>5, <4>1
      <4>4. /\ DOMAIN sent = 1 .. Len(sent)
            /\ Len(after) = Len(sent) + 1 /\ DOMAIN after = 1 .. Len(sent) + 1
            /\ \A i \in 1 .. Len(sent) : after[i] = sent[i]
            /\ after[Len(sent) + 1] = payload
        BY ONLY <4>3, AppendFacts
      <4>5. position' = 3 * Len(after)
        BY ONLY <3>3, <4>1, <4>4 DEF m
      <4>6. ASSUME NEW i \in DOMAIN after PROVE after[i] = ReplayPayload(Json(i))
        <5>1. i \in 1 .. Len(sent) \/ i = m + 1
          BY ONLY <3>3, <4>4, i \in DOMAIN after DEF m
        <5>2. CASE i \in 1 .. Len(sent)
          BY <4>2, <4>4, <5>2, Zenon
        <5>3. CASE i = m + 1
          BY <4>4, <5>3, Zenon DEF m, payload
        <5> QED
          BY <5>1, <5>2, <5>3
      <4> QED
        BY <4>5, <4>6
    <3> QED
      BY <3>6, <3>7
  <2>5. CASE EndOfFile
    <3>1. settled /\ recorder = "exited" /\ crashes = 0
      BY <1>2, <1>3, <2>5 DEF ReplayHandler, EndOfFile
    <3>2. Len(file) = 3 * received
      BY <3>1, FinishedFile DEF HoldsLines
    <3>3. /\ Len(sent) \in Nat /\ position = 3 * Len(sent) /\ position = Len(file)
      BY <1>1, <1>2, <2>5, <3>1, LenProperties DEF EndOfFile
    <3>4. Len(sent) = received
      BY ONLY <1>1, <3>2, <3>3
    <3>5. \A i \in DOMAIN sent : sent[i] = ReplayPayload(Json(i))
      BY <1>2, <3>1
    <3>6. UNCHANGED <<position, sent>>
      BY <2>5 DEF EndOfFile
    <3> QED
      BY <2>1, <3>1, <3>3, <3>4, <3>5, <3>6
  <2> QED
    BY <1>3, <2>3, <2>4, <2>5 DEF ReplayHandler, ReplayStep
<1>4. CASE ~ReplayHandler
  <2>1. settled
    BY <1>4 DEF Next, vars, RecorderThread, PingTask, Pong, Venue, World, Client
  <2>2. recorder = "exited"
    BY <1>2, <2>1
  <2>3. UNCHANGED <<recorder, crashes, received, exists, position, sent, replay>>
    BY <1>4, <2>2
    DEF Next, vars, RecorderThread, RecorderStep, Connect, ConnectFails, Subscribe,
        SubscribeFails, Flush, RecvClosed, Leave, JoinPing, CloseConnection, Wait,
        PingTask, PingStep, PingSend, PingWait, Pong, RecvPong, Venue, RecvMessage,
        World, Environment, RequestStop, LoseConnection, Crash, Restart, Running,
        Client, ClientLeaves, recorderVars, replayVars, process, storage, history
  <2> QED
    BY <1>2, <2>1, <2>3
<1> QED
  BY <1>3, <1>4

-----------------------------------------------------------------------------
(* The theorems.                                                           *)

\* The invariant holds in every reachable state, for any messages, flush
\* interval, crashes and restarts.
THEOREM Invariance == Spec => []IInv
<1>1. IInv /\ [Next]_vars => IInv'
  BY NextTypes, NextBuffered, NextClean, NextPass, NextUnmixed DEF IInv
<1> QED
  BY InitIInv, <1>1, PTL DEF Spec

\* Delay, unflushed lines and reading position stay within their limits.
THEOREM TypeCorrect == Spec => []TypeOK
<1>1. IInv => TypeOK
  BY DEF IInv, Types
<1> QED
  BY Invariance, <1>1, PTL

\* Reconnections, late flushes and any number of clean restarts lose no
\* message and reorder none: _record_once closes the file on every way out.
THEOREM RecordingComplete == Spec => []CleanRunsRecordEverything
<1>1. IInv => CleanRunsRecordEverything
  BY FinishedFile DEF CleanRunsRecordEverything
<1> QED
  BY Invariance, <1>1, PTL

\* However the recorder and the replay interleave, a replayed payload has
\* pieces of one message only, unless the recorder has crashed.
THEOREM ReplayUnmixed == Spec => []PayloadsUnmixed
<1>1. IInv => PayloadsUnmixed
  BY DEF IInv
<1> QED
  BY Invariance, <1>1, PTL

\* What is sent of a whole line.
LEMMA PayloadOfLine ==
  ASSUME NEW i \in DOMAIN Messages
  PROVE  /\ ReplayPayload(Json(i)).line = Json(i)
         /\ ReplayPayload(Json(i)).form = "original" <=> Messages[i] # "binary"
<1>1. ASSUME NEW id, Json(i) = Json(id) PROVE i = id
  <2>1. Json(i)[1].id = i /\ Json(id)[1].id = id
    BY DEF Json
  <2> QED
    BY <1>1, <2>1
<1>2. (\E id \in DOMAIN Messages : Json(i) = Json(id) /\ Messages[id] # "binary")
        <=> Messages[i] # "binary"
  BY <1>1
<1> DEFINE j == Json(i)
<1> HIDE DEF j
<1>3. (\E id \in DOMAIN Messages : j = Json(id) /\ Messages[id] # "binary")
        <=> Messages[i] # "binary"
  BY <1>2 DEF j
<1>4. /\ ReplayPayload(j).line = j
      /\ ReplayPayload(j).form = "original" <=> Messages[i] # "binary"
  BY <1>3 DEF ReplayPayload
<1> QED
  BY <1>4 DEF j

\* A pass over a finished recording sends every message once, in order, and
\* as it was received if the line kept it.
THEOREM ReplaySendsRecording == Spec => []ReplayFaithful
<1>1. IInv => ReplayFaithful
  <2> SUFFICES ASSUME IInv, settled
               PROVE  /\ \A i \in DOMAIN sent :
                           /\ sent[i].line = Json(i)
                           /\ sent[i].form = "original" <=> Messages[i] # "binary"
                      /\ replay = "open" /\ exists => Len(sent) = received
    BY DEF ReplayFaithful
  <2>1. /\ recorder = "exited" /\ crashes = 0 /\ position = 3 * Len(sent)
        /\ \A i \in DOMAIN sent : sent[i] = ReplayPayload(Json(i))
        /\ replay = "open" /\ exists => Len(sent) = received
    BY DEF IInv, Pass
  <2>2. Len(file) = 3 * received
    BY <2>1, FinishedFile DEF HoldsLines
  <2>3. /\ position \in 0 .. Len(file) /\ received \in 0 .. Len(Messages)
        /\ sent \in Seq(Payload)
    BY DEF IInv, Types, TypeOK, RecorderTypeOK
  <2>4. /\ DOMAIN sent = 1 .. Len(sent) /\ Len(sent) \in Nat
        /\ DOMAIN Messages = 1 .. Len(Messages) /\ Len(Messages) \in Nat
    <3>1. sent \in Seq(Payload) /\ Messages \in Seq({"object", "text", "binary"})
      BY <2>3, MessagesAssumption
    <3> QED
      BY ONLY <3>1, LenProperties
  <2>5. Len(sent) <= Len(Messages)
    <3>1. position = 3 * Len(sent)
      BY <2>1
    <3>2. position \in 0 .. 3 * received
      BY <2>2, <2>3
    <3>3. received \in 0 .. Len(Messages)
      BY <2>3
    <3> QED
      BY ONLY <2>4, <3>1, <3>2, <3>3
  <2>6. ASSUME NEW i \in DOMAIN sent
        PROVE  sent[i].line = Json(i) /\ (sent[i].form = "original" <=> Messages[i] # "binary")
    <3>1. i \in DOMAIN Messages
      BY <2>4, <2>5
    <3> QED
      BY <2>1, <3>1, PayloadOfLine
  <2> QED
    BY <2>1, <2>6
<1> QED
  BY Invariance, <1>1, PTL

-----------------------------------------------------------------------------
(* What crashes cost.                                                      *)

\* s has the line of the message, whole and by itself.
WholeIn(s, id) ==
  \E p \in 0 .. Len(s) : /\ p + 3 <= Len(s)
                         /\ p = 0 \/ s[p].part = "newline"
                         /\ \A k \in 1 .. 3 : s[p + k] = LineOf(id)[k]

LostIn(s, n) == {id \in 1 .. n : ~WholeIn(s, id)}

\* The next line would be appended to a part of another.
Torn(s) == s # <<>> /\ s[Len(s)].part # "newline"

\* What is buffered is of the messages since the last flush.
Recent ==
  \A i \in DOMAIN buffer : buffer[i].id \in received - lines_since_flush + 1 .. received

\* A crash costs the messages since the last flush at most; a torn line costs
\* the next run its first one, which that run's restart accounts for.
LossBounded ==
  Cardinality(LostIn(file \o buffer, received))
    + (IF Torn(file \o buffer) /\ recorder # "crashed" THEN 1 ELSE 0)
      <= crashes * FlushEvery + restarts

LossInv == restarts \in Nat /\ Recent /\ LossBounded

\* Pieces that follow leave a line whole.
LEMMA WholeKept ==
  ASSUME NEW s \in Seq(Piece), NEW u \in Seq(Piece), NEW id, WholeIn(s, id)
  PROVE  WholeIn(s \o u, id)
<1> DEFINE c == s \o u
           m == Len(s)
           n == Len(u)
<1>1. /\ m \in Nat /\ n \in Nat /\ Len(c) = m + n
      /\ \A i \in 1 .. m + n : c[i] = IF i <= m THEN s[i] ELSE u[i - m]
  BY ConcatProperties, LenProperties
<1>2. PICK p \in 0 .. m : /\ p + 3 <= m
                          /\ p = 0 \/ s[p].part = "newline"
                          /\ \A k \in 1 .. 3 : s[p + k] = LineOf(id)[k]
  BY DEF WholeIn
<1> HIDE DEF c, m, n
<1>3. \A i \in 1 .. m : c[i] = s[i]
  BY ONLY <1>1
<1>4. p \in 0 .. m + n /\ p + 3 <= m + n /\ (p = 0 \/ p \in 1 .. m) /\ \A k \in 1 .. 3 : p + k \in 1 .. m
  BY ONLY <1>1, <1>2
<1>5. (p = 0 \/ c[p].part = "newline") /\ \A k \in 1 .. 3 : c[p + k] = LineOf(id)[k]
  BY <1>2, <1>3, <1>4
<1>6. WholeIn(c, id)
  BY <1>1, <1>4, <1>5 DEF WholeIn
<1> QED
  BY <1>6 DEF c

\* A line that begins at the end of another is whole, and nothing is torn
\* after it.
LEMMA WholeAdded ==
  ASSUME NEW s \in Seq(Piece), NEW id \in Nat
  PROVE  /\ s \o LineOf(id) \in Seq(Piece)
         /\ ~Torn(s) => WholeIn(s \o LineOf(id), id)
         /\ ~Torn(s \o LineOf(id))
<1> DEFINE l == LineOf(id)
           c == s \o l
           m == Len(s)
<1>1. l \in Seq(Piece)
  BY LineFacts
<1>2. Len(l) = 3 /\ l[3].part = "newline"
  <2>1. Len(l) = 3 /\ l[3] = Newline(id)
    BY LineFacts
  <2> HIDE DEF l
  <2> QED
    BY <2>1 DEF Newline
<1>3. m \in Nat /\ (s # <<>> => m # 0)
  BY LenProperties, EmptySeq
<1> HIDE DEF l
<1>4. /\ c \in Seq(Piece) /\ Len(c) = m + Len(l)
      /\ \A i \in 1 .. m + Len(l) : c[i] = IF i <= m THEN s[i] ELSE l[i - m]
  BY <1>1, ConcatProperties
<1> HIDE DEF c
<1>5. Len(c) = m + 3
  BY <1>2, <1>4
<1>6. ASSUME NEW k \in 1 .. 3 PROVE c[m + k] = l[k]
  <2> HIDE DEF m
  <2>1. m + k \in 1 .. m + 3 /\ ~(m + k <= m) /\ (m + k) - m = k
    BY ONLY <1>3, <1>6
  <2> QED
    BY <1>2, <1>4, <2>1
<1>7. ASSUME m > 0 PROVE c[m] = s[m]
  <2> HIDE DEF m
  <2>1. m \in 1 .. m + 3 /\ m <= m
    BY ONLY <1>3, <1>7
  <2> QED
    BY <1>2, <1>4, <2>1
<1>8. ASSUME ~Torn(s) PROVE WholeIn(c, id)
  <2>1. m = 0 \/ c[m].part = "newline"
    <3>1. CASE s = <<>>
      BY <3>1, EmptySeq
    <3>2. CASE s # <<>>
      BY <1>3, <1>7, <1>8, <3>2 DEF Torn
    <3> QED
      BY <3>1, <3>2
  <2>2. \A k \in 1 .. 3 : c[m + k] = LineOf(id)[k]
    BY <1>6 DEF l
  <2> HIDE DEF m
  <2>3. m \in 0 .. Len(c) /\ m + 3 <= Len(c)
    BY <1>3, <1>5
  <2> QED
    BY <2>1, <2>2, <2>3 DEF WholeIn
<1>9. ~Torn(c)
  <2>1. c[m + 3] = l[3]
    BY <1>6
  <2> QED
    BY <1>2, <1>5, <2>1 DEF Torn
<1> QED
  BY <1>4, <1>8, <1>9 DEF c, l

\* A whole line is whole in the file, or a piece of it is buffered.
LEMMA WholeOrBuffered ==
  ASSUME NEW f \in Seq(Piece), NEW b \in Seq(Piece), NEW id \in Nat, WholeIn(f \o b, id)
  PROVE  WholeIn(f, id) \/ \E i \in DOMAIN b : b[i].id = id
<1> DEFINE c == f \o b
           m == Len(f)
           n == Len(b)
<1>1. /\ m \in Nat /\ n \in Nat /\ Len(c) = m + n /\ DOMAIN b = 1 .. n
      /\ \A i \in 1 .. m + n : c[i] = IF i <= m THEN f[i] ELSE b[i - m]
  BY ConcatProperties, LenProperties
<1>2. PICK p \in 0 .. Len(c) : /\ p + 3 <= Len(c)
                               /\ p = 0 \/ c[p].part = "newline"
                               /\ \A k \in 1 .. 3 : c[p + k] = LineOf(id)[k]
  BY DEF WholeIn
<1> HIDE DEF c, m, n
<1>3. CASE p + 3 <= m
  <2>1. \A i \in 1 .. m : c[i] = f[i]
    BY ONLY <1>1
  <2>2. p \in 0 .. m /\ (p = 0 \/ p \in 1 .. m) /\ \A k \in 1 .. 3 : p + k \in 1 .. m
    BY ONLY <1>1, <1>2, <1>3
  <2>3. (p = 0 \/ f[p].part = "newline") /\ \A k \in 1 .. 3 : f[p + k] = LineOf(id)[k]
    BY <1>2, <2>1, <2>2
  <2> QED
    BY <1>3, <2>2, <2>3 DEF WholeIn, m
<1>4. CASE ~(p + 3 <= m)
  <2>1. p + 3 \in 1 .. m + n /\ (p + 3) - m \in 1 .. n
    BY ONLY <1>1, <1>2, <1>4
  <2>2. c[p + 3] = b[(p + 3) - m]
    BY <1>1, <1>4, <2>1
  <2>3. c[p + 3].id = id
    <3>1. LineOf(id)[3] = Newline(id)
      BY LineFacts
    <3>2. c[p + 3] = Newline(id)
      BY <1>2, <3>1
    <3> QED
      BY <3>2 DEF Newline
  <2> QED
    BY <1>1, <2>1, <2>2, <2>3
<1> QED
  BY <1>3, <1>4

\* A whole line is one of the file's lines.
LEMMA WholeIsLine ==
  ASSUME NEW f \in Seq(Piece), NEW id \in Nat, WholeIn(f, id)
  PROVE  LineOf(id) \in CompleteLines(f)
<1> DEFINE m == Len(f)
           l == LineOf(id)
<1>1. m \in Nat /\ DOMAIN f = 1 .. m
  BY LenProperties
<1>2. PICK p \in 0 .. m : /\ p + 3 <= m
                          /\ p = 0 \/ f[p].part = "newline"
                          /\ \A k \in 1 .. 3 : f[p + k] = l[k]
  BY DEF WholeIn
<1>3. /\ l \in Seq(Piece) /\ Len(l) = 3
      /\ l[1].part # "newline" /\ l[2].part # "newline" /\ l[3].part = "newline"
  <2>1. l \in Seq(Piece) /\ Len(l) = 3 /\ \A k \in 1 .. 3 : l[k].part = "newline" <=> k = 3
    BY LineFacts
  <2> QED
    BY <2>1
<1>4. PICK line : line = ReadLine(SubSeq(f, p + 1, Len(f)))
  OBVIOUS
<1>5. p < m
  BY <1>1, <1>2
<1>6. /\ line \in Seq(Piece) /\ Len(line) \in 1 .. m - p
      /\ \A i \in 1 .. Len(line) : line[i] = f[p + i]
      /\ \A i \in 1 .. Len(line) - 1 : f[p + i].part # "newline"
      /\ f[p + Len(line)].part = "newline" \/ p + Len(line) = m
  BY <1>4, <1>5, NextLineFacts
<1> HIDE DEF m, l
<1> DEFINE n == Len(line)
<1>7. n \in Nat
  BY <1>1, <1>6
<1>8. n = 3
  <2>1. f[p + 1].part # "newline" /\ f[p + 2].part # "newline" /\ f[p + 3].part = "newline"
    BY <1>2, <1>3
  <2>2. /\ n \in 1 .. m - p
        /\ \A i \in 1 .. n - 1 : f[p + i].part # "newline"
        /\ f[p + n].part = "newline" \/ p + n = m
    BY <1>6
  <2> HIDE DEF n
  <2>3. ~(n > 3)
    <3>1. n > 3 => 3 \in 1 .. n - 1
      BY <1>7
    <3> QED
      BY <2>1, <2>2, <3>1
  <2>4. n # 1 /\ n # 2
    BY ONLY <1>1, <1>2, <2>1, <2>2
  <2> QED
    BY ONLY <1>7, <2>2, <2>3, <2>4, <1>1, <1>2
<1>9. line = l
  <2>1. Len(line) = Len(l) /\ \A i \in 1 .. Len(line) : line[i] = l[i]
    BY <1>2, <1>3, <1>6, <1>8
  <2> QED
    BY <1>3, <1>6, <2>1, SeqEqual
<1>10. p + 1 \in {i \in DOMAIN f : i = 1 \/ f[i - 1].part = "newline"}
  <2>1. p + 1 \in 1 .. m /\ (p + 1) - 1 = p
    BY <1>1, <1>2, <1>5
  <2> QED
    BY <1>1, <1>2, <2>1
<1>11. Last(line).part = "newline"
  BY <1>3, <1>8, <1>9 DEF Last
<1> QED
  BY <1>4, <1>9, <1>10, <1>11 DEF CompleteLines, l

\* There are as many lost messages as are lost, at most as many as there are.
LEMMA LostFinite ==
  ASSUME NEW s, NEW n \in Nat
  PROVE  IsFiniteSet(LostIn(s, n)) /\ Cardinality(LostIn(s, n)) \in Nat
<1>1. IsFiniteSet(1 .. n)
  BY FS_Interval
<1>2. LostIn(s, n) \in SUBSET (1 .. n)
  BY DEF LostIn
<1>3. IsFiniteSet(LostIn(s, n))
  BY <1>1, <1>2, FS_Subset
<1> QED
  BY <1>3, FS_CardinalityType

\* A message that is lost was lost before, or was buffered since the last
\* flush when the process crashed.
LEMMA CrashLost ==
  ASSUME Types, Recent
  PROVE  /\ lines_since_flush \in 0 .. FlushEvery
         /\ Cardinality(LostIn(file, received))
              <= Cardinality(LostIn(file \o buffer, received)) + lines_since_flush
<1> DEFINE A == LostIn(file \o buffer, received)
           B == LostIn(file, received)
           n == lines_since_flush
           R == received - n + 1 .. received
<1>1. /\ file \in Seq(Piece) /\ buffer \in Seq(Piece) /\ received \in Nat
      /\ n \in 0 .. FlushEvery /\ n \in Nat
  BY MessagesAssumption, LenProperties, RecorderAssumption DEF Types, TypeOK, RecorderTypeOK
<1>2. B \subseteq A \cup R
  <2> SUFFICES ASSUME NEW id \in 1 .. received, ~WholeIn(file, id), WholeIn(file \o buffer, id)
               PROVE  id \in R
    BY DEF LostIn
  <2>1. PICK i \in DOMAIN buffer : buffer[i].id = id
    <3>1. id \in Nat
      BY <1>1
    <3> QED
      BY <1>1, <3>1, WholeOrBuffered
  <2> QED
    BY <2>1 DEF Recent
<1>3. IsFiniteSet(A) /\ Cardinality(A) \in Nat /\ IsFiniteSet(B) /\ Cardinality(B) \in Nat
  BY <1>1, LostFinite
<1>4. IsFiniteSet(R) /\ Cardinality(R) = n
  <2>1. received - n + 1 \in Int /\ received \in Int
    BY <1>1
  <2>2. IsFiniteSet(R) /\ Cardinality(R) = IF received - n + 1 > received THEN 0
                                           ELSE received - (received - n + 1) + 1
    BY <2>1, FS_Interval
  <2> HIDE DEF n, R
  <2> QED
    BY <1>1, <2>2
<1> HIDE DEF A, B, R, n
<1>5. /\ IsFiniteSet(A \cup R)
      /\ Cardinality(A \cup R) = Cardinality(A) + Cardinality(R) - Cardinality(A \cap R)
  BY <1>3, <1>4, FS_Union
<1>6. Cardinality(A \cap R) \in Nat
  <2>1. IsFiniteSet(A \cap R)
    BY <1>3, FS_Subset
  <2> QED
    BY <2>1, FS_CardinalityType
<1>7. Cardinality(B) <= Cardinality(A \cup R)
  BY <1>2, <1>5, FS_Subset
<1>8. Cardinality(B) <= Cardinality(A) + n
  <2> DEFINE x == Cardinality(A)
             y == Cardinality(A \cap R)
             z == Cardinality(B)
             u == Cardinality(A \cup R)
             v == Cardinality(R)
  <2>1. x \in Nat /\ y \in Nat /\ z \in Nat /\ v = n /\ n \in Nat /\ u = x + v - y /\ z <= u
    BY <1>1, <1>3, <1>4, <1>5, <1>6, <1>7
  <2> HIDE DEF x, y, z, u, v
  <2>2. z <= x + n
    BY ONLY <2>1
  <2> QED
    BY <2>2 DEF x, z
<1> QED
  BY <1>1, <1>8 DEF A, B, n

\* One more message is lost only if a torn line was in its way.
LEMMA AddLost ==
  ASSUME NEW c \in Seq(Piece), NEW n \in Nat
  PROVE  LET d == c \o LineOf(n + 1)
         IN /\ ~Torn(d)
            /\ Cardinality(LostIn(d, n + 1)) <= Cardinality(LostIn(c, n)) + (IF Torn(c) THEN 1 ELSE 0)
<1> DEFINE d == c \o LineOf(n + 1)
           A == LostIn(c, n)
           B == LostIn(d, n + 1)
<1>1. d \in Seq(Piece) /\ (~Torn(c) => WholeIn(d, n + 1)) /\ ~Torn(d)
  BY WholeAdded
<1>2. ASSUME NEW id, WholeIn(c, id) PROVE WholeIn(d, id)
  BY <1>2, LineFacts, WholeKept
<1>3. IsFiniteSet(A) /\ Cardinality(A) \in Nat /\ IsFiniteSet(B) /\ Cardinality(B) \in Nat
  BY LostFinite
<1> HIDE DEF d
<1>4. B \subseteq A \cup {n + 1} /\ (~Torn(c) => B \subseteq A)
  <2>1. \A id \in 1 .. n + 1 : id \in 1 .. n \/ id = n + 1
    OBVIOUS
  <2> QED
    BY <1>1, <1>2, <2>1 DEF LostIn
<1> HIDE DEF A, B
<1>5. /\ IsFiniteSet(A \cup {n + 1})
      /\ Cardinality(A \cup {n + 1}) = IF n + 1 \in A THEN Cardinality(A) ELSE Cardinality(A) + 1
  BY <1>3, FS_AddElement
<1>6. Cardinality(B) <= Cardinality(A \cup {n + 1}) /\ (~Torn(c) => Cardinality(B) <= Cardinality(A))
  BY <1>3, <1>4, <1>5, FS_Subset
<1>7. Cardinality(B) <= Cardinality(A) + (IF Torn(c) THEN 1 ELSE 0)
  BY <1>3, <1>5, <1>6
<1> QED
  BY <1>1, <1>7 DEF d, A, B

\* What is buffered stays younger than the last flush.
LEMMA NextRecent == ASSUME IInv, Recent, [Next]_vars PROVE Recent'
<1>1. /\ buffer \in Seq(Piece) /\ received \in Nat /\ lines_since_flush \in Nat
      /\ DOMAIN buffer = 1 .. Len(buffer) /\ Len(buffer) \in Nat
  BY MessagesAssumption, LenProperties, RecorderAssumption DEF IInv, Types, TypeOK, RecorderTypeOK
<1>2. CASE RecvMessage
  <2> DEFINE line == LineOf(received + 1)
             pending == buffer \o line
             m == Len(buffer)
             low == received - lines_since_flush + 1
  <2>1. line \in Seq(Piece) /\ Len(line) = 3 /\ \A k \in 1 .. 3 : line[k].id = received + 1
    <3>1. PICK id \in Nat : id = received + 1
      BY <1>1
    <3>2. /\ LineOf(id) \in Seq(Piece) /\ Len(LineOf(id)) = 3
          /\ \A k \in 1 .. 3 : LineOf(id)[k].id = id
      BY LineFacts
    <3> QED
      BY ONLY <3>1, <3>2, Zenon DEF line
  <2>2. /\ received' = received + 1 /\ lines_since_flush' = lines_since_flush + 1
        /\ \E n \in 0 .. Len(pending) : buffer' = SubSeq(pending, n + 1, Len(pending))
    BY <1>2 DEF RecvMessage
  <2>3. \A i \in 1 .. m : buffer[i].id \in low .. received
    BY <1>1 DEF Recent
  <2> HIDE DEF line
  <2>4. /\ pending \in Seq(Piece) /\ Len(pending) = m + Len(line)
        /\ \A i \in 1 .. m + Len(line) : pending[i] = IF i <= m THEN buffer[i] ELSE line[i - m]
    BY <1>1, <2>1, ConcatProperties
  <2>5. ASSUME NEW i \in 1 .. Len(pending) PROVE pending[i].id \in low .. received + 1
    <3> HIDE DEF pending, m
    <3>1. m \in Nat /\ i \in 1 .. m + 3 /\ low \in Int /\ low <= received + 1
      BY <1>1, <2>1, <2>4 DEF m
    <3> HIDE DEF low
    <3>2. CASE i <= m
      <4>1. i \in 1 .. m /\ pending[i] = buffer[i]
        BY <2>1, <2>4, <3>1, <3>2
      <4>2. buffer[i].id \in low .. received
        BY <2>3, <4>1
      <4> QED
        BY <1>1, <3>1, <4>1, <4>2
    <3>3. CASE ~(i <= m)
      <4>1. i - m \in 1 .. 3 /\ pending[i] = line[i - m]
        BY <2>1, <2>4, <3>1, <3>3
      <4>2. pending[i].id = received + 1
        BY <2>1, <4>1
      <4> QED
        BY <1>1, <3>1, <4>2
    <3> QED
      BY <3>2, <3>3
  <2>6. low = received' - lines_since_flush' + 1
    BY <1>1, <2>2
  <2> HIDE DEF pending, low
  <2>7. PICK n \in 0 .. Len(pending) : buffer' = SubSeq(pending, n + 1, Len(pending))
    BY <2>2
  <2>8. ASSUME NEW i \in DOMAIN buffer'
        PROVE  \E j \in 1 .. Len(pending) : buffer'[i] = pending[j]
    <3> DEFINE k == Len(pending)
               b == SubSeq(pending, n + 1, k)
    <3>1. k \in Nat /\ \A j \in n + 1 .. k : pending[j] \in Piece
      BY <2>4, LenProperties, ElementOfSeq
    <3> HIDE DEF k
    <3>2. /\ b \in Seq(Piece)
          /\ Len(b) = IF n + 1 <= k THEN k - (n + 1) + 1 ELSE 0
          /\ \A j \in 1 .. k - (n + 1) + 1 : b[j] = pending[n + 1 + j - 1]
      BY <3>1, SubSeqProperties DEF k
    <3>3. buffer' = b
      BY <2>7 DEF k
    <3> HIDE DEF b
    <3>4. i \in 1 .. Len(b)
      BY <3>2, <3>3, LenProperties
    <3>5. n \in 0 .. k
      BY DEF k
    <3>6. i \in 1 .. k - (n + 1) + 1 /\ n + 1 + i - 1 \in 1 .. k
      BY ONLY <3>1, <3>2, <3>4, <3>5
    <3> QED
      BY <3>2, <3>3, <3>6 DEF k
  <2> QED
    BY <2>2, <2>5, <2>6, <2>8 DEF Recent
<1>3. CASE Flush \/ Leave \/ Crash
  <2>1. buffer' = <<>> \/ UNCHANGED <<buffer, lines_since_flush, received>>
    BY <1>3 DEF Flush, Leave, Crash, history
  <2> QED
    BY <2>1 DEF Recent
<1>4. CASE Subscribe
  <2>1. buffer = <<>> /\ buffer' = buffer
    BY <1>4 DEF Subscribe, IInv, Buffered
  <2> QED
    BY <2>1 DEF Recent
<1>5. CASE UNCHANGED <<buffer, lines_since_flush, received>>
  BY <1>5 DEF Recent
<1> QED
  BY <1>2, <1>3, <1>4, <1>5
  DEF Next, vars, RecorderThread, RecorderStep, Connect, ConnectFails, SubscribeFails,
      RecvClosed, JoinPing, CloseConnection, Wait, PingTask, PingStep, PingSend, PingWait,
      Pong, RecvPong, Venue, World, Environment, RequestStop, LoseConnection, Restart,
      ReplayHandler, Client, recorderVars, storage, history

\* What counts losses changes with a crash and a restart only.
LEMMA CountsStep ==
  ASSUME IInv, [Next]_vars
  PROVE  \/ RecvMessage
         \/ Crash
         \/ Restart
         \/ /\ UNCHANGED <<crashes, restarts, received>> /\ ~Crash
            /\ recorder' # "crashed" => recorder # "crashed"
<1>1. crashes \in Nat
  BY DEF IInv, Types
<1>2. \/ RecvMessage \/ Crash \/ Restart
      \/ /\ UNCHANGED <<crashes, restarts, received>>
         /\ recorder' # "crashed" => recorder # "crashed"
  BY DEF Next, vars, RecorderThread, RecorderStep, Connect, ConnectFails, Subscribe,
         SubscribeFails, Flush, RecvClosed, Leave, JoinPing, CloseConnection, Wait,
         PingTask, PingStep, PingSend, PingWait, Pong, RecvPong, Venue,
         World, Environment, RequestStop, LoseConnection, process,
         ReplayHandler, Client, recorderVars, history
<1> QED
  BY <1>1, <1>2 DEF Crash

\* The bound holds after each of them.
LEMMA NextLoss == ASSUME IInv, LossInv, [Next]_vars PROVE LossBounded'
<1> DEFINE c == file \o buffer
           d == file' \o buffer'
           x == Cardinality(LostIn(c, received))
           y == Cardinality(LostIn(d, received'))
           bound == crashes * FlushEvery + restarts
<1>1. /\ Types /\ file \in Seq(Piece) /\ buffer \in Seq(Piece) /\ received \in Nat
      /\ crashes \in Nat /\ FlushEvery \in Nat
  BY MessagesAssumption, LenProperties, RecorderAssumption DEF IInv, Types, TypeOK, RecorderTypeOK
<1>2. c \in Seq(Piece)
  BY <1>1, ConcatProperties
<1>3. x + (IF Torn(c) /\ recorder # "crashed" THEN 1 ELSE 0) <= bound
  BY DEF LossInv, LossBounded
<1>4. x \in Nat /\ (received' \in Nat => y \in Nat)
  BY <1>1, LostFinite
<1>5. /\ \/ received' = received /\ d = c
         \/ received' = received + 1 /\ d = c \o LineOf(received + 1)
         \/ Crash
  BY <1>1, StorageStep
<1> SUFFICES y + (IF Torn(d) /\ recorder' # "crashed" THEN 1 ELSE 0) <= crashes' * FlushEvery + restarts'
  BY DEF LossBounded
<1>6. restarts \in Nat /\ bound \in Nat /\ FlushEvery * 1 = FlushEvery
  BY <1>1 DEF LossInv
<1>7. CASE RecvMessage
  <2>1. /\ crashes' = crashes /\ restarts' = restarts /\ received' = received + 1
        /\ recorder = "recv" /\ recorder' = "flush" /\ ~Crash
    BY <1>1, <1>7 DEF RecvMessage, Crash
  <2>2. d = c \o LineOf(received + 1)
    <3>1. received + 1 # received
      BY <1>1
    <3> HIDE DEF c, d
    <3> QED
      BY <1>5, <2>1, <3>1
  <2> HIDE DEF c
  <2>3. ~Torn(d) /\ y <= x + (IF Torn(c) THEN 1 ELSE 0)
    BY <1>1, <1>2, <2>1, <2>2, AddLost
  <2>4. y \in Nat
    BY <1>1, <1>4, <2>1
  <2> HIDE DEF x, y, d
  <2> QED
    BY <1>3, <1>4, <1>6, <2>1, <2>3, <2>4
<1>8. CASE Crash
  <2>1. /\ crashes' = crashes + 1 /\ restarts' = restarts /\ received' = received
        /\ recorder' = "crashed" /\ file' = file /\ buffer' = <<>>
    BY <1>8 DEF Crash
  <2>2. d = file
    BY <1>1, <2>1, ConcatEmptySeq
  <2>3. lines_since_flush \in 0 .. FlushEvery /\ y <= x + lines_since_flush
    <3>1. y = Cardinality(LostIn(file, received))
      BY <2>1, <2>2
    <3> QED
      BY <1>1, <3>1, CrashLost DEF LossInv
  <2>4. y \in Nat
    BY <1>1, <1>4, <2>1
  <2>5. crashes' * FlushEvery + restarts' = bound + FlushEvery
    BY <1>1, <1>6, <2>1
  <2> HIDE DEF x, y, bound
  <2> QED
    BY <1>1, <1>3, <1>4, <1>6, <2>1, <2>3, <2>4, <2>5
<1>9. CASE Restart
  <2>1. /\ crashes' = crashes /\ restarts' = restarts + 1 /\ received' = received
        /\ file' = file /\ buffer' = buffer
    BY <1>9 DEF Restart, storage
  <2>2. y = x
    BY <2>1
  <2>3. crashes' * FlushEvery + restarts' = bound + 1
    BY <1>1, <1>6, <2>1
  <2> HIDE DEF x, y, bound
  <2> QED
    BY <1>3, <1>4, <1>6, <2>2, <2>3
<1>10. CASE /\ UNCHANGED <<crashes, restarts, received>> /\ ~Crash
            /\ recorder' # "crashed" => recorder # "crashed"
  <2>1. d = c
    <3>1. received' = received /\ received + 1 # received
      BY <1>1, <1>10
    <3> HIDE DEF c, d
    <3> QED
      BY <1>5, <1>10, <3>1
  <2>2. y = x /\ crashes' * FlushEvery + restarts' = bound
    BY <1>10, <2>1
  <2> HIDE DEF x, y, bound, c, d
  <2> QED
    BY <1>3, <1>4, <1>6, <1>10, <2>1, <2>2
<1> QED
  BY <1>7, <1>8, <1>9, <1>10, CountsStep

\* Nothing is lost at the start.
LEMMA InitLoss == Init => LossInv
<1> SUFFICES ASSUME Init PROVE LossInv
  OBVIOUS
<1>1. /\ file = <<>> /\ buffer = <<>> /\ received = 0 /\ crashes = 0 /\ restarts = 0
  BY DEF Init, InitRecorder
<1>2. LostIn(file \o buffer, received) = {}
  BY <1>1 DEF LostIn
<1>3. file \o buffer = <<>>
  BY <1>1
<1>4. LossBounded
  <2>1. Cardinality(LostIn(file \o buffer, received)) = 0
    BY <1>2, FS_EmptySet
  <2>2. ~Torn(file \o buffer)
    BY <1>3 DEF Torn
  <2> QED
    BY <1>1, <2>1, <2>2, RecorderAssumption DEF LossBounded
<1> QED
  BY <1>1, <1>4 DEF LossInv, Recent

\* "Flush file periodically so you don't lose much on crash": with any flush
\* interval and any number of crashes and restarts, a message is in the file
\* or buffered for it, except those since the last flush before a crash and
\* the one that a new run appends to a torn line.
THEOREM CrashLossLimited == Spec => []CrashLossBounded
<1>1. IInv /\ LossInv => CrashLossBounded
  <2> SUFFICES ASSUME IInv, LossInv PROVE CrashLossBounded
    OBVIOUS
  <2> DEFINE pending == {buffer[i].id : i \in DOMAIN buffer}
             S == (1 .. received) \ (Intact \cup pending)
             A == LostIn(file \o buffer, received)
             x == Cardinality(A)
             y == Cardinality(S)
             bound == crashes * FlushEvery + restarts
  <2>1. file \in Seq(Piece) /\ buffer \in Seq(Piece) /\ received \in Nat
    BY MessagesAssumption, LenProperties DEF IInv, Types, TypeOK, RecorderTypeOK
  <2>2. S \subseteq A
    <3> SUFFICES ASSUME NEW id \in 1 .. received, id \notin Intact, id \notin pending,
                        WholeIn(file \o buffer, id)
                 PROVE  FALSE
      BY DEF LostIn
    <3>1. id \in Nat
      BY <2>1
    <3>2. WholeIn(file, id) \/ \E i \in DOMAIN buffer : buffer[i].id = id
      BY <2>1, <3>1, WholeOrBuffered
    <3>3. WholeIn(file, id) => id \in Intact
      BY <2>1, <3>1, WholeIsLine DEF Intact
    <3> QED
      BY <3>2, <3>3
  <2>3. IsFiniteSet(A) /\ x \in Nat
    BY <2>1, LostFinite
  <2>4. y <= x
    <3> HIDE DEF S, A
    <3> QED
      BY <2>2, <2>3, FS_Subset
  <2>5. y \in Nat
    <3> HIDE DEF S, A
    <3>1. IsFiniteSet(S)
      BY <2>2, <2>3, FS_Subset
    <3> QED
      BY <3>1, FS_CardinalityType
  <2>6. x + (IF Torn(file \o buffer) /\ recorder # "crashed" THEN 1 ELSE 0) <= bound
    BY DEF LossInv, LossBounded
  <2>7. bound \in Nat
    BY RecorderAssumption DEF LossInv, IInv, Types
  <2>8. y <= bound
    <3> HIDE DEF x, y, bound
    <3> QED
      BY <2>3, <2>4, <2>5, <2>6, <2>7
  <2> QED
    BY <2>8 DEF CrashLossBounded
<1>2. IInv /\ LossInv /\ [Next]_vars => LossInv'
  <2> SUFFICES ASSUME IInv, LossInv, [Next]_vars PROVE LossInv'
    OBVIOUS
  <2>1. restarts' \in Nat
    <3>1. restarts \in Nat
      BY DEF LossInv
    <3>2. restarts' = restarts \/ restarts' = restarts + 1
      BY CountsStep DEF RecvMessage, Crash, Restart
    <3> QED
      BY <3>1, <3>2
  <2>2. Recent'
    BY NextRecent DEF LossInv
  <2> QED
    BY <2>1, <2>2, NextLoss DEF LossInv
<1> QED
  BY InitLoss, Invariance, <1>1, <1>2, PTL DEF Spec

-----------------------------------------------------------------------------
(* How far the recorder's documentation holds.                             *)

\* One piece of such a file, by its place.
LEMMA CleanPlace ==
  ASSUME Types, Clean, crashes = 0, NEW j \in 1 .. Len(file),
         NEW id \in 1 .. received, NEW k \in 1 .. 3, j = 3 * (id - 1) + k
  PROVE  file[j] = LineOf(id)[k] /\ (file[j].part = "newline" <=> k = 3)
<1>1. \A n \in 1 .. received, u \in 1 .. 3 :
        j = 3 * (n - 1) + u => file[j] = LineOf(n)[u]
  BY CleanPiece
<1>2. \A n \in 1 .. received, u \in 1 .. 3 :
        j = 3 * (n - 1) + u => (file[j].part = "newline" <=> u = 3)
  BY CleanPiece
<1> QED
  BY <1>1, <1>2, Zenon

\* A line of a file that no crash has torn is the line of one message.
LEMMA CleanLine ==
  ASSUME IInv, crashes = 0, NEW i \in 1 .. Len(file),
         i = 1 \/ file[i - 1].part = "newline",
         NEW line, line = ReadLine(SubSeq(file, i, Len(file))),
         line[Len(line)].part = "newline"
  PROVE  \E id \in 1 .. received : line = LineOf(id)
<1> DEFINE p == i - 1
           F == Len(file)
           L == Len(line)
<1>1. /\ file \in Seq(Piece) /\ F \in Nat /\ Types /\ Clean /\ received \in Nat
      /\ p \in Nat /\ p \in 0 .. Len(file) /\ p < Len(file) /\ p + 1 = i
  BY MessagesAssumption, LenProperties DEF IInv, Types, TypeOK, RecorderTypeOK
<1>2. /\ line \in Seq(Piece) /\ L \in 1 .. F - p
      /\ \A j \in 1 .. L : line[j] = file[p + j]
      /\ \A j \in 1 .. L - 1 : file[p + j].part # "newline"
  <2>1. line = ReadLine(SubSeq(file, p + 1, Len(file)))
    BY <1>1, Zenon
  <2> HIDE DEF p
  <2> QED
    BY ONLY <1>1, <2>1, NextLineFacts, Z3 DEF F, L
<1>3. ASSUME NEW j \in 1 .. F
      PROVE  \E id \in 1 .. received, k \in 1 .. 3 : j = 3 * (id - 1) + k
  BY <1>1, CleanPiece
<1>4. \A j \in 1 .. F, id \in 1 .. received, k \in 1 .. 3 :
        j = 3 * (id - 1) + k => (file[j].part = "newline" <=> k = 3)
  <2> SUFFICES ASSUME NEW j \in 1 .. Len(file), NEW id \in 1 .. received, NEW k \in 1 .. 3,
                      j = 3 * (id - 1) + k
               PROVE  (file[j].part = "newline" <=> k = 3)
    BY Zenon
  <2> HIDE DEF p, F, L
  <2> QED
    BY <1>1, CleanPlace
<1>5. \A j \in 1 .. F, id \in 1 .. received, k \in 1 .. 3 :
        j = 3 * (id - 1) + k => file[j] = LineOf(id)[k]
  <2> SUFFICES ASSUME NEW j \in 1 .. Len(file), NEW id \in 1 .. received, NEW k \in 1 .. 3,
                      j = 3 * (id - 1) + k
               PROVE  file[j] = LineOf(id)[k]
    BY Zenon
  <2> HIDE DEF p, F, L
  <2> QED
    BY <1>1, CleanPlace
<1>6. PICK m \in Nat : p = 3 * m
  <2>1. CASE i = 1
    BY <2>1
  <2>2. CASE i # 1
    <3>1. i - 1 \in 1 .. F /\ file[i - 1].part = "newline"
      BY <1>1, <2>2
    <3>2. PICK id \in 1 .. received, k \in 1 .. 3 : i - 1 = 3 * (id - 1) + k
      BY <1>3, <3>1, Zenon
    <3>3. k = 3
      BY ONLY <1>4, <3>1, <3>2, Zenon
    <3> QED
      BY <1>1, <3>2, <3>3
  <2> QED
    BY <2>1, <2>2
<1> HIDE DEF p, F, L
<1>7. L \in Nat /\ L >= 1 /\ p + L <= F /\ p + L \in 1 .. F /\ i \in 1 .. F
  BY <1>1, <1>2 DEF F
<1>8. m + 1 \in 1 .. received
  <2>1. PICK id \in 1 .. received, k \in 1 .. 3 : i = 3 * (id - 1) + k
    BY <1>3, <1>7, Zenon
  <2> QED
    BY ONLY <1>1, <1>6, <2>1, m \in Nat
<1>9. file[p + L].part = "newline"
  <2>1. L \in 1 .. L
    BY <1>7
  <2> QED
    BY <1>2, <2>1, Zenon DEF L
<1>10. L >= 3
  <2>1. PICK id \in 1 .. received, k \in 1 .. 3 : p + L = 3 * (id - 1) + k
    BY <1>3, <1>7, Zenon
  <2>2. k = 3
    BY ONLY <1>4, <1>7, <1>9, <2>1, Zenon
  <2> QED
    BY ONLY <1>1, <1>6, <1>7, <2>1, <2>2, m \in Nat
<1>11. ASSUME NEW k \in 1 .. 3
      PROVE  file[p + k] = LineOf(m + 1)[k] /\ (file[p + k].part = "newline" <=> k = 3)
  <2>1. p + k \in 1 .. F /\ p + k = 3 * ((m + 1) - 1) + k
    BY ONLY <1>1, <1>6, <1>7, <1>10, m \in Nat, k \in 1 .. 3
  <2> QED
    BY ONLY <1>4, <1>5, <1>8, <2>1, k \in 1 .. 3, Zenon
<1>12. L = 3
  <2>1. SUFFICES ASSUME 3 \in 1 .. L - 1 PROVE FALSE
    BY <1>7, <1>10
  <2>2. 3 \in 1 .. 3 /\ 3 = 3
    OBVIOUS
  <2> QED
    BY <1>2, <1>11, <2>1, <2>2, Zenon
<1> DEFINE l == LineOf(m + 1)
<1>13. l \in Seq(Piece) /\ Len(l) = 3
  BY LineFacts
<1> HIDE DEF l
<1>14. line = l
  <2>1. \A j \in 1 .. 3 : line[j] = l[j]
    BY <1>2, <1>11, <1>12, Zenon DEF l
  <2>2. line \in Seq(Piece) /\ Len(line) = Len(l) /\ \A j \in 1 .. Len(line) : line[j] = l[j]
    BY <1>2, <1>12, <1>13, <2>1, Zenon DEF L
  <2> QED
    BY <1>13, <2>2, SeqEqual, Zenon
<1> QED
  BY <1>8, <1>14, Zenon DEF l

\* Until a run crashes, every line of the file is the line of one message, as
\* the recorder's documentation has it, whatever connections were lost and
\* however often the recorder was stopped and started: a torn line needs a
\* crash.
THEOREM TornOnlyByCrash == Spec => [](crashes = 0 => OneLinePerMessage)
<1>1. IInv => (crashes = 0 => OneLinePerMessage)
  <2> SUFFICES ASSUME IInv, crashes = 0, NEW line \in CompleteLines(file)
               PROVE  \E id \in 1 .. received : line = LineOf(id)
    BY Zenon DEF OneLinePerMessage
  <2>1. PICK i \in DOMAIN file : /\ i = 1 \/ file[i - 1].part = "newline"
                                 /\ line = ReadLine(SubSeq(file, i, Len(file)))
                                 /\ Last(line).part = "newline"
    BY Zenon DEF CompleteLines
  <2>2. line[Len(line)].part = "newline"
    BY <2>1, Zenon DEF Last
  <2>3. i \in 1 .. Len(file)
    BY <2>1 DEF IInv, Types
  <2> QED
    BY <2>1, <2>2, <2>3, CleanLine, Zenon
<1> QED
  BY Invariance, <1>1, PTL

====

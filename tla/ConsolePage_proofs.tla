-------------------------- MODULE ConsolePage_proofs --------------------------
(* A session and its page, for any test file, any number of sessions and any    *)
(* mixture of text, prompts and errors.  The session stays in step because each *)
(* line that it sends takes a prompt off the way to it, or is one that do_error *)
(* sends, of which there is one for each removetag0 that was sent.  The page is *)
(* not closed early because the connection is counted by the sessions that have *)
(* not ended.                                                                   *)
EXTENDS ConsolePage, SequenceTheorems, FiniteSetTheorems, TLAPS

One(b) == IF b THEN 1 ELSE 0
Count(s, x) == Cardinality({i \in DOMAIN s : s[i] = x})

(* The removetag0 among the lines that were sent.                               *)
Sent == Removetags(SubSeq(file, 1, pos - 1))

(* What lets the session send a line, and the lines that are not read yet: the  *)
(* prompts on the way, the one that the shell owes, the Error waited for.       *)
InStep ==
    Count(toConsole, "prompt") + Len(toShell) + One(shell \in {"absent", "proxy", "run"})
        + One(session = "error") <= 1 + Sent

(* An Error is owed only for a removetag0 that was sent and has been run.       *)
Expected == complaints + Count(toShell, "removetag") <= Sent

NoneLost == Sent = 0 => lost = {}
NoShellYet == session = "connect" => shell = "absent"

CInv == TypeOK /\ InStep /\ Expected /\ NoneLost /\ NoShellYet

-----------------------------------------------------------------------------
LEMMA CountIs ==
    ASSUME NEW S, NEW s \in Seq(S), NEW x
    PROVE  /\ IsFiniteSet({i \in DOMAIN s : s[i] = x})
           /\ Count(s, x) \in Nat /\ Count(s, x) <= Len(s)
<1>1. Len(s) \in Nat /\ DOMAIN s = 1..Len(s)
  BY LenProperties
<1>2. IsFiniteSet(1..Len(s)) /\ Cardinality(1..Len(s)) = Len(s)
  BY <1>1, FS_Interval
<1>3. {i \in DOMAIN s : s[i] = x} \in SUBSET (1..Len(s))
  BY <1>1
<1>4. /\ IsFiniteSet({i \in DOMAIN s : s[i] = x})
      /\ Cardinality({i \in DOMAIN s : s[i] = x}) <= Len(s)
  BY <1>2, <1>3, FS_Subset
<1>. QED
  BY <1>4, FS_CardinalityType DEF Count

LEMMA CountAppend ==
    ASSUME NEW S, NEW s \in Seq(S), NEW e \in S, NEW x
    PROVE  Count(Append(s, e), x) = Count(s, x) + One(e = x)
<1> DEFINE t == Append(s, e)
           A == {i \in DOMAIN s : s[i] = x}
<1>1. Len(s) \in Nat /\ DOMAIN s = 1..Len(s)
  BY LenProperties
<1>2. /\ t \in Seq(S) /\ Len(t) = Len(s) + 1 /\ t[Len(s) + 1] = e
      /\ \A i \in 1..Len(s) : t[i] = s[i]
  BY AppendProperties
<1>3. DOMAIN t = 1..(Len(s) + 1)
  BY <1>2, LenProperties
<1>4. IsFiniteSet(A) /\ Count(s, x) = Cardinality(A) /\ Count(s, x) \in Nat
  BY CountIs DEF Count
<1>5. \A i \in DOMAIN t : i \in 1..Len(s) \/ i = Len(s) + 1
  BY <1>1, <1>3
<1>6. Len(s) + 1 \in DOMAIN t /\ Len(s) + 1 \notin A /\ \A i \in DOMAIN s : i \in DOMAIN t
  BY <1>1, <1>3
<1> HIDE DEF t
<1>7. CASE e = x
  <2>1. {i \in DOMAIN t : t[i] = x} = A \cup {Len(s) + 1}
    BY <1>1, <1>2, <1>5, <1>6, <1>7
  <2>2. Cardinality(A \cup {Len(s) + 1}) = Cardinality(A) + 1
    BY <1>4, <1>6, FS_AddElement
  <2>. QED
    BY <1>4, <1>7, <2>1, <2>2 DEF Count, One, t
<1>8. CASE e # x
  <2>1. {i \in DOMAIN t : t[i] = x} = A
    BY <1>1, <1>2, <1>5, <1>6, <1>8
  <2>2. Count(t, x) = Count(s, x)
    BY <2>1 DEF Count
  <2>3. One(e = x) = 0
    BY <1>8 DEF One
  <2>. QED
    BY <1>4, <2>2, <2>3 DEF t
<1>. QED
  BY <1>7, <1>8

(* What a read leaves of what has arrived.                                      *)
LEMMA RestIs ==
    ASSUME NEW S, NEW s \in Seq(S), NEW n \in 1..Len(s)
    PROVE  /\ SubSeq(s, n + 1, Len(s)) \in Seq(S)
           /\ Len(SubSeq(s, n + 1, Len(s))) = Len(s) - n
           /\ \A j \in 1..(Len(s) - n) : SubSeq(s, n + 1, Len(s))[j] = s[n + j]
<1> DEFINE r == SubSeq(s, n + 1, Len(s))
<1>1. Len(s) \in Nat /\ n \in Nat /\ n >= 1 /\ n <= Len(s) /\ DOMAIN s = 1..Len(s)
  BY LenProperties
<1>2. \A i \in 1..Len(s) : s[i] \in S
  BY ElementOfSeq
<1>3. /\ r \in Seq(S) /\ Len(r) = Len(s) - n
      /\ \A j \in 1..(Len(s) - n) : r[j] = s[n + j]
  <2>1. \A i \in (n + 1)..Len(s) : s[i] \in S
    BY <1>1, <1>2
  <2>2. /\ r \in Seq(S)
        /\ Len(r) = IF n + 1 <= Len(s) THEN Len(s) - (n + 1) + 1 ELSE 0
        /\ \A j \in 1..(Len(s) - (n + 1) + 1) : r[j] = s[(n + 1) + j - 1]
    <3> DEFINE m == n + 1
    <3>1. m \in Int /\ Len(s) \in Int /\ \A i \in m..Len(s) : s[i] \in S
      BY <1>1, <2>1
    <3> HIDE DEF m
    <3>2. SubSeq(s, m, Len(s)) \in Seq(S)
      BY <3>1, SubSeqProperties
    <3>3. Len(SubSeq(s, m, Len(s))) = IF m <= Len(s) THEN Len(s) - m + 1 ELSE 0
      BY <3>1, SubSeqProperties
    <3>4. \A j \in 1..(Len(s) - m + 1) : SubSeq(s, m, Len(s))[j] = s[m + j - 1]
      BY <3>1, SubSeqProperties
    <3>5. r = SubSeq(s, m, Len(s))
      BY DEF m
    <3> HIDE DEF r
    <3>6. /\ r \in Seq(S) /\ Len(r) = IF m <= Len(s) THEN Len(s) - m + 1 ELSE 0
          /\ \A j \in 1..(Len(s) - m + 1) : r[j] = s[m + j - 1]
      BY <3>2, <3>3, <3>4, <3>5
    <3>. QED
      BY <3>6 DEF m
  <2> HIDE DEF r
  <2>3. Len(r) = Len(s) - n
    <3>1. Len(r) = IF n + 1 <= Len(s) THEN Len(s) - (n + 1) + 1 ELSE 0
      BY <2>2
    <3>2. Len(s) \in Nat /\ n \in Nat /\ n <= Len(s)
      BY <1>1
    <3>3. (IF n + 1 <= Len(s) THEN Len(s) - (n + 1) + 1 ELSE 0) = Len(s) - n
      BY <3>2
    <3>. QED
      BY <3>1, <3>3
  <2>4. \A j \in 1..(Len(s) - n) : r[j] = s[n + j]
    <3>. SUFFICES ASSUME NEW j \in 1..(Len(s) - n) PROVE r[j] = s[n + j]
      OBVIOUS
    <3>1. j \in 1..(Len(s) - (n + 1) + 1) /\ (n + 1) + j - 1 = n + j
      BY <1>1
    <3>. QED
      BY <2>2, <3>1
  <2>. QED
    BY <2>2, <2>3, <2>4
<1> HIDE DEF r
<1>. QED
  BY <1>3 DEF r

LEMMA CountRest ==
    ASSUME NEW S, NEW s \in Seq(S), NEW n \in 1..Len(s), NEW x
    PROVE  /\ SubSeq(s, n + 1, Len(s)) \in Seq(S)
           /\ Len(SubSeq(s, n + 1, Len(s))) = Len(s) - n
           /\ Count(SubSeq(s, n + 1, Len(s)), x) <= Count(s, x)
           /\ (\E i \in 1..n : s[i] = x)
                => Count(SubSeq(s, n + 1, Len(s)), x) + 1 <= Count(s, x)
<1> DEFINE r == SubSeq(s, n + 1, Len(s))
           A == {i \in 1..n : s[i] = x}
           B == {i \in (n + 1)..Len(s) : s[i] = x}
           C == {j \in DOMAIN r : r[j] = x}
<1>1. Len(s) \in Nat /\ n \in Nat /\ n >= 1 /\ n <= Len(s) /\ DOMAIN s = 1..Len(s)
  BY LenProperties
<1>3. /\ r \in Seq(S) /\ Len(r) = Len(s) - n
      /\ \A j \in 1..(Len(s) - n) : r[j] = s[n + j]
  BY RestIs
<1>4. DOMAIN r = 1..(Len(s) - n)
  BY <1>3, LenProperties
<1> HIDE DEF r
<1>5. {i \in DOMAIN s : s[i] = x} = A \cup B /\ A \cap B = {}
  BY <1>1
<1>6. IsFiniteSet(A \cup B) /\ Count(s, x) = Cardinality(A \cup B) /\ Count(s, x) \in Nat
  <2>1. IsFiniteSet({i \in DOMAIN s : s[i] = x}) /\ Count(s, x) \in Nat
    BY CountIs
  <2>2. Count(s, x) = Cardinality({i \in DOMAIN s : s[i] = x})
    BY DEF Count
  <2> HIDE DEF A, B
  <2>. QED
    BY <1>5, <2>1, <2>2
<1>7. IsFiniteSet(A) /\ IsFiniteSet(B)
  BY <1>6, FS_Subset
<1>8. Cardinality(A) \in Nat /\ Cardinality(B) \in Nat
  BY <1>7, FS_CardinalityType
<1>9. Count(s, x) = Cardinality(A) + Cardinality(B)
  <2>1. Cardinality(A \cup B) = Cardinality(A) + Cardinality(B) - Cardinality(A \cap B)
    BY <1>7, FS_Union
  <2>2. Cardinality(A \cap B) = 0
    BY <1>5, FS_EmptySet
  <2> HIDE DEF A, B
  <2>. QED
    BY <1>6, <1>8, <2>1, <2>2
<1>10. Cardinality(C) <= Cardinality(B)
  <2> DEFINE f == [j \in C |-> n + j]
  <2>1. \A j \in C : j \in Nat /\ n + j \in B
    BY <1>1, <1>3, <1>4
  <2>2. f \in [C -> B] /\ IsInjective(f)
    BY <1>1, <2>1 DEF IsInjective
  <2>3. f \in Injection(C, B)
    BY <2>2 DEF Injection
  <2>. QED
    BY <1>7, <2>3, FS_Injection
<1>11. Count(r, x) = Cardinality(C) /\ Count(r, x) \in Nat
  <2>1. Count(r, x) \in Nat
    BY <1>3, CountIs
  <2>. QED
    BY <2>1 DEF Count
<1>12. (\E i \in 1..n : s[i] = x) => Cardinality(A) >= 1
  <2>1. Cardinality(A) = 0 <=> A = {}
    BY <1>7, FS_EmptySet
  <2>2. (\E i \in 1..n : s[i] = x) => A # {}
    OBVIOUS
  <2> HIDE DEF A
  <2>. QED
    BY <1>8, <2>1, <2>2
<1> HIDE DEF A, B, C
<1>. QED
  BY <1>3, <1>8, <1>9, <1>10, <1>11, <1>12 DEF r

-----------------------------------------------------------------------------
LEMMA FileIs ==
    ASSUME TypeOK
    PROVE  /\ file \in Seq(Kinds) /\ file \in Seq(Lines) /\ Len(file) \in Nat
           /\ pos \in Nat /\ pos >= 1 /\ pos <= Len(file) + 1
           /\ \A i \in 1..Len(file) : file[i] \in Lines
<1>1. file \in Seq(Kinds)
  BY FilesAssumption DEF TypeOK
<1>2. file \in Seq(Lines)
  BY <1>1, SeqMonotonic DEF Lines
<1>3. Len(file) \in Nat
  BY <1>1, LenProperties
<1>4. \A i \in 1..Len(file) : file[i] \in Lines
  BY <1>2, ElementOfSeq
<1>5. pos \in Nat /\ pos >= 1 /\ pos <= Len(file) + 1
  BY <1>3 DEF TypeOK
<1>. QED
  BY <1>1, <1>2, <1>3, <1>4, <1>5

(* No more removetag0 were sent than there are lines.                           *)
LEMMA SentIs ==
    ASSUME TypeOK
    PROVE  /\ SubSeq(file, 1, pos - 1) \in Seq(Lines)
           /\ Sent = Count(SubSeq(file, 1, pos - 1), "removetag")
           /\ Sent \in Nat /\ Sent <= Len(file)
<1>1. /\ file \in Seq(Lines) /\ Len(file) \in Nat /\ pos \in Nat /\ pos >= 1
      /\ pos <= Len(file) + 1 /\ \A i \in 1..Len(file) : file[i] \in Lines
  BY FileIs
<1> DEFINE m == pos - 1
           past == SubSeq(file, 1, m)
<1>2. m \in Int /\ m >= 0 /\ m <= Len(file) /\ \A i \in 1..m : file[i] \in Lines
  BY <1>1
<1> HIDE DEF m
<1>3. past \in Seq(Lines)
  BY <1>2, SubSeqProperties
<1>4. Len(past) = IF 1 <= m THEN m - 1 + 1 ELSE 0
  BY <1>2, SubSeqProperties
<1>5. (IF 1 <= m THEN m - 1 + 1 ELSE 0) = m
  BY <1>2
<1> HIDE DEF past
<1>6. Len(past) = m
  BY <1>4, <1>5
<1>7. Count(past, "removetag") \in Nat /\ Count(past, "removetag") <= Len(past)
  BY <1>3, CountIs
<1>8. Sent = Count(past, "removetag")
  BY DEF Sent, Removetags, Count, past, m
<1>9. Sent \in Nat /\ Sent <= Len(file)
  BY <1>1, <1>2, <1>6, <1>7, <1>8
<1>. QED
  BY <1>3, <1>8, <1>9 DEF past, m

(* A line of the file is sent.                                                  *)
LEMMA SentGrows ==
    ASSUME TypeOK, pos <= Len(file), file' = file, pos' = pos + 1
    PROVE  Sent' = Sent + One(file[pos] = "removetag")
<1>1. /\ file \in Seq(Lines) /\ Len(file) \in Nat /\ pos \in 1..Len(file) /\ 1 \in 1..Len(file)
      /\ file[pos] \in Lines
  BY FileIs
<1> DEFINE past == SubSeq(file, 1, pos - 1)
<1>2. past \in Seq(Lines) /\ Sent = Count(past, "removetag")
  BY SentIs
<1>3. SubSeq(file, 1, pos) = past \o <<file[pos]>>
  BY <1>1, SubSeqRecursiveSecond
<1> HIDE DEF past
<1>4. Append(past, file[pos]) = past \o <<file[pos]>>
  BY <1>1, <1>2, AppendIsConcat
<1>5. Count(Append(past, file[pos]), "removetag")
        = Count(past, "removetag") + One(file[pos] = "removetag")
  BY <1>1, <1>2, CountAppend
<1>6. pos' - 1 = pos
  BY <1>1
<1>7. Sent' = Count(SubSeq(file, 1, pos), "removetag")
  BY <1>6 DEF Sent, Removetags, Count
<1>. QED
  BY <1>2, <1>3, <1>4, <1>5, <1>7

LEMMA OneIs == \A b \in BOOLEAN : One(b) \in 0..1 /\ (b => One(b) = 1) /\ (~b => One(b) = 0)
BY DEF One

(* getline, and the line is sent.                                               *)
LEMMA WriteDoes ==
    ASSUME TypeOK, do_write, file' = file
    PROVE  /\ pos' \in 1..(Len(file) + 1)
           /\ toShell' \in Seq(Lines) /\ Len(toShell') = Len(toShell) + 1
           /\ Sent' = Sent + One(NextLine = "removetag")
           /\ Count(toShell', "removetag") = Count(toShell, "removetag") + One(NextLine = "removetag")
           /\ session' \in {"read", "error", "finish"}
           /\ session' = "error" <=> NextLine = "removetag"
<1>1. /\ Len(file) \in Nat /\ pos \in Nat /\ pos >= 1 /\ pos <= Len(file) + 1
      /\ \A i \in 1..Len(file) : file[i] \in Lines
  BY FileIs
<1>2. /\ toShell' = Append(toShell, NextLine)
      /\ session' = AfterWrite(NextLine)
      /\ pos' = IF pos <= Len(file) THEN pos + 1 ELSE pos
  BY DEF do_write
<1>3. NextLine \in Lines
  BY <1>1 DEF NextLine, Lines
<1>4. toShell \in Seq(Lines)
  BY DEF TypeOK
<1>5. toShell' \in Seq(Lines) /\ Len(toShell') = Len(toShell) + 1
  BY <1>2, <1>3, <1>4, AppendProperties
<1>6. Count(toShell', "removetag") = Count(toShell, "removetag") + One(NextLine = "removetag")
  BY <1>2, <1>3, <1>4, CountAppend
<1>7. pos' \in 1..(Len(file) + 1)
  BY <1>1, <1>2
<1>8. Sent' = Sent + One(NextLine = "removetag")
  <2>1. CASE pos <= Len(file)
    BY <1>2, <2>1, SentGrows DEF NextLine
  <2>2. CASE ~(pos <= Len(file))
    <3>1. NextLine = "empty" /\ pos' = pos
      BY <1>2, <2>2 DEF NextLine
    <3>2. Sent' = Sent
      BY <3>1 DEF Sent, Removetags
    <3>. QED
      BY <3>1, <3>2, SentIs DEF One
  <2>. QED
    BY <2>1, <2>2
<1>9. /\ session' \in {"read", "error", "finish"}
      /\ session' = "error" <=> NextLine = "removetag"
  BY <1>2, <1>3 DEF AfterWrite
<1>. QED
  BY <1>5, <1>6, <1>7, <1>8, <1>9

(* A read takes what it takes, and a line is sent for a prompt or an Error.     *)
LEMMA ReadForInv ==
    ASSUME CInv, NEW sizes \in SUBSET Some, NEW waiting, NEW word,
           ReadFor(waiting, word, sizes),
           (waiting = "read" /\ word = "prompt") \/ waiting = "error"
    PROVE  CInv'
<1> DEFINE P == Count(toConsole, "prompt")
           T == Count(toShell, "removetag")
           L == Len(toShell)
<1>1. TypeOK /\ InStep /\ Expected /\ NoneLost
  BY DEF CInv
<1>2. PICK n \in sizes :
        /\ toConsole' = Rest(n)
        /\ IF word \in Received(n) THEN do_write ELSE UNCHANGED <<session, toShell, pos>>
  BY DEF ReadFor
<1>3. session = waiting /\ UNCHANGED <<file, program, shell, complaints, lost>>
  BY DEF ReadFor
<1>4. toConsole \in Seq(Pieces) /\ n \in 1..Len(toConsole)
  BY <1>1 DEF TypeOK, Some
<1>5. /\ toConsole' \in Seq(Pieces)
      /\ Count(toConsole', "prompt") <= P
      /\ "prompt" \in Received(n) => Count(toConsole', "prompt") + 1 <= P
  BY <1>2, <1>4, CountRest DEF Rest, Received
<1>6. P \in Nat /\ Count(toConsole', "prompt") \in Nat /\ T \in Nat /\ L \in Nat
  BY <1>1, <1>4, <1>5, CountIs, LenProperties DEF TypeOK
<1>7. Sent \in Nat /\ Sent <= Len(file) /\ complaints \in Nat
  <2>1. Sent \in Nat /\ Sent <= Len(file) /\ Len(file) \in Nat
    BY <1>1, SentIs, FileIs
  <2>. QED
    BY <1>1, <2>1 DEF TypeOK
<1> DEFINE h == One(shell \in {"absent", "proxy", "run"})
           e == One(session = "error")
<1>8. h \in Nat /\ e \in 0..1 /\ P + L + h + e <= 1 + Sent /\ complaints + T <= Sent
  <2>1. h \in Nat /\ e \in 0..1
    BY DEF One
  <2>2. P + L + h + e <= 1 + Sent /\ complaints + T <= Sent
    BY <1>1 DEF InStep, Expected
  <2>. QED
    BY <2>1, <2>2
<1>9. CASE word \in Received(n)
  <2> DEFINE r == One(NextLine = "removetag")
  <2>1. /\ pos' \in 1..(Len(file) + 1)
        /\ toShell' \in Seq(Lines) /\ Len(toShell') = L + 1
        /\ Sent' = Sent + r
        /\ Count(toShell', "removetag") = T + r
        /\ session' \in {"read", "error", "finish"}
        /\ session' = "error" <=> NextLine = "removetag"
    BY <1>1, <1>2, <1>3, <1>9, WriteDoes
  <2>2. r \in 0..1 /\ One(session' = "error") = r
    BY <2>1, OneIs DEF One
  <2>3. Count(toConsole', "prompt") + 1 <= P \/ e = 1
    BY <1>3, <1>5, <1>9 DEF One
  <2> HIDE DEF P, T, L, h, e, r
  <2>4. Count(toConsole', "prompt") + (L + 1) + h + r <= 1 + (Sent + r)
    BY <1>5, <1>6, <1>7, <1>8, <2>2, <2>3
  <2>5. complaints + (T + r) <= Sent + r /\ (Sent + r = 0 => Sent = 0)
    BY <1>6, <1>7, <1>8, <2>2
  <2>6. InStep'
    BY <1>3, <2>1, <2>2, <2>4 DEF InStep, h
  <2>7. Expected' /\ NoneLost'
    BY <1>1, <1>3, <2>1, <2>5 DEF Expected, NoneLost
  <2>8. TypeOK'
    BY <1>1, <1>3, <1>5, <2>1 DEF TypeOK
  <2>9. NoShellYet'
    BY <2>1 DEF NoShellYet
  <2>. QED
    BY <2>6, <2>7, <2>8, <2>9 DEF CInv
<1>10. CASE word \notin Received(n)
  <2>1. UNCHANGED <<session, toShell, pos, file, shell, complaints, lost, program>>
    BY <1>2, <1>3, <1>10
  <2>2. Sent' = Sent
    BY <2>1 DEF Sent, Removetags
  <2> HIDE DEF P, T, L, h, e
  <2>3. Count(toConsole', "prompt") + L + h + e <= 1 + Sent
    BY <1>5, <1>6, <1>7, <1>8
  <2>4. InStep'
    BY <2>1, <2>2, <2>3 DEF InStep, L, h, e
  <2>5. Expected' /\ NoneLost' /\ NoShellYet'
    BY <1>1, <2>1, <2>2 DEF Expected, NoneLost, NoShellYet, CInv
  <2>6. TypeOK'
    BY <1>1, <1>5, <2>1 DEF TypeOK
  <2>. QED
    BY <2>4, <2>5, <2>6 DEF CInv
<1>. QED
  BY <1>9, <1>10

LEMMA Numbers ==
    ASSUME TypeOK
    PROVE  /\ toConsole \in Seq(Pieces) /\ toShell \in Seq(Lines)
           /\ Count(toConsole, "prompt") \in Nat /\ Count(toShell, "removetag") \in Nat
           /\ Len(toShell) \in Nat /\ Sent \in Nat /\ complaints \in Nat
           /\ Sent <= Len(file) /\ Len(file) \in Nat
<1>1. toConsole \in Seq(Pieces) /\ toShell \in Seq(Lines)
  BY DEF TypeOK
<1>2. Count(toConsole, "prompt") \in Nat /\ Count(toShell, "removetag") \in Nat
  BY <1>1, CountIs
<1>3. Len(toShell) \in Nat
  BY <1>1, LenProperties
<1>4. Sent \in Nat /\ Sent <= Len(file) /\ Len(file) \in Nat
  BY SentIs, FileIs
<1>5. complaints \in Nat
  BY <1>4 DEF TypeOK
<1>. QED
  BY <1>1, <1>2, <1>3, <1>4, <1>5

(* The connection is made, or not.                                              *)
LEMMA ConnectInv ==
    ASSUME CInv, Connect \/ ConnectFails \/ wait_reply
    PROVE  CInv'
<1>1. TypeOK /\ InStep /\ Expected /\ NoneLost /\ NoShellYet
  BY DEF CInv
<1>2. UNCHANGED <<file, program, pos, toConsole, toShell, complaints, lost>>
  BY DEF Connect, ConnectFails, wait_reply
<1>3. /\ session # "error" /\ session' \in {"reply", "read", "stopped"}
      /\ shell \in {"absent", "proxy"} /\ shell' \in {"absent", "proxy", "run", "gone"}
  BY <1>1 DEF Connect, ConnectFails, wait_reply, NoShellYet
<1>4. Sent' = Sent
  BY <1>2 DEF Sent, Removetags
<1>5. TypeOK'
  BY <1>1, <1>2, <1>3 DEF TypeOK
<1>6. InStep'
  <2>1. One(shell \in {"absent", "proxy", "run"}) = 1 /\ One(session = "error") = 0
    BY <1>3 DEF One
  <2>2. One(shell' \in {"absent", "proxy", "run"}) \in 0..1 /\ One(session' = "error") = 0
    BY <1>3 DEF One
  <2>3. Count(toConsole, "prompt") + Len(toShell) + 1 + 0 <= 1 + Sent
    BY <1>1, <2>1 DEF InStep
  <2>4. Count(toConsole, "prompt") + Len(toShell) + One(shell' \in {"absent", "proxy", "run"})
            + One(session' = "error") <= 1 + Sent
    BY <1>1, <2>2, <2>3, Numbers
  <2>. QED
    BY <1>2, <1>4, <2>4 DEF InStep
<1>7. Expected' /\ NoneLost' /\ NoShellYet'
  BY <1>1, <1>2, <1>3, <1>4 DEF Expected, NoneLost, NoShellYet
<1>. QED
  BY <1>5, <1>6, <1>7 DEF CInv

LEMMA SessionInv ==
    ASSUME CInv, Session
    PROVE  CInv'
<1>1. CASE Connect \/ ConnectFails \/ wait_reply
  BY <1>1, ConnectInv
<1>2. CASE do_read
  BY <1>2, ReadForInv DEF do_read
<1>3. CASE do_error
  BY <1>3, ReadForInv DEF do_error
<1>4. CASE do_error_full
  BY <1>4, ReadForInv DEF do_error_full
<1>. QED
  BY <1>1, <1>2, <1>3, <1>4 DEF Session

(* A prompt, which the shell owed, is on its way.                               *)
LEMMA PromptInv ==
    ASSUME CInv, Prompt
    PROVE  CInv'
<1>1. TypeOK /\ InStep /\ Expected /\ NoneLost /\ NoShellYet
  BY DEF CInv
<1>2. /\ shell = "run" /\ shell' = "wait" /\ toConsole' = Append(toConsole, "prompt")
      /\ UNCHANGED <<file, program, pos, session, toShell, complaints, lost>>
  BY DEF Prompt, console
<1>3. /\ toConsole' \in Seq(Pieces)
      /\ Count(toConsole', "prompt") = Count(toConsole, "prompt") + 1
  <2>1. toConsole \in Seq(Pieces) /\ "prompt" \in Pieces
    BY <1>1 DEF TypeOK, Pieces
  <2>2. Count(Append(toConsole, "prompt"), "prompt")
          = Count(toConsole, "prompt") + One("prompt" = "prompt")
    BY <2>1, CountAppend
  <2>. QED
    BY <1>2, <2>1, <2>2, AppendProperties DEF One
<1>4. Sent' = Sent
  BY <1>2 DEF Sent, Removetags
<1>5. TypeOK'
  BY <1>1, <1>2, <1>3 DEF TypeOK
<1>6. InStep'
  <2>1. One(shell \in {"absent", "proxy", "run"}) = 1
        /\ One(shell' \in {"absent", "proxy", "run"}) = 0
    BY <1>2 DEF One
  <2>2. One(session = "error") \in 0..1
    BY DEF One
  <2>3. Count(toConsole, "prompt") + Len(toShell) + 1 + One(session = "error") <= 1 + Sent
    BY <1>1, <2>1 DEF InStep
  <2>4. Count(toConsole', "prompt") + Len(toShell) + 0 + One(session = "error") <= 1 + Sent
    BY <1>1, <1>3, <2>2, <2>3, Numbers
  <2>. QED
    BY <1>2, <1>4, <2>1, <2>4 DEF InStep
<1>7. Expected' /\ NoneLost' /\ NoShellYet'
  BY <1>1, <1>2, <1>4 DEF Expected, NoneLost, NoShellYet
<1>. QED
  BY <1>5, <1>6, <1>7 DEF CInv

(* What is not a prompt is on its way.                                          *)
LEMMA OtherPiece ==
    ASSUME TypeOK, NEW piece \in Pieces, piece # "prompt", toConsole' = Append(toConsole, piece)
    PROVE  /\ toConsole' \in Seq(Pieces)
           /\ Count(toConsole', "prompt") = Count(toConsole, "prompt")
<1>1. toConsole \in Seq(Pieces)
  BY DEF TypeOK
<1>2. Count(Append(toConsole, piece), "prompt") = Count(toConsole, "prompt") + One(piece = "prompt")
  BY <1>1, CountAppend
<1>3. One(piece = "prompt") = 0
  BY DEF One
<1>4. Append(toConsole, piece) \in Seq(Pieces)
  BY <1>1, AppendProperties
<1>. QED
  BY <1>2, <1>3, <1>4, Numbers

LEMMA SpeakInv ==
    ASSUME CInv, Text \/ Complain
    PROVE  CInv'
<1>1. TypeOK /\ InStep /\ Expected /\ NoneLost /\ NoShellYet
  BY DEF CInv
<1>2. UNCHANGED <<file, program, pos, session, toShell, shell, lost>>
  BY DEF Text, Complain, console
<1>3. /\ toConsole' \in Seq(Pieces)
      /\ Count(toConsole', "prompt") = Count(toConsole, "prompt")
  BY <1>1, OtherPiece DEF Text, Complain, Pieces
<1>4. complaints' \in 0..Len(file) /\ complaints' <= complaints
  BY <1>1, Numbers DEF TypeOK, Text, Complain
<1>5. Sent' = Sent
  BY <1>2 DEF Sent, Removetags
<1>6. TypeOK'
  BY <1>1, <1>2, <1>3, <1>4 DEF TypeOK
<1>7. InStep' /\ NoneLost' /\ NoShellYet'
  BY <1>1, <1>2, <1>3, <1>5 DEF InStep, NoneLost, NoShellYet
<1>8. Expected'
  <2>1. complaints + Count(toShell, "removetag") <= Sent
    BY <1>1 DEF Expected
  <2>2. complaints' \in Nat
    BY <1>1, <1>4, Numbers
  <2>3. complaints' + Count(toShell, "removetag") <= Sent
    BY <1>1, <1>4, <2>1, <2>2, Numbers
  <2>. QED
    BY <1>2, <1>5, <2>3 DEF Expected
<1>. QED
  BY <1>6, <1>7, <1>8 DEF CInv

(* recv: several lines are read only when do_error has sent one of them.        *)
LEMMA RecvInv ==
    ASSUME CInv, Recv
    PROVE  CInv'
<1> DEFINE line == Head(toShell)
<1>1. TypeOK /\ InStep /\ Expected /\ NoneLost /\ NoShellYet
  BY DEF CInv
<1>2. PICK n \in 1..Len(toShell) :
        /\ toShell' = SubSeq(toShell, n + 1, Len(toShell))
        /\ lost' = lost \cup {toShell[i] : i \in 2..n}
  BY DEF Recv
<1>3. /\ shell = "wait" /\ UNCHANGED <<file, program, pos, session>>
      /\ shell' = IF line = "exit" THEN "gone" ELSE "run"
      /\ complaints' = complaints + (IF line = "removetag" THEN 1 ELSE 0)
      /\ toConsole' = IF line = "complain" THEN Append(toConsole, "Error") ELSE toConsole
  BY DEF Recv, console
<1>4. toShell \in Seq(Lines) /\ Len(toShell) \in Nat /\ n \in Nat /\ n >= 1 /\ n <= Len(toShell)
  BY <1>1, Numbers
<1>5. line = toShell[1] /\ 1 \in 1..n
  BY <1>4
<1>6. /\ toShell' \in Seq(Lines) /\ Len(toShell') = Len(toShell) - n
      /\ Count(toShell', "removetag") <= Count(toShell, "removetag")
      /\ line = "removetag" => Count(toShell', "removetag") + 1 <= Count(toShell, "removetag")
  BY <1>2, <1>4, <1>5, CountRest
<1>7. Count(toShell', "removetag") \in Nat
  BY <1>6, CountIs
<1>8. /\ toConsole' \in Seq(Pieces)
      /\ Count(toConsole', "prompt") = Count(toConsole, "prompt")
  BY <1>1, <1>3, OtherPiece, Numbers DEF Pieces
<1>9. Sent' = Sent
  BY <1>3 DEF Sent, Removetags
<1> HIDE DEF line
<1>10. complaints' + Count(toShell', "removetag") <= Sent /\ complaints' \in 0..Len(file)
  <2>1. complaints + Count(toShell, "removetag") <= Sent
    BY <1>1 DEF Expected
  <2>2. /\ complaints \in Nat /\ Sent \in Nat /\ Sent <= Len(file) /\ Len(file) \in Nat
        /\ Count(toShell, "removetag") \in Nat
    BY <1>1, Numbers
  <2>3. CASE line = "removetag"
    BY <1>3, <1>6, <1>7, <2>1, <2>2, <2>3
  <2>4. CASE line # "removetag"
    BY <1>3, <1>6, <1>7, <2>1, <2>2, <2>4
  <2>. QED
    BY <2>3, <2>4
<1>11. /\ Count(toConsole, "prompt") + Len(toShell) + 0 + One(session = "error") <= 1 + Sent
       /\ Count(toConsole, "prompt") \in Nat /\ One(session = "error") \in 0..1 /\ Sent \in Nat
  <2>1. One(shell \in {"absent", "proxy", "run"}) = 0
    BY <1>3 DEF One
  <2>2. One(session = "error") \in 0..1
    BY DEF One
  <2>. QED
    BY <1>1, <2>1, <2>2, Numbers DEF InStep
<1>12. InStep'
  <2>1. One(shell' \in {"absent", "proxy", "run"}) \in 0..1
    BY DEF One
  <2>2. Count(toConsole, "prompt") + (Len(toShell) - n) + One(shell' \in {"absent", "proxy", "run"})
            + One(session = "error") <= 1 + Sent
    BY <1>4, <1>11, <2>1
  <2>. QED
    BY <1>3, <1>6, <1>8, <1>9, <2>2 DEF InStep
<1>13. NoneLost'
  <2>. SUFFICES ASSUME Sent = 0 PROVE lost' = {}
    BY <1>9 DEF NoneLost
  <2>1. Len(toShell) <= 1
    BY <1>4, <1>11
  <2>2. 2..n = {}
    BY <1>4, <2>1
  <2>. QED
    BY <1>1, <1>2, <2>2 DEF NoneLost
<1>14. lost' \subseteq Lines
  <2>1. \A i \in 2..n : i \in 1..Len(toShell) /\ toShell[i] \in Lines
    BY <1>4, ElementOfSeq
  <2>. QED
    BY <1>1, <1>2, <2>1 DEF TypeOK
<1>15. TypeOK'
  BY <1>1, <1>3, <1>6, <1>8, <1>10, <1>14 DEF TypeOK
<1>16. Expected' /\ NoShellYet'
  BY <1>1, <1>3, <1>9, <1>10 DEF Expected, NoShellYet
<1>. QED
  BY <1>12, <1>13, <1>15, <1>16 DEF CInv

LEMMA ConsoleInit == SessionInit => CInv
<1>. SUFFICES ASSUME SessionInit PROVE CInv
  OBVIOUS
<1>1. /\ file \in Files /\ program \in Programs /\ pos = 1 /\ session = "connect"
      /\ toConsole = <<>> /\ toShell = <<>> /\ shell = "absent" /\ complaints = 0 /\ lost = {}
  BY DEF SessionInit
<1>2. Len(file) \in Nat
  BY <1>1, FilesAssumption, LenProperties
<1>3. TypeOK
  BY <1>1, <1>2, EmptySeq DEF TypeOK
<1>4. Len(<<>>) = 0 /\ <<>> \in Seq(Lines)
  BY EmptySeq
<1>5. \A x : Count(<<>>, x) = 0
  <2>. SUFFICES ASSUME NEW x PROVE Count(<<>>, x) = 0
    OBVIOUS
  <2>1. Count(<<>>, x) \in Nat /\ Count(<<>>, x) <= 0
    BY <1>4, CountIs
  <2>. QED
    BY <2>1
<1>6. Sent \in Nat
  BY <1>3, SentIs
<1>7. InStep
  BY <1>1, <1>4, <1>5, <1>6 DEF InStep, One
<1>8. Expected /\ NoneLost /\ NoShellYet
  BY <1>1, <1>5, <1>6 DEF Expected, NoneLost, NoShellYet
<1>. QED
  BY <1>3, <1>7, <1>8 DEF CInv

LEMMA ConsoleStutters == CInv /\ UNCHANGED vars => CInv'
<1>. SUFFICES ASSUME CInv, UNCHANGED vars PROVE CInv'
  OBVIOUS
<1>1. UNCHANGED <<file, program, pos, session, toConsole, toShell, shell, complaints, lost>>
  BY DEF vars
<1>2. Sent' = Sent
  BY <1>1 DEF Sent, Removetags
<1>3. TypeOK'
  BY <1>1 DEF CInv, TypeOK
<1>4. InStep' /\ Expected' /\ NoneLost' /\ NoShellYet'
  BY <1>1, <1>2 DEF CInv, InStep, Expected, NoneLost, NoShellYet
<1>. QED
  BY <1>3, <1>4 DEF CInv

LEMMA InStepIsRight == CInv => StaysInStep
<1>. SUFFICES ASSUME CInv PROVE StaysInStep
  OBVIOUS
<1>1. TypeOK /\ InStep /\ NoneLost
  BY DEF CInv
<1>2. /\ One(shell \in {"absent", "proxy", "run"}) \in 0..1 /\ One(session = "error") \in 0..1
  BY DEF One
<1>3. Len(toShell) <= 1 + Sent
  BY <1>1, <1>2, Numbers DEF InStep
<1>. QED
  BY <1>1, <1>3 DEF StaysInStep, NoneLost, Sent

-----------------------------------------------------------------------------
(* The page.  Its connection is counted by the sessions that have not ended,    *)
(* and in cgi_server once more by the frame of the callback.                    *)
Base == One(program = "cgi")
Served ==
    /\ request # "run" => session = "connect" /\ refs = 0
    /\ request = "run" => refs = others + One(~Over) + Base

(* The server, and then the program, has it open while a session goes on.       *)
HeldOpen ==
    /\ request \in {"wait_http_request", "accept_http_request"} => "server" \in holders
    /\ request = "run" /\ refs > Base =>
          (IF program = "cgi" THEN "server" ELSE "program") \in holders

PageShape ==
    /\ request \in {"accept", "wait_http_request", "accept_http_request", "run"}
    /\ holders \subseteq {"server", "program", "neighbour"}
    /\ neighbour \in {"none", "run", "ended"}
    /\ others \in 0..MaxOthers /\ last \in {"none", "finish", "stopped"}

PInv == PageShape /\ Served /\ HeldOpen

LEMMA PageNumbers ==
    ASSUME PInv
    PROVE  /\ others \in Nat /\ others <= MaxOthers /\ MaxOthers \in Nat
           /\ Base \in 0..1 /\ (program = "cgi" => Base = 1) /\ (program # "cgi" => Base = 0)
           /\ One(~Over) \in 0..1 /\ (Over => One(~Over) = 0) /\ (~Over => One(~Over) = 1)
           /\ refs \in 0..(MaxOthers + 2)
<1>1. others \in Nat /\ others <= MaxOthers /\ MaxOthers \in Nat
  BY MaxOthersAssumption DEF PInv, PageShape
<1>2. Base \in 0..1 /\ (program = "cgi" => Base = 1) /\ (program # "cgi" => Base = 0)
  BY DEF Base, One
<1>3. One(~Over) \in 0..1 /\ (Over => One(~Over) = 0) /\ (~Over => One(~Over) = 1)
  BY DEF One
<1>4. refs = 0 \/ refs = others + One(~Over) + Base
  BY DEF PInv, Served, PageShape
<1>. QED
  BY <1>1, <1>2, <1>3, <1>4

LEMMA PageInitInv == PageInit => PInv
<1>. SUFFICES ASSUME PageInit PROVE PInv
  OBVIOUS
<1>1. /\ request = "accept" /\ holders = {} /\ neighbour = "none" /\ others \in 0..MaxOthers
      /\ refs = 0 /\ last = "none" /\ session = "connect"
  BY DEF PageInit, SessionInit
<1>. QED
  BY <1>1 DEF PInv, PageShape, Served, HeldOpen

(* The callbacks of the request, up to the fork or the start of the sessions.   *)
LEMMA RequestInv ==
    ASSUME PInv, Request
    PROVE  PInv'
<1>1. PageShape /\ Served /\ HeldOpen
  BY DEF PInv
<1>2. UNCHANGED <<program, session, neighbour, others, last>>
  BY DEF Request, do_accept, wait_http_request, accept_http_request, accept_console_cgi, vars
<1>3. session = "connect" /\ ~Over /\ ~Over' /\ Base' = Base /\ One(~Over)' = 1
  <2>1. session = "connect"
    BY <1>1 DEF Served, Request, do_accept, wait_http_request, accept_http_request,
                accept_console_cgi
  <2>. QED
    BY <1>2, <2>1 DEF Over, Base, One
<1>4. CASE do_accept \/ wait_http_request
  <2>1. request' \in {"wait_http_request", "accept_http_request"} /\ refs' = refs /\ refs = 0
    BY <1>1, <1>4 DEF do_accept, wait_http_request, Served
  <2>2. "server" \in holders' /\ holders' \subseteq {"server", "program", "neighbour"}
    BY <1>1, <1>4 DEF do_accept, wait_http_request, HeldOpen, PageShape
  <2>. QED
    BY <1>1, <1>2, <1>3, <2>1, <2>2 DEF PInv, PageShape, Served, HeldOpen
<1>5. CASE accept_http_request
  <2>1. /\ request' = "run" /\ refs' = others + 1 /\ "program" \in holders' /\ program # "cgi"
        /\ holders' \subseteq {"server", "program", "neighbour"}
    BY <1>1, <1>5 DEF accept_http_request, PageShape
  <2>2. Base = 0
    BY <2>1 DEF Base, One
  <2>3. refs' = others' + One(~Over)' + Base'
    BY <1>1, <1>2, <1>3, <2>1, <2>2 DEF PageShape
  <2>. QED
    BY <1>1, <1>2, <2>1, <2>3 DEF PInv, PageShape, Served, HeldOpen
<1>6. CASE accept_console_cgi
  <2>1. /\ request' = "run" /\ refs' = others + 2 /\ program = "cgi" /\ holders' = holders
        /\ "server" \in holders
    BY <1>1, <1>6 DEF accept_console_cgi, HeldOpen
  <2>2. Base = 1
    BY <2>1 DEF Base, One
  <2>3. refs' = others' + One(~Over)' + Base'
    BY <1>1, <1>2, <1>3, <2>1, <2>2 DEF PageShape
  <2>. QED
    BY <1>1, <1>2, <2>1, <2>3 DEF PInv, PageShape, Served, HeldOpen
<1>. QED
  BY <1>4, <1>5, <1>6 DEF Request

(* A session ends: it is one of those that count.                               *)
LEMMA EndInv ==
    ASSUME PInv, request = "run", refs > Base, exit_written \/ dropped
    PROVE  /\ refs' = refs - 1 /\ last' \in {"none", "finish", "stopped"}
           /\ holders' \subseteq {"server", "program", "neighbour"}
           /\ refs' > Base =>
                 (IF program = "cgi" THEN "server" ELSE "program") \in holders'
<1>1. PageShape /\ HeldOpen /\ (IF program = "cgi" THEN "server" ELSE "program") \in holders
  BY DEF PInv, HeldOpen
<1>2. refs' = refs - 1 /\ last' \in {"none", "finish", "stopped"}
  BY DEF exit_written, dropped
<1>3. refs' > Base => holders' = holders
  <2>. SUFFICES ASSUME refs' > Base, holders' # holders PROVE FALSE
    OBVIOUS
  <2>1. program = "cgi" /\ refs = 2
    BY DEF exit_written, dropped
  <2>2. Base = 1
    BY <2>1 DEF Base, One
  <2>. QED
    BY <1>2, <2>1, <2>2
<1>4. holders' \subseteq {"server", "program", "neighbour"}
  BY <1>1 DEF PageShape, exit_written, dropped
<1>. QED
  BY <1>1, <1>2, <1>3, <1>4

LEMMA OwnSessionInv ==
    ASSUME PInv, OwnSession, TypeOK'
    PROVE  PInv'
<1>1. PageShape /\ Served /\ HeldOpen
  BY DEF PInv
<1>2. /\ request = "run" /\ Session
      /\ CASE session' = "finish" -> exit_written
           [] session' = "stopped" -> dropped
           [] OTHER -> UNCHANGED <<holders, refs, last>>
      /\ UNCHANGED <<request, neighbour, others>>
  BY DEF OwnSession
<1>3. ~Over /\ program' = program
  BY <1>2 DEF Session, Connect, ConnectFails, wait_reply, do_read, do_error, do_error_full,
              ReadFor, Over
<1>4. Base' = Base
  BY <1>3 DEF Base
<1>5. refs = others + 1 + Base /\ others \in Nat /\ Base \in 0..1 /\ refs > Base
  <2>1. refs = others + One(~Over) + Base
    BY <1>1, <1>2 DEF Served
  <2>. QED
    BY <1>3, <2>1, PageNumbers
<1>6. CASE session' \in {"finish", "stopped"}
  <2>1. exit_written \/ dropped
    BY <1>2, <1>6
  <2>2. /\ refs' = refs - 1 /\ last' \in {"none", "finish", "stopped"}
        /\ holders' \subseteq {"server", "program", "neighbour"}
        /\ refs' > Base => (IF program = "cgi" THEN "server" ELSE "program") \in holders'
    BY <1>2, <1>5, <2>1, EndInv
  <2>3. One(~Over)' = 0
    BY <1>6 DEF Over, One
  <2>4. refs' = others' + One(~Over)' + Base'
    BY <1>2, <1>4, <1>5, <2>2, <2>3
  <2>. QED
    BY <1>1, <1>2, <1>3, <1>4, <2>2, <2>4 DEF PInv, PageShape, Served, HeldOpen
<1>7. CASE session' \notin {"finish", "stopped"}
  <2>1. UNCHANGED <<holders, refs, last>>
    BY <1>2, <1>7
  <2>2. One(~Over)' = 1
    BY <1>7 DEF Over, One
  <2>3. refs' = others' + One(~Over)' + Base'
    BY <1>2, <1>4, <1>5, <2>1, <2>2
  <2>. QED
    BY <1>1, <1>2, <1>3, <1>4, <2>1, <2>3 DEF PInv, PageShape, Served, HeldOpen
<1>. QED
  BY <1>6, <1>7

LEMMA OfOthersInv ==
    ASSUME PInv, OfOthers \/ RunReturns
    PROVE  PInv'
<1>1. PageShape /\ Served /\ HeldOpen
  BY DEF PInv
<1>2. UNCHANGED <<program, session, request>>
  BY DEF OfOthers, RunReturns, OtherRequest, OtherProgramEnds, OtherSession, vars
<1>3. Base' = Base /\ One(~Over)' = One(~Over)
  BY <1>2 DEF Base, Over
<1>4. CASE OtherRequest \/ OtherProgramEnds
  <2>1. /\ UNCHANGED <<others, refs, last>> /\ neighbour' \in {"none", "run", "ended"}
        /\ holders' \subseteq {"server", "program", "neighbour"}
        /\ \A h \in {"server", "program"} : h \in holders => h \in holders'
    BY <1>1, <1>4 DEF PageShape, OtherRequest, OtherProgramEnds
  <2>. QED
    BY <1>1, <1>2, <1>3, <2>1 DEF PInv, PageShape, Served, HeldOpen
<1>5. CASE OtherSession
  <2>1. /\ request = "run" /\ others > 0 /\ others' = others - 1 /\ neighbour' = neighbour
        /\ (exit_written \/ dropped)
    BY <1>5 DEF OtherSession
  <2>2. refs = others + One(~Over) + Base
    BY <1>1, <2>1 DEF Served
  <2>3. refs > Base
    BY <2>1, <2>2, PageNumbers
  <2>4. /\ refs' = refs - 1 /\ last' \in {"none", "finish", "stopped"}
        /\ holders' \subseteq {"server", "program", "neighbour"}
        /\ refs' > Base => (IF program = "cgi" THEN "server" ELSE "program") \in holders'
    BY <2>1, <2>3, EndInv
  <2>5. others' \in 0..MaxOthers
    BY <2>1, PageNumbers
  <2>6. refs' = others' + One(~Over) + Base
    BY <2>1, <2>2, <2>4, PageNumbers
  <2>. QED
    BY <1>1, <1>2, <1>3, <2>1, <2>4, <2>5, <2>6 DEF PInv, PageShape, Served, HeldOpen
<1>6. CASE RunReturns
  <2>1. /\ request = "run" /\ refs = 0 /\ UNCHANGED <<neighbour, others, refs, last>>
        /\ holders' \subseteq holders
    BY <1>6 DEF RunReturns
  <2>2. ~(refs > Base)
    BY <2>1, PageNumbers
  <2>. QED
    BY <1>1, <1>2, <1>3, <2>1, <2>2 DEF PInv, PageShape, Served, HeldOpen
<1>. QED
  BY <1>4, <1>5, <1>6 DEF OfOthers

LEMMA PageStutters ==
    ASSUME PInv, UNCHANGED pageVars, UNCHANGED <<program, session>>
    PROVE  PInv'
<1>1. UNCHANGED <<request, holders, neighbour, others, refs, last>>
  BY DEF pageVars
<1>2. Base' = Base /\ One(~Over)' = One(~Over)
  BY DEF Base, Over
<1>. QED
  BY <1>1, <1>2 DEF PInv, PageShape, Served, HeldOpen

LEMMA PageNextInv == CInv /\ PInv /\ [Next]_<<vars, pageVars>> => CInv' /\ PInv'
<1>. SUFFICES ASSUME CInv, PInv, [Next]_<<vars, pageVars>> PROVE CInv' /\ PInv'
  OBVIOUS
<1>1. CASE Request
  <2>1. UNCHANGED vars
    BY <1>1 DEF Request, do_accept, wait_http_request, accept_http_request, accept_console_cgi
  <2>. QED
    BY <1>1, <2>1, RequestInv, ConsoleStutters
<1>2. CASE OwnSession
  <2>1. CInv'
    BY <1>2, SessionInv DEF OwnSession
  <2>2. TypeOK'
    BY <2>1 DEF CInv
  <2>. QED
    BY <1>2, <2>1, <2>2, OwnSessionInv
<1>3. CASE OfOthers \/ RunReturns
  <2>1. UNCHANGED vars
    BY <1>3 DEF OfOthers, OtherRequest, OtherProgramEnds, OtherSession, RunReturns
  <2>. QED
    BY <1>3, <2>1, OfOthersInv, ConsoleStutters
<1>4. CASE ShellSide /\ UNCHANGED pageVars
  <2>1. CInv'
    BY <1>4, PromptInv, RecvInv, SpeakInv DEF ShellSide
  <2>2. UNCHANGED <<program, session>>
    BY <1>4 DEF ShellSide, Prompt, Recv, Complain, Text, console
  <2>. QED
    BY <1>4, <2>1, <2>2, PageStutters
<1>5. CASE UNCHANGED <<vars, pageVars>>
  <2>1. UNCHANGED vars /\ UNCHANGED pageVars /\ UNCHANGED <<program, session>>
    BY <1>5 DEF vars
  <2>. QED
    BY <2>1, ConsoleStutters, PageStutters
<1>. QED
  BY <1>1, <1>2, <1>3, <1>4, <1>5 DEF Next

LEMMA Inductive == Spec => [](CInv /\ PInv)
<1>1. PageInit => CInv /\ PInv
  BY ConsoleInit, PageInitInv DEF PageInit
<1>. QED
  BY <1>1, PageNextInv, PTL DEF Spec

(* The shapes; for every test file the reading stops at its end, and no more    *)
(* Errors are owed than there are lines.                                        *)
THEOREM PageTypes == Spec => []PageTypeOK
<1>1. CInv /\ PInv => PageTypeOK
  <2>. SUFFICES ASSUME CInv, PInv PROVE PageTypeOK
    OBVIOUS
  <2>1. refs \in 0..(MaxOthers + 2)
    BY PageNumbers
  <2>. QED
    BY <2>1 DEF CInv, PInv, PageShape, PageTypeOK
<1>. QED
  BY <1>1, Inductive, PTL

(* A session never has more lines on the way to the shell than one and those    *)
(* that do_error sent behind a removetag0, and without one recv loses none,     *)
(* however text, prompts and Errors are mixed and cut by the reads.             *)
THEOREM SessionStaysInStep == Spec => []StaysInStep
<1>1. CInv /\ PInv => StaysInStep
  BY InStepIsRight
<1>. QED
  BY <1>1, Inductive, PTL

(* The connection to the browser is closed by everybody only when every session *)
(* has ended, for any number of sessions: use_count 2 is the last of them.      *)
THEOREM PageIsWhole == Spec => []NothingBehindTheEnd
<1>1. CInv /\ PInv => NothingBehindTheEnd
  <2>. SUFFICES ASSUME PInv, request # "accept", holders = {} PROVE AllOver
    BY DEF NothingBehindTheEnd
  <2>1. request = "run" /\ ~(refs > Base) /\ refs = others + One(~Over) + Base
    BY DEF PInv, PageShape, Served, HeldOpen
  <2>. QED
    BY <2>1, PageNumbers DEF AllOver
<1>. QED
  BY <1>1, Inductive, PTL
-----------------------------------------------------------------------------
(* What a session waits for.  Nothing is sent behind exit, and the shell is     *)
(* there while a session reads.                                                 *)
On(s, x) == \E i \in 1..Len(s) : s[i] = x
ExitIsLast == session \in {"connect", "reply", "read", "error"} => ~On(toShell, "exit")
ShellThere == session \in {"read", "error"} => shell \in {"run", "wait"}

(* The first removetag0 is sent for a prompt, so that nothing is before it.     *)
FirstIsNotLost ==
    Sent <= 1 => /\ "removetag" \notin lost
                 /\ \A i \in 2..Len(toShell) : toShell[i] # "removetag"

(* A prompt or an Error that is waited for is on its way, or will be printed    *)
(* for a line on its way.                                                       *)
PromptComes ==
    session = "read" =>
        shell = "run" \/ On(toConsole, "prompt") \/ (shell = "wait" /\ toShell # <<>>)
ErrorComes ==
    session = "error" =>
        \/ complaints > 0
        \/ On(toConsole, "Error")
        \/ On(toShell, "removetag") /\ shell \in {"run", "wait"}
        \/ "removetag" \in lost /\ Sent >= 2

Answered == ExitIsLast /\ ShellThere /\ FirstIsNotLost
Comes == session = "error" =>
    complaints > 0 \/ On(toConsole, "Error") \/ On(toShell, "removetag") \/ "removetag" \in lost
WInv == Answered /\ PromptComes /\ Comes

LEMMA OnAppend ==
    ASSUME NEW S, NEW s \in Seq(S), NEW e \in S, NEW x
    PROVE  On(Append(s, e), x) <=> On(s, x) \/ e = x
<1> DEFINE t == Append(s, e)
<1>1. Len(s) \in Nat
  BY LenProperties
<1>2. /\ Len(t) = Len(s) + 1 /\ t[Len(s) + 1] = e
      /\ \A i \in 1..Len(s) : t[i] = s[i]
  BY AppendProperties
<1> HIDE DEF t
<1>3. \A i \in 1..(Len(s) + 1) : i \in 1..Len(s) \/ i = Len(s) + 1
  BY <1>1
<1>4. Len(s) + 1 \in 1..(Len(s) + 1) /\ \A i \in 1..Len(s) : i \in 1..(Len(s) + 1)
  BY <1>1
<1>5. On(t, x) <=> On(s, x) \/ e = x
  BY <1>2, <1>3, <1>4 DEF On
<1>. QED
  BY <1>5 DEF t

(* What is on its way is read, or still on its way.                             *)
LEMMA OnRest ==
    ASSUME NEW S, NEW s \in Seq(S), NEW n \in 1..Len(s), NEW x
    PROVE  /\ On(SubSeq(s, n + 1, Len(s)), x) => On(s, x)
           /\ On(s, x) => On(SubSeq(s, n + 1, Len(s)), x) \/ \E i \in 1..n : s[i] = x
           /\ (\A i \in 2..Len(s) : s[i] # x) => ~On(SubSeq(s, n + 1, Len(s)), x)
<1> DEFINE r == SubSeq(s, n + 1, Len(s))
<1>1. Len(s) \in Nat /\ n \in Nat /\ n >= 1 /\ n <= Len(s)
  BY LenProperties
<1>2. Len(r) = Len(s) - n /\ \A j \in 1..(Len(s) - n) : r[j] = s[n + j]
  BY RestIs
<1> HIDE DEF r
<1>3. \A j \in 1..(Len(s) - n) : n + j \in 2..Len(s) /\ n + j \in 1..Len(s)
  BY <1>1
<1>4. ASSUME NEW i \in 1..Len(s), i \notin 1..n
      PROVE  i - n \in 1..(Len(s) - n) /\ n + (i - n) = i
  BY <1>1, <1>4
<1>5. On(r, x) => On(s, x)
  BY <1>2, <1>3 DEF On
<1>6. On(s, x) => On(r, x) \/ \E i \in 1..n : s[i] = x
  <2>. SUFFICES ASSUME NEW i \in 1..Len(s), s[i] = x, i \notin 1..n PROVE On(r, x)
    BY DEF On
  <2>. QED
    BY <1>2, <1>4 DEF On
<1>7. (\A i \in 2..Len(s) : s[i] # x) => ~On(r, x)
  BY <1>2, <1>3 DEF On
<1>. QED
  BY <1>5, <1>6, <1>7 DEF r

LEMMA WaitInit == SessionInit => WInv
<1>. SUFFICES ASSUME SessionInit PROVE WInv
  OBVIOUS
<1>1. session = "connect" /\ toShell = <<>> /\ lost = {}
  BY DEF SessionInit
<1>2. Len(<<>>) = 0
  BY EmptySeq
<1>3. ~On(toShell, "exit") /\ \A i \in 2..Len(toShell) : toShell[i] # "removetag"
  BY <1>1, <1>2 DEF On
<1>. QED
  BY <1>1, <1>3 DEF WInv, Answered, ExitIsLast, ShellThere, FirstIsNotLost, PromptComes, Comes

LEMMA WaitConnect ==
    ASSUME CInv, WInv, Connect \/ ConnectFails \/ wait_reply
    PROVE  WInv'
<1>1. /\ UNCHANGED <<file, pos, toConsole, toShell, complaints, lost>>
      /\ session \in {"connect", "reply"} /\ session' \in {"reply", "read", "stopped"}
      /\ session' = "read" => shell' = "run"
  BY DEF Connect, ConnectFails, wait_reply
<1>2. Sent' = Sent
  BY <1>1 DEF Sent, Removetags
<1>. QED
  BY <1>1, <1>2 DEF WInv, Answered, ExitIsLast, ShellThere, FirstIsNotLost, PromptComes, Comes

(* A read that has the word sends a line, and one that has not leaves it behind.*)
LEMMA WaitRead ==
    ASSUME CInv, WInv, NEW sizes \in SUBSET Some, NEW waiting, NEW word,
           ReadFor(waiting, word, sizes),
           (waiting = "read" /\ word = "prompt") \/ (waiting = "error" /\ word = "Error")
    PROVE  WInv'
<1>1. TypeOK /\ InStep
  BY DEF CInv
<1>2. /\ ExitIsLast /\ ShellThere /\ FirstIsNotLost /\ PromptComes /\ Comes
  BY DEF WInv, Answered
<1>3. PICK n \in sizes :
        /\ toConsole' = Rest(n)
        /\ IF word \in Received(n) THEN do_write ELSE UNCHANGED <<session, toShell, pos>>
  BY DEF ReadFor
<1>4. session = waiting /\ UNCHANGED <<file, program, shell, complaints, lost>>
  BY DEF ReadFor
<1>5. toConsole \in Seq(Pieces) /\ n \in 1..Len(toConsole) /\ toShell \in Seq(Lines)
  BY <1>1 DEF TypeOK, Some
<1>6. session \in {"read", "error"} /\ shell \in {"run", "wait"} /\ ~On(toShell, "exit")
  BY <1>2, <1>4 DEF ExitIsLast, ShellThere
<1>7. CASE word \in Received(n)
  <2>1. /\ Sent' = Sent + One(NextLine = "removetag")
        /\ session' \in {"read", "error", "finish"}
        /\ session' = "error" <=> NextLine = "removetag"
        /\ toShell' \in Seq(Lines) /\ Len(toShell') = Len(toShell) + 1
    BY <1>1, <1>3, <1>4, <1>7, WriteDoes
  <2>2. /\ toShell' = Append(toShell, NextLine) /\ session' = AfterWrite(NextLine)
    BY <1>3, <1>7 DEF do_write
  <2>3. NextLine \in Lines
    <3>1. /\ pos \in Nat /\ pos >= 1 /\ \A i \in 1..Len(file) : file[i] \in Lines
      BY <1>1, FileIs
    <3>. QED
      BY <3>1, FileIs, <1>1 DEF NextLine, Lines
  <2>4. session' # "finish" => NextLine # "exit"
    BY <2>2 DEF AfterWrite
  <2>5. /\ On(toShell', "exit") <=> On(toShell, "exit") \/ NextLine = "exit"
        /\ On(toShell', "removetag") <=> On(toShell, "removetag") \/ NextLine = "removetag"
    BY <1>5, <2>2, <2>3, OnAppend
  <2>6. ExitIsLast' /\ ShellThere'
    BY <1>4, <1>6, <2>1, <2>4, <2>5 DEF ExitIsLast, ShellThere
  <2>7. Comes'
    BY <2>1, <2>5 DEF Comes
  <2>8. PromptComes'
    <3>1. toShell' # <<>>
      BY <1>1, <2>1, Numbers, EmptySeq
    <3>. QED
      BY <1>4, <1>6, <3>1 DEF PromptComes
  <2>9. FirstIsNotLost'
    <3>. SUFFICES ASSUME Sent' <= 1
                  PROVE  /\ "removetag" \notin lost
                         /\ \A i \in 2..Len(toShell') : toShell'[i] # "removetag"
      BY <1>4 DEF FirstIsNotLost
    <3>1. /\ Sent \in Nat /\ Len(toShell) \in Nat /\ Count(toConsole, "prompt") \in Nat
      BY <1>1, Numbers
    <3>2. One(NextLine = "removetag") \in 0..1
      BY DEF One
    <3>3. Sent <= 1
      BY <2>1, <3>1, <3>2
    <3>4. "removetag" \notin lost /\ \A i \in 2..Len(toShell) : toShell[i] # "removetag"
      BY <1>2, <3>3 DEF FirstIsNotLost
    <3>5. /\ toShell'[Len(toShell) + 1] = NextLine
          /\ \A i \in 1..Len(toShell) : toShell'[i] = toShell[i]
      BY <1>5, <2>2, <2>3, AppendProperties
    <3>6. CASE NextLine # "removetag"
      <4>1. \A i \in 2..(Len(toShell) + 1) : i \in 2..Len(toShell) \/ i = Len(toShell) + 1
        BY <3>1
      <4>2. \A i \in 2..Len(toShell) : i \in 1..Len(toShell)
        OBVIOUS
      <4>. QED
        BY <2>1, <3>4, <3>5, <3>6, <4>1, <4>2
    <3>7. CASE NextLine = "removetag"
      <4>1. Sent = 0
        BY <2>1, <3>1, <3>7 DEF One
      <4>2. One(session = "error") \in 0..1 /\ One(shell \in {"absent", "proxy", "run"}) \in 0..1
        BY DEF One
      <4>3. Count(toConsole, "prompt") + Len(toShell) + One(session = "error") <= 1
        BY <1>1, <3>1, <4>1, <4>2 DEF InStep
      <4>4. Count(toConsole, "prompt") >= 1 \/ One(session = "error") = 1
        <5>1. CASE waiting = "error"
          BY <1>4, <5>1 DEF One
        <5>2. CASE word = "prompt"
          <6>1. \E i \in 1..n : toConsole[i] = "prompt"
            BY <1>7, <5>2 DEF Received
          <6>2. Count(Rest(n), "prompt") + 1 <= Count(toConsole, "prompt")
            BY <1>5, <6>1, CountRest DEF Rest
          <6>3. Count(Rest(n), "prompt") \in Nat
            BY <1>5, CountRest, CountIs DEF Rest
          <6>. QED
            BY <3>1, <6>2, <6>3
        <5>. QED
          BY <5>1, <5>2
      <4>5. Len(toShell) = 0
        BY <3>1, <4>2, <4>3, <4>4
      <4>6. 2..Len(toShell') = {}
        BY <2>1, <4>5
      <4>. QED
        BY <3>4, <4>6
    <3>. QED
      BY <3>6, <3>7
  <2>. QED
    BY <2>6, <2>7, <2>8, <2>9 DEF WInv, Answered
<1>8. CASE word \notin Received(n)
  <2>1. UNCHANGED <<session, toShell, pos, file, shell, complaints, lost>>
    BY <1>3, <1>4, <1>8
  <2>2. Sent' = Sent
    BY <2>1 DEF Sent, Removetags
  <2>3. On(toConsole, word) => On(toConsole', word)
    <3>1. ~\E i \in 1..n : toConsole[i] = word
      BY <1>8 DEF Received
    <3>. QED
      BY <1>3, <1>5, <3>1, OnRest DEF Rest
  <2>4. ExitIsLast' /\ ShellThere' /\ FirstIsNotLost'
    BY <1>2, <2>1, <2>2 DEF ExitIsLast, ShellThere, FirstIsNotLost
  <2>5. PromptComes' /\ Comes'
    BY <1>2, <1>4, <2>1, <2>3 DEF PromptComes, Comes
  <2>. QED
    BY <2>4, <2>5 DEF WInv, Answered
<1>. QED
  BY <1>7, <1>8

LEMMA WaitSession ==
    ASSUME CInv, WInv, Session
    PROVE  WInv'
<1>1. CASE Connect \/ ConnectFails \/ wait_reply
  BY <1>1, WaitConnect
<1>2. CASE do_read
  BY <1>2, WaitRead DEF do_read
<1>3. CASE do_error
  BY <1>3, WaitRead DEF do_error
<1>4. CASE do_error_full
  <2>1. Some \cap {Buffer} \in SUBSET Some
    OBVIOUS
  <2>. QED
    BY <1>4, <2>1, WaitRead DEF do_error_full
<1>. QED
  BY <1>1, <1>2, <1>3, <1>4 DEF Session

(* What the shell and its commands print is behind what is on its way.          *)
LEMMA WaitSpeak ==
    ASSUME CInv, WInv, Prompt \/ Text \/ Complain
    PROVE  WInv'
<1>1. ExitIsLast /\ ShellThere /\ FirstIsNotLost /\ PromptComes /\ Comes
  BY DEF WInv, Answered
<1>2. UNCHANGED <<file, pos, session, toShell, lost>>
  BY DEF Prompt, Text, Complain, console
<1>3. Sent' = Sent
  BY <1>2 DEF Sent, Removetags
<1>4. toConsole \in Seq(Pieces)
  BY DEF CInv, TypeOK
<1>5. \/ toConsole' = Append(toConsole, "prompt") /\ shell' = "wait" /\ complaints' = complaints
      \/ toConsole' = Append(toConsole, "text") /\ shell' = shell /\ complaints' = complaints
      \/ toConsole' = Append(toConsole, "Error") /\ shell' = shell
  BY DEF Prompt, Text, Complain
<1>6. /\ On(toConsole, "prompt") => On(toConsole', "prompt")
      /\ On(toConsole, "Error") => On(toConsole', "Error")
      /\ shell' = shell \/ On(toConsole', "prompt")
      /\ complaints' = complaints \/ On(toConsole', "Error")
  <2>1. PICK e \in Pieces : /\ toConsole' = Append(toConsole, e)
                            /\ shell' = shell \/ e = "prompt"
                            /\ complaints' = complaints \/ e = "Error"
    BY <1>5 DEF Pieces
  <2>2. /\ On(toConsole', "prompt") <=> On(toConsole, "prompt") \/ e = "prompt"
        /\ On(toConsole', "Error") <=> On(toConsole, "Error") \/ e = "Error"
    BY <1>4, <2>1, OnAppend
  <2>. QED
    BY <2>1, <2>2
<1>7. shell' \in {shell, "wait"}
  BY <1>5
<1>8. ExitIsLast' /\ ShellThere' /\ FirstIsNotLost'
  BY <1>1, <1>2, <1>3, <1>7 DEF ExitIsLast, ShellThere, FirstIsNotLost
<1>9. PromptComes'
  BY <1>1, <1>2, <1>6 DEF PromptComes
<1>10. Comes'
  BY <1>1, <1>2, <1>6 DEF Comes
<1>. QED
  BY <1>8, <1>9, <1>10 DEF WInv, Answered

(* A recv takes a removetag0 for one, or throws it away.                        *)
LEMMA WaitRecv ==
    ASSUME CInv, WInv, Recv
    PROVE  WInv'
<1>1. ExitIsLast /\ ShellThere /\ FirstIsNotLost /\ PromptComes /\ Comes
  BY DEF WInv, Answered
<1>2. PICK n \in 1..Len(toShell) :
        /\ toShell' = SubSeq(toShell, n + 1, Len(toShell))
        /\ lost' = lost \cup {toShell[i] : i \in 2..n}
  BY DEF Recv
<1>3. /\ shell = "wait" /\ UNCHANGED <<file, pos, session>>
      /\ shell' = IF Head(toShell) = "exit" THEN "gone" ELSE "run"
      /\ complaints' = complaints + (IF Head(toShell) = "removetag" THEN 1 ELSE 0)
      /\ toConsole' = IF Head(toShell) = "complain" THEN Append(toConsole, "Error") ELSE toConsole
  BY DEF Recv, console
<1>4. /\ toShell \in Seq(Lines) /\ Len(toShell) \in Nat /\ n \in Nat /\ n >= 1 /\ n <= Len(toShell)
      /\ toConsole \in Seq(Pieces) /\ complaints \in Nat
  BY Numbers DEF CInv
<1>5. Head(toShell) = toShell[1] /\ 1 \in 1..Len(toShell)
  BY <1>4
<1>6. Sent' = Sent
  BY <1>3 DEF Sent, Removetags
<1>7. /\ On(toShell', "exit") => On(toShell, "exit")
      /\ On(toShell, "removetag") => On(toShell', "removetag") \/ \E i \in 1..n : toShell[i] = "removetag"
      /\ (\A i \in 2..Len(toShell) : toShell[i] # "removetag") => ~On(toShell', "removetag")
  BY <1>2, <1>4, OnRest
<1>8. ExitIsLast'
  BY <1>1, <1>3, <1>7 DEF ExitIsLast
<1>9. session \in {"read", "error"} => shell' = "run"
  <2>1. session \in {"read", "error"} => toShell[1] # "exit"
    BY <1>1, <1>5 DEF ExitIsLast, On
  <2>. QED
    BY <1>3, <1>5, <2>1
<1>10. ShellThere' /\ PromptComes'
  BY <1>3, <1>9 DEF ShellThere, PromptComes
<1>11. FirstIsNotLost'
  <2>. SUFFICES ASSUME Sent <= 1
                PROVE  /\ "removetag" \notin lost'
                       /\ \A i \in 2..Len(toShell') : toShell'[i] # "removetag"
    BY <1>6 DEF FirstIsNotLost
  <2>1. "removetag" \notin lost /\ \A i \in 2..Len(toShell) : toShell[i] # "removetag"
    BY <1>1 DEF FirstIsNotLost
  <2>2. \A i \in 2..n : i \in 2..Len(toShell)
    BY <1>4
  <2>3. "removetag" \notin lost'
    BY <1>2, <2>1, <2>2
  <2>4. \A i \in 2..Len(toShell') : i \in 1..Len(toShell')
    OBVIOUS
  <2>. QED
    BY <1>7, <2>1, <2>3, <2>4 DEF On
<1>12. Comes'
  <2>. SUFFICES ASSUME session = "error"
                PROVE  \/ complaints' > 0 \/ On(toConsole', "Error")
                       \/ On(toShell', "removetag") \/ "removetag" \in lost'
    BY <1>3 DEF Comes
  <2>1. complaints' >= complaints /\ complaints' \in Nat
    BY <1>3, <1>4
  <2>2. On(toConsole, "Error") => On(toConsole', "Error")
    <3>1. "Error" \in Pieces
      BY DEF Pieces
    <3>. QED
      BY <1>3, <1>4, <3>1, OnAppend
  <2>3. CASE complaints > 0
    BY <1>4, <2>1, <2>3
  <2>4. CASE On(toConsole, "Error") \/ "removetag" \in lost
    BY <1>2, <2>2, <2>4
  <2>5. CASE On(toShell, "removetag")
    <3>1. CASE toShell[1] = "removetag"
      BY <1>3, <1>4, <1>5, <3>1
    <3>2. ASSUME NEW i \in 1..n, toShell[i] = "removetag", toShell[1] # "removetag"
          PROVE  "removetag" \in lost'
      <4>1. i \in 2..n
        BY <1>4, <3>2
      <4>. QED
        BY <1>2, <3>2, <4>1
    <3>. QED
      BY <1>7, <2>5, <3>1, <3>2
  <2>. QED
    BY <1>1, <2>3, <2>4, <2>5 DEF Comes
<1>. QED
  BY <1>8, <1>10, <1>11, <1>12 DEF WInv, Answered

LEMMA WaitNext == CInv /\ WInv /\ [Next]_<<vars, pageVars>> => WInv'
<1>. SUFFICES ASSUME CInv, WInv, [Next]_<<vars, pageVars>> PROVE WInv'
  OBVIOUS
<1>1. CASE UNCHANGED vars
  <2>1. UNCHANGED <<file, pos, session, toConsole, toShell, shell, complaints, lost>>
    BY <1>1 DEF vars
  <2>2. Sent' = Sent
    BY <2>1 DEF Sent, Removetags
  <2>. QED
    BY <2>1, <2>2 DEF WInv, Answered, ExitIsLast, ShellThere, FirstIsNotLost, PromptComes, Comes
<1>2. CASE OwnSession
  BY <1>2, WaitSession DEF OwnSession
<1>3. CASE ShellSide
  BY <1>3, WaitSpeak, WaitRecv DEF ShellSide
<1>4. CASE Request \/ OfOthers \/ RunReturns
  BY <1>1, <1>4 DEF Request, do_accept, wait_http_request, accept_http_request,
        accept_console_cgi, OfOthers, OtherRequest, OtherProgramEnds, OtherSession, RunReturns
<1>. QED
  BY <1>1, <1>2, <1>3, <1>4 DEF Next

(* A session waits for something that comes: for a prompt while the shell runs  *)
(* or has a line to run, and for an Error while a removetag0 has yet to run or  *)
(* to print it.  The Error of the first removetag0 of a file always comes: only *)
(* from the second one on can recv have thrown the line away.                   *)
THEOREM WaitsForWhatComes == Spec => [](PromptComes /\ ErrorComes)
<1>1. PageInit => WInv
  BY WaitInit DEF PageInit
<1>2. CInv /\ WInv => PromptComes /\ ErrorComes
  <2>. SUFFICES ASSUME CInv, WInv PROVE ErrorComes
    BY DEF WInv
  <2>1. Sent \in Nat
    BY Numbers DEF CInv
  <2>. QED
    BY <2>1 DEF WInv, Answered, Comes, ErrorComes, ShellThere, FirstIsNotLost
<1>. QED
  BY <1>1, <1>2, Inductive, WaitNext, PTL DEF Spec
===============================================================================

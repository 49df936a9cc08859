--------------------------- MODULE ResultFileProofs ---------------------------
(***************************************************************************)
(* Proofs about ResultFile, for every phase table, every set of options    *)
(* and every set of configurations.                                        *)
(*                                                                         *)
(* The argument.  No pair stands in the file twice, because phase names    *)
(* differ and the loop passes a phase once; so the exclusive or of the     *)
(* pairs is their union, whatever the order.  The writer's hash is the     *)
(* union over the file, up to the pair (valid, NO) of an invalid run; the  *)
(* verifier's is the union over the lines it has read.                     *)
(***************************************************************************)
EXTENDS ResultFile, RunVerdictProofs, SequenceTheorems

Elems(f)  == {f[k] : k \in 1..Len(f)}
IsFile(f) == f \in Seq(Elems(f))

\* The pairs that the first n lines of f contribute.
Hashed(f, n) == UNION {Contribution(f[k]) : k \in 1..n}

IsHashLine(l) == l.section = "SCORE" /\ l.key = "hash"

NoPairTwice(f) ==
  \A k, m \in 1..Len(f) : k # m => Contribution(f[k]) \cap Contribution(f[m]) = {}

\* The file of a run: two lines at the head, then scores of phases that ran.
Layout ==
  /\ IsFile(result_txt) /\ Len(result_txt) >= 2
  /\ NoPairTwice(result_txt)
  /\ result_txt[2].val = cfg
  /\ \A k \in 1..Len(result_txt) : result_txt[k].key = "config-hash" <=> k = 2
  /\ ~ Done => \A k \in 1..Len(result_txt) :
       /\ result_txt[k].section # "SCORE"
       /\ \A p \in Contribution(result_txt[k]) :
            p[1] = "version" \/ \E j \in ran : p[1] = Phases[j].name

WriterHash ==
  LET H == Hashed(result_txt, Len(result_txt)) IN
  /\ ~ Done => score_hash = H
  /\ Done => /\ score_hash = IF report.valid THEN H ELSE Xor(H, {<<"valid", "NO">>})
             /\ \E k \in 1..Len(result_txt) : IsHashLine(result_txt[k])
             /\ \A k \in 1..Len(result_txt) :
                  IsHashLine(result_txt[k]) => result_txt[k].val = score_hash

VerifierHash ==
  /\ vpc = "idle" => line = 1
  /\ vpc # "idle" => pc \in {"done", "fatal"}
  /\ line \in 1..(Len(result_txt) + 1)
  /\ hash = Hashed(result_txt, line - 1)
  /\ cfg_hash_read = IF line > 2 THEN <<cfg>> ELSE <<>>
  /\ score_hash_read = IF \E k \in 1..(line - 1) : IsHashLine(result_txt[k])
                         THEN <<score_hash>> ELSE <<>>
  /\ Verified => /\ line = Len(result_txt) + 1
                 /\ verdict = [score |-> ScoreVerdict, config |-> cfg_hash_read = <<verify_cfg>>]

FileInv == Layout /\ WriterHash /\ VerifierHash

-------------------------------------------------------------------------------
\* Every sequence of lines is a file.
LEMMA SeqIsFile ==
  ASSUME NEW S, NEW g \in Seq(S)
  PROVE  IsFile(g)
<1>1. Len(g) \in Nat /\ DOMAIN g = 1..Len(g) /\ g = [k \in 1..Len(g) |-> g[k]]
  BY LenProperties
<1> DEFINE n == Len(g)
<1>2. [k \in 1..n |-> g[k]] \in Seq(Elems(g))
  <2>1. \A k \in 1..n : g[k] \in Elems(g)
    BY DEF Elems
  <2> HIDE DEF n
  <2>2. n \in Nat
    BY <1>1 DEF n
  <2> QED
    BY <2>1, <2>2, IsASeq
<1> QED
  BY <1>1, <1>2 DEF IsFile

\* Appending a line to a file.
LEMMA AppendFile ==
  ASSUME NEW f, NEW e, IsFile(f)
  PROVE  /\ Len(f) \in Nat /\ Len(Append(f, e)) = Len(f) + 1
         /\ \A k \in 1..Len(f) : Append(f, e)[k] = f[k]
         /\ Append(f, e)[Len(f) + 1] = e
         /\ IsFile(Append(f, e))
<1> DEFINE S == Elems(f) \cup {e}
<1> DEFINE g == Append(f, e)
<1>1. f \in Seq(S)
  BY SeqMonotonic, S = Elems(f) \cup {e} DEF IsFile
<1>2. e \in S
  OBVIOUS
<1> HIDE DEF S
<1>3. /\ Len(f) \in Nat /\ Len(g) = Len(f) + 1 /\ g \in Seq(S)
      /\ \A k \in 1..Len(f) : g[k] = f[k]
      /\ g[Len(f) + 1] = e
  BY <1>1, <1>2
<1>4. IsFile(g)
  BY <1>3, SeqIsFile
<1> QED
  BY <1>3, <1>4

\* Concatenating two files.
IsConcat(f, h, g) ==
  /\ Len(f) \in Nat /\ Len(h) \in Nat /\ Len(g) = Len(f) + Len(h)
  /\ \A k \in 1..Len(f) : g[k] = f[k]
  /\ \A k \in 1..Len(h) : g[Len(f) + k] = h[k]
  /\ IsFile(g)

LEMMA ConcatFile ==
  ASSUME NEW f, NEW h, IsFile(f), IsFile(h)
  PROVE  IsConcat(f, h, f \o h)
<1> DEFINE S == Elems(f) \cup Elems(h)
<1> DEFINE g == f \o h
<1>1. f \in Seq(S) /\ h \in Seq(S)
  BY SeqMonotonic, S = Elems(f) \cup Elems(h) DEF IsFile
<1> HIDE DEF S
<1>2. /\ Len(f) \in Nat /\ Len(h) \in Nat /\ Len(g) = Len(f) + Len(h) /\ g \in Seq(S)
      /\ \A k \in 1..Len(g) : g[k] = IF k <= Len(f) THEN f[k] ELSE h[k - Len(f)]
  BY <1>1, ConcatProperties
<1>3. IsFile(g)
  BY <1>2, SeqIsFile
<1>4. ASSUME NEW k \in 1..Len(h) PROVE g[Len(f) + k] = h[k]
  <2>1. Len(f) + k \in 1..Len(g) /\ ~ (Len(f) + k <= Len(f)) /\ (Len(f) + k) - Len(f) = k
    BY <1>2
  <2> QED
    BY <1>2, <2>1
<1> QED
  BY <1>2, <1>3, <1>4 DEF IsConcat

\* One more line is read or written.
LEMMA HashedNext ==
  ASSUME NEW f, NEW n \in Nat
  PROVE  Hashed(f, n + 1) = Hashed(f, n) \cup Contribution(f[n + 1])
<1>1. 1..(n + 1) = (1..n) \cup {n + 1}
  OBVIOUS
<1> QED
  BY <1>1 DEF Hashed

\* What is hashed depends on the lines read only.
LEMMA HashedPrefix ==
  ASSUME NEW f, NEW g, NEW n \in Nat, \A k \in 1..n : g[k] = f[k]
  PROVE  Hashed(g, n) = Hashed(f, n)
BY DEF Hashed

LEMMA XorDisjoint ==
  ASSUME NEW A, NEW B, A \cap B = {}
  PROVE  Xor(A, B) = A \cup B
BY DEF Xor

\* Adding a pair always changes a hash.
LEMMA XorChanges ==
  ASSUME NEW A, NEW x
  PROVE  Xor(A, {x}) # A
BY DEF Xor

-------------------------------------------------------------------------------
LEMMA ImplementsRun == FileSpec => Spec
<1>1. FileInit => Init
  BY DEF FileInit
<1>2. [FileNext]_all => [Next]_vars
  BY DEF FileNext, all, vars, WriteNothing, WritePhase, WriteScores, Verify, hash_func,
     Conclude, Next
<1> QED
  BY <1>1, <1>2, PTL DEF FileSpec, Spec

LEMMA InitFileInv == FileInit => FileInv
<1> SUFFICES ASSUME FileInit PROVE FileInv
  OBVIOUS
<1> DEFINE a == Line("run", "version", "VERSION")
<1> DEFINE b == Line("run", "config-hash", cfg)
<1>1. result_txt = <<a, b>> /\ pc = "validate" /\ score_hash = Xor({}, {<<"version", "VERSION">>})
  BY DEF FileInit, WriterInit, Init, u_hash_update_key_val
<1>2. Contribution(a) = {<<"version", "VERSION">>} /\ Contribution(b) = {}
  BY DEF Contribution, Line
<1>3. /\ a.section = "run" /\ b.section = "run" /\ a.key = "version"
      /\ b.key = "config-hash" /\ b.val = cfg
  BY DEF Line
<1> HIDE DEF a, b
<1>4. Len(result_txt) = 2 /\ result_txt[1] = a /\ result_txt[2] = b
  BY <1>1
<1>5. IsFile(result_txt)
  <2>1. Elems(result_txt) = {a, b}
    BY <1>4 DEF Elems
  <2> QED
    BY <1>1, <2>1 DEF IsFile
<1>6. Layout
  BY <1>2, <1>3, <1>4, <1>5 DEF Layout, NoPairTwice
<1>7. WriterHash
  <2>1. Hashed(result_txt, 2) = {<<"version", "VERSION">>}
    <3>1. 1..2 = {1, 2}
      OBVIOUS
    <3> QED
      BY <1>2, <1>4, <3>1 DEF Hashed
  <2> QED
    BY <1>1, <1>4, <2>1 DEF WriterHash, Done, Xor
<1>8. VerifierHash
  <2>1. Hashed(result_txt, 0) = {}
    BY DEF Hashed
  <2> QED
    BY <1>4, <2>1 DEF FileInit, VerifierInit, VerifierHash, Verified
<1> QED
  BY <1>6, <1>7, <1>8 DEF FileInv

-------------------------------------------------------------------------------
\* A step that leaves the files alone.
LEMMA WriteNothingInv == FileInv /\ VerdictInv /\ WriteNothing => FileInv'
<1> SUFFICES ASSUME FileInv, VerdictInv, WriteNothing PROVE FileInv'
  OBVIOUS
<1>1. /\ UNCHANGED <<writer, verifier>> /\ ran' = ran /\ report' = report
      /\ ~ Done /\ ~ Done' /\ pc # "fatal"
  BY DEF WriteNothing, Validate, SkipPhase, RunPhase, Fatal, outputs, Done
<1>2. Layout'
  BY <1>1 DEF FileInv, Layout, writer, NoPairTwice, IsFile, Elems, Contribution
<1>3. WriterHash'
  BY <1>1 DEF FileInv, WriterHash, writer
<1>4. VerifierHash'
  BY <1>1 DEF FileInv, VerifierHash, writer, verifier, Done, Verified, ScoreVerdict
<1> QED
  BY <1>2, <1>3, <1>4 DEF FileInv

\* The line of a phase contributes exactly what the writer hashes.
LEMMA PhaseLine ==
  ASSUME NEW j \in Index, NEW v
  PROVE  LET l == Line(Phases[j].name, "score", v) IN
         /\ l.section # "SCORE" /\ l.key # "config-hash"
         /\ Contribution(l) = IF InScoreHash(Phases[j]) THEN {<<Phases[j].name, v>>} ELSE {}
<1> DEFINE l == Line(Phases[j].name, "score", v)
<1>1. l.section = Phases[j].name /\ l.key = "score" /\ l.val = v
  BY DEF Line
<1>2. Phases[j].name # "SCORE"
  BY NamesAssumption
<1>3. should_hash_phase(Phases[j].name) <=> InScoreHash(Phases[j])
  BY NamesAssumption DEF should_hash_phase, InScoreHash
<1> HIDE DEF l
<1>4. Contribution(l) = IF should_hash_phase(l.section) THEN {<<l.section, l.val>>} ELSE {}
  BY <1>1, <1>2 DEF Contribution
<1> QED
  BY <1>1, <1>2, <1>3, <1>4 DEF l
\* While the run goes on nobody reads the file.
LEMMA NotYetRead ==
  ASSUME FileInv, pc \notin {"done", "fatal"}
  PROVE  /\ vpc = "idle" /\ line = 1 /\ hash = Hashed(result_txt, 0)
         /\ cfg_hash_read = <<>> /\ score_hash_read = <<>> /\ ~ Verified
BY DEF FileInv, VerifierHash, Verified

LEMMA StillNotRead ==
  ASSUME FileInv, pc \notin {"done", "fatal"}, UNCHANGED verifier,
         Len(result_txt') \in Nat
  PROVE  VerifierHash'
<1>1. Hashed(result_txt', 0) = Hashed(result_txt, 0)
  BY DEF Hashed
<1> QED
  BY <1>1, NotYetRead DEF verifier, VerifierHash, Verified

\* The result of a phase: its line and its pair in the hash go together.
LEMMA WritePhaseInv == FileInv /\ VerdictInv /\ WritePhase => FileInv'
<1> SUFFICES ASSUME FileInv, VerdictInv, WritePhase PROVE FileInv'
  OBVIOUS
<1> DEFINE n == Len(result_txt)
<1> DEFINE l == Line(Phases[i].name, "score", local.score)
<1>1. /\ i \in Index /\ i \notin ran /\ ran \subseteq Index /\ ran' = ran \cup {i}
      /\ pc = "judge" /\ pc' = "loop" /\ UNCHANGED <<cfg, verifier, report>>
  BY LengthType DEF VerdictInv, WritePhase, JudgePhase, TypeOK, Index, Progress
<1>2. /\ result_txt' = IF Dummy(Phases[i]) THEN result_txt ELSE Append(result_txt, l)
      /\ score_hash' = IF InScoreHash(Phases[i])
                         THEN Xor(score_hash, {<<Phases[i].name, local.score>>})
                         ELSE score_hash
  BY DEF WritePhase, u_hash_update_key_val
<1>3. /\ l.section # "SCORE" /\ l.key # "config-hash"
      /\ Contribution(l) = IF InScoreHash(Phases[i])
                             THEN {<<Phases[i].name, local.score>>} ELSE {}
  BY <1>1, PhaseLine
<1>4. /\ Layout /\ score_hash = Hashed(result_txt, n) /\ n \in Nat
      /\ \A k \in 1..n : /\ result_txt[k].section # "SCORE"
                         /\ \A p \in Contribution(result_txt[k]) :
                              p[1] = "version" \/ \E j \in ran : p[1] = Phases[j].name
  BY <1>1, LenProperties DEF FileInv, Layout, WriterHash, Done, IsFile
<1> HIDE DEF n, l
<1>5. CASE Dummy(Phases[i])
  <2>1. ~ InScoreHash(Phases[i])
    BY <1>1, <1>5, TableAssumption DEF InScoreHash
  <2>2. Layout'
    <3>1. result_txt' = result_txt /\ cfg' = cfg
      BY <1>1, <1>2, <1>5
    <3>2. \A k \in 1..n : \A p \in Contribution(result_txt[k]) :
            p[1] = "version" \/ \E j \in ran' : p[1] = Phases[j].name
      BY <1>1, <1>4
    <3> QED
      BY <1>4, <3>1, <3>2 DEF Layout, n
  <2>3. WriterHash'
    BY <1>1, <1>2, <1>4, <1>5, <2>1 DEF WriterHash, Done, Hashed, Contribution, n
  <2>4. VerifierHash'
    BY <1>1, <1>2, <1>4, <1>5, StillNotRead DEF n
  <2> QED
    BY <2>2, <2>3, <2>4 DEF FileInv
<1>6. CASE ~ Dummy(Phases[i])
  <2>1. /\ Len(result_txt') = n + 1 /\ IsFile(result_txt')
        /\ \A k \in 1..n : result_txt'[k] = result_txt[k]
        /\ result_txt'[n + 1] = l
    BY <1>2, <1>4, <1>6, AppendFile DEF Layout, n
  <2>2. \A k \in 1..n : Contribution(result_txt[k]) \cap Contribution(l) = {}
    <3>1. \A j \in ran : Phases[j].name # Phases[i].name
      BY <1>1, NamesAssumption
    <3>2. Phases[i].name # "version"
      BY <1>1, NamesAssumption
    <3> QED
      BY <1>3, <1>4, <3>1, <3>2
  <2>3. NoPairTwice(result_txt')
    <3>1. ASSUME NEW k \in 1..(n + 1), NEW m \in 1..(n + 1), k # m
          PROVE  Contribution(result_txt'[k]) \cap Contribution(result_txt'[m]) = {}
      <4>1. CASE k \in 1..n /\ m \in 1..n
        <5>1. Contribution(result_txt[k]) \cap Contribution(result_txt[m]) = {}
          BY <1>4, <3>1, <4>1 DEF Layout, NoPairTwice, n
        <5> QED
          BY <2>1, <4>1, <5>1
      <4>2. CASE k = n + 1
        <5>1. m \in 1..n
          BY <1>4, <3>1, <4>2
        <5> QED
          BY <2>1, <2>2, <4>2, <5>1
      <4>3. CASE m = n + 1
        <5>1. k \in 1..n
          BY <1>4, <3>1, <4>3
        <5> QED
          BY <2>1, <2>2, <4>3, <5>1
      <4> QED
        BY <1>4, <4>1, <4>2, <4>3
    <3> QED
      BY <2>1, <3>1 DEF NoPairTwice
  <2>4. Layout'
    <3>1. \A k \in 1..n : k # n + 1
      BY <1>4
    <3>2. \A k \in 1..Len(result_txt') : k \in 1..n \/ k = n + 1
      BY <1>4, <2>1
    <3>3. \A k \in 1..Len(result_txt') :
            /\ result_txt'[k].section # "SCORE"
            /\ \A p \in Contribution(result_txt'[k]) :
                 p[1] = "version" \/ \E j \in ran' : p[1] = Phases[j].name
      BY <1>1, <1>3, <1>4, <2>1, <3>2
    <3>4. /\ Len(result_txt') >= 2 /\ result_txt'[2].val = cfg'
          /\ \A k \in 1..Len(result_txt') : result_txt'[k].key = "config-hash" <=> k = 2
      BY <1>1, <1>3, <1>4, <2>1, <3>2 DEF Layout, n
    <3> QED
      BY <2>1, <2>3, <3>3, <3>4 DEF Layout, Contribution
  <2>5. WriterHash'
    <3>1. Hashed(result_txt', n + 1) = Hashed(result_txt, n) \cup Contribution(l)
      <4>1. Hashed(result_txt', n) = Hashed(result_txt, n)
        <5> DEFINE g == result_txt'
        <5>1. \A k \in 1..n : g[k] = result_txt[k]
          BY <2>1
        <5> HIDE DEF g
        <5>2. Hashed(g, n) = Hashed(result_txt, n)
          BY <1>4, <5>1, HashedPrefix
        <5> QED
          BY <5>2 DEF g
      <4>2. Hashed(result_txt', n + 1) = Hashed(result_txt', n) \cup Contribution(result_txt'[n + 1])
        BY <1>4, HashedNext
      <4> QED
        BY <2>1, <4>1, <4>2
    <3>2. Hashed(result_txt, n) \cap Contribution(l) = {}
      BY <2>2 DEF Hashed
    <3>3. score_hash' = Hashed(result_txt', n + 1)
      BY <1>2, <1>3, <1>4, <3>1, <3>2, XorDisjoint
    <3> QED
      BY <1>1, <2>1, <3>3 DEF WriterHash, Done, Hashed, Contribution
  <2>6. VerifierHash'
    BY <1>1, <1>4, <2>1, StillNotRead
  <2> QED
    BY <2>4, <2>5, <2>6 DEF FileInv
<1> QED
  BY <1>5, <1>6

LEMMA FourLines ==
  ASSUME NEW a, NEW b, NEW c, NEW d
  PROVE  IsFile(<<a, b, c, d>>)
<1> DEFINE S == {a, b, c, d}
<1>1. a \in S /\ b \in S /\ c \in S /\ d \in S
  OBVIOUS
<1> HIDE DEF S
<1>2. <<a, b, c, d>> \in Seq(S)
  BY <1>1
<1> QED
  BY <1>2, SeqIsFile

\* The four lines of [SCORE]: what they contribute, and the hash in the last.
IsScoreSection(A, factors, h) ==
  /\ IsFile(A) /\ Len(A) = 4
  /\ \A k \in 1..4 : /\ A[k].section = "SCORE" /\ A[k].key # "config-hash"
                     /\ IsHashLine(A[k]) <=> k = 4
  /\ A[4].val = h
  /\ Contribution(A[1]) = {<<"MD", factors["MD"]>>}
  /\ Contribution(A[2]) = {<<"BW", factors["BW"]>>}
  /\ Contribution(A[3]) = {<<"SCORE", factors>>}
  /\ Contribution(A[4]) = {}

\* A line the verifier takes nothing from.
IsQuiet(l) == l.section # "SCORE" /\ l.key # "config-hash" /\ Contribution(l) = {}

IsQuietFile(B) == IsFile(B) /\ Len(B) \in Nat /\ \A k \in 1..Len(B) : IsQuiet(B[k])

LEMMA ScoreLines ==
  ASSUME NEW factors, NEW valid, NEW h
  PROVE  IsScoreSection(ScoreSection("SCORE", factors, valid, h), factors, h)
<1> DEFINE A == ScoreSection("SCORE", factors, valid, h)
<1> DEFINE a == Line("SCORE", "MD", factors["MD"])
<1> DEFINE b == Line("SCORE", "BW", factors["BW"])
<1> DEFINE c == Line("SCORE", "SCORE", [score |-> factors, invalid |-> ~ valid])
<1> DEFINE d == Line("SCORE", "hash", h)
<1>1. A = <<a, b, c, d>>
  BY DEF ScoreSection
<1>2. /\ a.section = "SCORE" /\ a.key = "MD" /\ a.val = factors["MD"]
      /\ b.section = "SCORE" /\ b.key = "BW" /\ b.val = factors["BW"]
      /\ c.section = "SCORE" /\ c.key = "SCORE" /\ c.val.score = factors
      /\ d.section = "SCORE" /\ d.key = "hash" /\ d.val = h
  BY DEF Line
<1> HIDE DEF a, b, c, d
<1>3. Len(A) = 4 /\ A[1] = a /\ A[2] = b /\ A[3] = c /\ A[4] = d
  BY <1>1
<1>5. IsFile(A)
  BY <1>1, FourLines
<1> HIDE DEF A
<1>6. /\ Contribution(a) = {<<"MD", factors["MD"]>>}
      /\ Contribution(b) = {<<"BW", factors["BW"]>>}
      /\ Contribution(c) = {<<"SCORE", factors>>}
      /\ Contribution(d) = {}
  BY <1>2 DEF Contribution
<1>7. 1..4 = {1, 2, 3, 4}
  OBVIOUS
<1>8. /\ \A k \in 1..4 : A[k].section = "SCORE" /\ A[k].key # "config-hash"
      /\ \A k \in 1..4 : IsHashLine(A[k]) <=> k = 4
  BY <1>2, <1>3, <1>7 DEF IsHashLine
<1> QED
  BY <1>2, <1>3, <1>5, <1>6, <1>8 DEF A, IsScoreSection

LEMMA ScoreXLines ==
  ASSUME NEW factors, NEW valid, NEW h
  PROVE  IsQuietFile(ScoreSection("SCOREX", factors, valid, h))
<1> DEFINE B == ScoreSection("SCOREX", factors, valid, h)
<1> DEFINE a == Line("SCOREX", "MD", factors["MD"])
<1> DEFINE b == Line("SCOREX", "BW", factors["BW"])
<1> DEFINE c == Line("SCOREX", "SCORE", [score |-> factors, invalid |-> ~ valid])
<1> DEFINE d == Line("SCOREX", "hash", h)
<1>1. B = <<a, b, c, d>>
  BY DEF ScoreSection
<1>2. /\ a.section = "SCOREX" /\ a.key = "MD"
      /\ b.section = "SCOREX" /\ b.key = "BW"
      /\ c.section = "SCOREX" /\ c.key = "SCORE"
      /\ d.section = "SCOREX" /\ d.key = "hash"
  BY DEF Line
<1> HIDE DEF a, b, c, d
<1>3. Len(B) = 4 /\ B[1] = a /\ B[2] = b /\ B[3] = c /\ B[4] = d
  BY <1>1
<1>5. IsFile(B)
  BY <1>1, FourLines
<1> HIDE DEF B
<1>6. \A l \in {a, b, c, d} : IsQuiet(l)
  BY <1>2 DEF IsQuiet, Contribution
<1>7. \A k \in 1..4 : B[k] \in {a, b, c, d}
  <2>1. 1..4 = {1, 2, 3, 4}
    OBVIOUS
  <2> QED
    BY <1>3, <2>1
<1> QED
  BY <1>3, <1>5, <1>6, <1>7 DEF B, IsQuietFile

LEMMA NoLines == IsQuietFile(<<>>)
<1>1. Len(<<>>) = 0 /\ IsFile(<<>>)
  BY DEF IsFile
<1> QED
  BY <1>1 DEF IsQuietFile

\* A file, a section of four lines, and quiet lines behind them.
IsThreeParts(f, A, w) ==
  /\ Len(f) \in Nat /\ Len(w) \in Nat /\ Len(w) >= Len(f) + 4 /\ IsFile(w)
  /\ \A k \in 1..Len(f) : w[k] = f[k]
  /\ \A k \in 1..4 : w[Len(f) + k] = A[k]
  /\ \A k \in 1..Len(w) : k > Len(f) + 4 => IsQuiet(w[k])

LEMMA ThreeParts ==
  ASSUME NEW f, NEW A, NEW B, IsFile(f), IsFile(A), Len(A) = 4, IsQuietFile(B)
  PROVE  IsThreeParts(f, A, f \o A \o B)
<1> DEFINE n == Len(f)
<1> DEFINE g == f \o A
<1> DEFINE w == g \o B
<1>1. /\ n \in Nat /\ Len(g) = n + 4 /\ IsFile(g)
      /\ \A k \in 1..n : g[k] = f[k]
      /\ \A k \in 1..4 : g[n + k] = A[k]
  <2>1. IsConcat(f, A, f \o A)
    BY ConcatFile
  <2> QED
    BY <2>1 DEF IsConcat
<1>2. IsFile(B) /\ Len(B) \in Nat /\ \A k \in 1..Len(B) : IsQuiet(B[k])
  BY DEF IsQuietFile
<1> HIDE DEF g
<1>3. /\ Len(w) = Len(g) + Len(B) /\ IsFile(w)
      /\ \A k \in 1..Len(g) : w[k] = g[k]
      /\ \A k \in 1..Len(B) : w[Len(g) + k] = B[k]
  <2>1. IsConcat(g, B, g \o B)
    BY <1>1, <1>2, ConcatFile
  <2> QED
    BY <2>1 DEF IsConcat
<1> HIDE DEF n, w
<1>4. ASSUME NEW k \in 1..Len(w), k > n + 4 PROVE IsQuiet(w[k])
  <2> DEFINE m == k - (n + 4)
  <2>1. m \in 1..Len(B) /\ (n + 4) + m = k
    BY <1>1, <1>2, <1>3, <1>4
  <2> HIDE DEF m
  <2>2. w[(n + 4) + m] = B[m]
    BY <1>1, <1>3, <2>1
  <2> QED
    BY <1>2, <2>1, <2>2
<1>5. ASSUME NEW k \in 1..n PROVE w[k] = f[k]
  <2>1. k \in 1..Len(g)
    BY <1>1
  <2> QED
    BY <1>1, <1>3, <2>1
<1>6. ASSUME NEW k \in 1..4 PROVE w[n + k] = A[k]
  <2>1. n + k \in 1..Len(g)
    BY <1>1
  <2> QED
    BY <1>1, <1>3, <2>1
<1>7. Len(w) \in Nat /\ Len(w) >= n + 4
  BY <1>1, <1>2, <1>3
<1> QED
  BY <1>1, <1>3, <1>4, <1>5, <1>6, <1>7 DEF w, g, n, IsThreeParts

\* What the hash of the scores adds to the pairs of the phases.
LEMMA ScoreHashValue ==
  ASSUME NEW H, NEW factors, NEW valid \in BOOLEAN,
         \A p \in H : p[1] \notin {"MD", "BW", "SCORE"}
  PROVE  LET T == ((H \cup {<<"MD", factors["MD"]>>}) \cup {<<"BW", factors["BW"]>>})
                     \cup {<<"SCORE", factors>>}
         IN  ScoreHash(H, factors, valid) = IF valid THEN T ELSE Xor(T, {<<"valid", "NO">>})
<1> DEFINE M == {<<"MD", factors["MD"]>>}
<1> DEFINE B == {<<"BW", factors["BW"]>>}
<1> DEFINE S == {<<"SCORE", factors>>}
<1>1. H \cap M = {} /\ (H \cup M) \cap B = {} /\ ((H \cup M) \cup B) \cap S = {}
  OBVIOUS
<1> HIDE DEF M, B, S
<1>2. /\ Xor(H, M) = H \cup M /\ Xor(H \cup M, B) = (H \cup M) \cup B
      /\ Xor((H \cup M) \cup B, S) = ((H \cup M) \cup B) \cup S
  BY <1>1, XorDisjoint
<1>3. ScoreHash(H, factors, valid) =
        IF valid THEN Xor(Xor(Xor(H, M), B), S)
        ELSE Xor(Xor(Xor(Xor(H, M), B), S), {<<"valid", "NO">>})
  BY DEF ScoreHash, u_hash_update_key_val, M, B, S
<1> QED
  BY <1>2, <1>3 DEF M, B, S

\* The scores: the hash that is printed covers the lines in front of it.
LEMMA WriteScoresInv == FileInv /\ VerdictInv /\ WriteScores => FileInv'
<1> SUFFICES ASSUME FileInv, VerdictInv, WriteScores PROVE FileInv'
  OBVIOUS
<1> DEFINE n == Len(result_txt)
<1> DEFINE factors == calc_score(FALSE)
<1> DEFINE h == score_hash'
<1> DEFINE w == result_txt'
<1> DEFINE A == ScoreSection("SCORE", factors, is_valid_run, h)
<1> DEFINE H == Hashed(result_txt, n)
<1>1. /\ pc = "loop" /\ pc' = "done" /\ UNCHANGED <<cfg, verifier, ran>>
      /\ report'.valid = is_valid_run /\ is_valid_run \in BOOLEAN /\ ran \subseteq Index
  BY DEF WriteScores, WriteReport, VerdictInv, TypeOK
<1>2. h = ScoreHash(score_hash, factors, is_valid_run)
  BY DEF WriteScores
<1>3. /\ n \in Nat /\ n >= 2 /\ score_hash = H /\ NoPairTwice(result_txt)
      /\ result_txt[2].val = cfg
      /\ \A k \in 1..n : result_txt[k].key = "config-hash" <=> k = 2
      /\ \A k \in 1..n : /\ result_txt[k].section # "SCORE"
                         /\ \A p \in Contribution(result_txt[k]) :
                              p[1] = "version" \/ \E j \in ran : p[1] = Phases[j].name
  BY <1>1, LenProperties DEF FileInv, Layout, WriterHash, Done, IsFile
<1>4. \A k \in 1..n : \A p \in Contribution(result_txt[k]) :
        p[1] \notin {"MD", "BW", "SCORE"}
  BY <1>1, <1>3, NamesAssumption
<1>5. /\ Len(w) \in Nat /\ Len(w) >= n + 4 /\ IsFile(w)
      /\ \A k \in 1..n : w[k] = result_txt[k]
      /\ \A k \in 1..4 : w[n + k] = A[k]
      /\ \A k \in 1..Len(w) : k > n + 4 => IsQuiet(w[k])
  <2> DEFINE B == IF opt.mode = "extended"
                    THEN ScoreSection("SCOREX", calc_score(TRUE), is_valid_extended_run,
                                      score_extended_hash')
                    ELSE <<>>
  <2>1. w = result_txt \o A \o B
    BY DEF WriteScores
  <2>2. IsQuietFile(B)
    BY ScoreXLines, NoLines
  <2>3. IsFile(A) /\ Len(A) = 4
    <3>1. IsScoreSection(A, factors, h)
      BY ScoreLines
    <3> QED
      BY <3>1 DEF IsScoreSection
  <2>4. IsFile(result_txt)
    BY DEF FileInv, Layout
  <2> HIDE DEF A, B, w
  <2>5. IsThreeParts(result_txt, A, w)
    BY <2>1, <2>2, <2>3, <2>4, ThreeParts
  <2> QED
    BY <2>5 DEF IsThreeParts
<1>6. IsScoreSection(A, factors, h)
  BY ScoreLines
<1> HIDE DEF n, factors, h, w, A, H
<1>7. /\ w[n + 1] = A[1] /\ w[n + 2] = A[2] /\ w[n + 3] = A[3] /\ w[n + 4] = A[4]
      /\ \A k \in 1..Len(w) : \/ k \in 1..n
                              \/ k = n + 1 \/ k = n + 2 \/ k = n + 3 \/ k = n + 4
                              \/ k > n + 4
  BY <1>3, <1>5
<1>8. /\ Contribution(w[n + 1]) = {<<"MD", factors["MD"]>>}
      /\ Contribution(w[n + 2]) = {<<"BW", factors["BW"]>>}
      /\ Contribution(w[n + 3]) = {<<"SCORE", factors>>}
      /\ Contribution(w[n + 4]) = {}
  BY <1>6, <1>7 DEF IsScoreSection
<1>9. Layout'
  <2>1. NoPairTwice(w)
    <3>1. ASSUME NEW k \in 1..Len(w), NEW m \in 1..Len(w), k # m
          PROVE  Contribution(w[k]) \cap Contribution(w[m]) = {}
      <4>1. CASE k > n + 4 \/ m > n + 4
        BY <1>5, <4>1 DEF IsQuiet
      <4>2. CASE k \in 1..n /\ m \in 1..n
        <5>1. Contribution(result_txt[k]) \cap Contribution(result_txt[m]) = {}
          BY <1>3, <3>1, <4>2 DEF NoPairTwice, n
        <5> QED
          BY <1>5, <4>2, <5>1
      <4>3. CASE k \in 1..n /\ m \in {n + 1, n + 2, n + 3, n + 4}
        <5>1. \A p \in Contribution(w[k]) : p[1] \notin {"MD", "BW", "SCORE"}
          BY <1>4, <1>5, <4>3
        <5> QED
          BY <1>8, <4>3, <5>1
      <4>4. CASE k \in {n + 1, n + 2, n + 3, n + 4} /\ m \in 1..n
        <5>1. \A p \in Contribution(w[m]) : p[1] \notin {"MD", "BW", "SCORE"}
          BY <1>4, <1>5, <4>4
        <5> QED
          BY <1>8, <4>4, <5>1
      <4>5. CASE k \in {n + 1, n + 2, n + 3, n + 4} /\ m \in {n + 1, n + 2, n + 3, n + 4}
        BY <1>8, <3>1, <4>5
      <4> QED
        BY <1>7, <4>1, <4>2, <4>3, <4>4, <4>5
    <3> QED
      BY <3>1 DEF NoPairTwice
  <2>2. \A k \in 1..Len(w) : w[k].key = "config-hash" <=> k = 2
    <3> SUFFICES ASSUME NEW k \in 1..Len(w) PROVE w[k].key = "config-hash" <=> k = 2
      OBVIOUS
    <3>1. CASE k \in 1..n
      BY <1>3, <1>5, <3>1
    <3>2. CASE k \in {n + 1, n + 2, n + 3, n + 4}
      <4>1. w[k].key # "config-hash"
        BY <1>6, <1>7, <3>2 DEF IsScoreSection
      <4> QED
        BY <1>3, <3>2, <4>1
    <3>3. CASE k > n + 4
      BY <1>3, <1>5, <3>3 DEF IsQuiet
    <3> QED
      BY <1>7, <3>1, <3>2, <3>3
  <2>3. Len(w) >= 2 /\ w[2].val = cfg
    BY <1>3, <1>5
  <2> QED
    BY <1>1, <1>5, <2>1, <2>2, <2>3 DEF Layout, Done, w
<1>10. WriterHash'
  <2> DEFINE T == ((H \cup {<<"MD", factors["MD"]>>}) \cup {<<"BW", factors["BW"]>>})
                     \cup {<<"SCORE", factors>>}
  <2>1. h = IF is_valid_run THEN T ELSE Xor(T, {<<"valid", "NO">>})
    <3>1. \A p \in H : p[1] \notin {"MD", "BW", "SCORE"}
      BY <1>4 DEF H, Hashed
    <3> QED
      BY <1>1, <1>2, <1>3, <3>1, ScoreHashValue
  <2>2. Hashed(w, Len(w)) = T
    <3>1. Hashed(w, n) = H
      BY <1>3, <1>5, HashedPrefix DEF H
    <3>2. /\ Hashed(w, n + 1) = Hashed(w, n) \cup Contribution(w[n + 1])
          /\ Hashed(w, n + 2) = Hashed(w, n + 1) \cup Contribution(w[n + 2])
          /\ Hashed(w, n + 3) = Hashed(w, n + 2) \cup Contribution(w[n + 3])
          /\ Hashed(w, n + 4) = Hashed(w, n + 3) \cup Contribution(w[n + 4])
      <4>1. n + 2 = (n + 1) + 1 /\ n + 3 = (n + 2) + 1 /\ n + 4 = (n + 3) + 1
        BY <1>3
      <4>2. n + 1 \in Nat /\ n + 2 \in Nat /\ n + 3 \in Nat
        BY <1>3
      <4> QED
        BY <1>3, <4>1, <4>2, HashedNext
    <3>3. Hashed(w, n + 4) = T
      BY <1>8, <3>1, <3>2
    <3>4. Hashed(w, Len(w)) = Hashed(w, n + 4)
      <4>1. 1..(n + 4) \subseteq 1..Len(w)
        BY <1>3, <1>5
      <4>2. \A k \in 1..Len(w) : k \in 1..(n + 4) \/ Contribution(w[k]) = {}
        <5>1. \A k \in 1..Len(w) : k > n + 4 => Contribution(w[k]) = {}
          BY <1>5 DEF IsQuiet
        <5>2. \A k \in 1..Len(w) : k \in 1..(n + 4) \/ k > n + 4
          BY <1>3, <1>5
        <5> QED
          BY <5>1, <5>2
      <4> QED
        BY <4>1, <4>2 DEF Hashed
    <3> QED
      BY <3>3, <3>4
  <2>3. \A k \in 1..Len(w) : IsHashLine(w[k]) <=> k = n + 4
    <3> SUFFICES ASSUME NEW k \in 1..Len(w) PROVE IsHashLine(w[k]) <=> k = n + 4
      OBVIOUS
    <3>1. CASE k \in 1..n
      BY <1>3, <1>5, <3>1 DEF IsHashLine
    <3>2. CASE k \in {n + 1, n + 2, n + 3, n + 4}
      BY <1>3, <1>6, <1>7, <3>2 DEF IsScoreSection
    <3>3. CASE k > n + 4
      BY <1>3, <1>5, <3>3 DEF IsQuiet, IsHashLine
    <3> QED
      BY <1>7, <3>1, <3>2, <3>3
  <2>4. n + 4 \in 1..Len(w) /\ w[n + 4].val = h
    BY <1>3, <1>5, <1>6, <1>7 DEF IsScoreSection
  <2> HIDE DEF T
  <2> QED
    BY <1>1, <2>1, <2>2, <2>3, <2>4 DEF WriterHash, Done, w, h
<1>11. VerifierHash'
  BY <1>1, <1>5, StillNotRead DEF w
<1> QED
  BY <1>9, <1>10, <1>11 DEF FileInv

-------------------------------------------------------------------------------
LEMMA VerifyInv == FileInv /\ Verify => FileInv'
<1> SUFFICES ASSUME FileInv, Verify PROVE FileInv'
  OBVIOUS
<1>1. /\ UNCHANGED <<vars, writer, line, hash, cfg_hash_read, score_hash_read, verdict>>
      /\ pc \in {"done", "fatal"} /\ vpc' = "reading"
  BY DEF Verify
<1>2. Layout'
  BY <1>1 DEF FileInv, Layout, writer, vars, outputs, Done
<1>3. WriterHash'
  BY <1>1 DEF FileInv, WriterHash, writer, vars, Done
<1>4. VerifierHash'
  BY <1>1 DEF FileInv, VerifierHash, writer, vars, Verified
<1> QED
  BY <1>2, <1>3, <1>4 DEF FileInv

\* The verifier takes in one more line.
LEMMA hash_funcInv == FileInv /\ hash_func => FileInv'
<1> SUFFICES ASSUME FileInv, hash_func PROVE FileInv'
  OBVIOUS
<1> DEFINE l == result_txt[line]
<1>1. /\ UNCHANGED <<vars, writer, vpc, verify_cfg, verdict>>
      /\ vpc = "reading" /\ line' = line + 1 /\ line <= Len(result_txt)
      /\ hash' = Xor(hash, Contribution(l))
      /\ cfg_hash_read' = IF l.key = "config-hash" THEN <<l.val>> ELSE cfg_hash_read
      /\ score_hash_read' = IF IsHashLine(l) THEN <<l.val>> ELSE score_hash_read
  BY DEF hash_func, IsHashLine
<1>2. /\ Layout /\ WriterHash /\ VerifierHash
      /\ Len(result_txt) \in Nat /\ line \in 1..Len(result_txt) /\ line - 1 \in Nat
  BY <1>1, LenProperties DEF FileInv, Layout, VerifierHash, IsFile
<1>3. Layout'
  BY <1>1, <1>2 DEF Layout, writer, vars, outputs, Done
<1>4. WriterHash'
  BY <1>1, <1>2 DEF WriterHash, writer, vars, Done
<1>5. hash' = Hashed(result_txt, line)
  <2>1. hash = Hashed(result_txt, line - 1)
    BY <1>2 DEF VerifierHash
  <2>2. Hashed(result_txt, line - 1) \cap Contribution(l) = {}
    <3>1. \A k \in 1..(line - 1) : k \in 1..Len(result_txt) /\ k # line
      BY <1>2
    <3>2. \A k \in 1..(line - 1) : Contribution(result_txt[k]) \cap Contribution(l) = {}
      BY <1>2, <3>1 DEF Layout, NoPairTwice
    <3> QED
      BY <3>2 DEF Hashed
  <2>3. Hashed(result_txt, (line - 1) + 1) =
          Hashed(result_txt, line - 1) \cup Contribution(result_txt[(line - 1) + 1])
    BY <1>2, HashedNext
  <2>4. (line - 1) + 1 = line
    BY <1>2
  <2> QED
    BY <1>1, <2>1, <2>2, <2>3, <2>4, XorDisjoint
<1>6. cfg_hash_read' = IF line + 1 > 2 THEN <<cfg>> ELSE <<>>
  <2>1. /\ l.key = "config-hash" <=> line = 2
        /\ result_txt[2].val = cfg
        /\ cfg_hash_read = IF line > 2 THEN <<cfg>> ELSE <<>>
    BY <1>2 DEF Layout, VerifierHash
  <2> QED
    BY <1>1, <1>2, <2>1
<1>7. score_hash_read' = IF \E k \in 1..line : IsHashLine(result_txt[k])
                           THEN <<score_hash>> ELSE <<>>
  <2>1. IsHashLine(l) => l.val = score_hash
    <3>1. CASE Done
      BY <1>2, <3>1 DEF WriterHash
    <3>2. CASE ~ Done
      BY <1>2, <3>2 DEF Layout, IsHashLine
    <3> QED
      BY <3>1, <3>2
  <2>2. \A k \in 1..line : k \in 1..(line - 1) \/ k = line
    BY <1>2
  <2>3. \A k \in 1..(line - 1) : k \in 1..line
    BY <1>2
  <2>4. line \in 1..line
    BY <1>2
  <2>5. score_hash_read = IF \E k \in 1..(line - 1) : IsHashLine(result_txt[k])
                            THEN <<score_hash>> ELSE <<>>
    BY <1>2 DEF VerifierHash
  <2> HIDE DEF l
  <2>6. (\E k \in 1..line : IsHashLine(result_txt[k])) <=>
          IsHashLine(l) \/ \E k \in 1..(line - 1) : IsHashLine(result_txt[k])
    BY <2>2, <2>3, <2>4 DEF l
  <2> QED
    BY <1>1, <2>1, <2>5, <2>6
<1>8. VerifierHash'
  <2>1. /\ line' = line + 1 /\ (line + 1) - 1 = line /\ line + 1 \in 1..(Len(result_txt) + 1)
        /\ result_txt' = result_txt /\ score_hash' = score_hash /\ cfg' = cfg /\ pc' = pc
        /\ vpc' = vpc
    BY <1>1, <1>2 DEF writer, vars
  <2>2. ~ Verified' /\ vpc' # "idle" /\ pc' \in {"done", "fatal"}
    BY <1>1, <1>2, <2>1 DEF Verified, VerifierHash
  <2> QED
    BY <1>5, <1>6, <1>7, <2>1, <2>2 DEF VerifierHash
<1> QED
  BY <1>3, <1>4, <1>8 DEF FileInv

LEMMA ConcludeInv == FileInv /\ Conclude => FileInv'
<1> SUFFICES ASSUME FileInv, Conclude PROVE FileInv'
  OBVIOUS
<1>1. /\ UNCHANGED <<vars, writer, line, verify_cfg, hash, cfg_hash_read, score_hash_read>>
      /\ vpc = "reading" /\ vpc' = "ended" /\ line = Len(result_txt) + 1
      /\ verdict' = [score |-> ScoreVerdict, config |-> cfg_hash_read = <<verify_cfg>>]
  BY DEF Conclude
<1>2. Layout'
  BY <1>1 DEF FileInv, Layout, writer, vars, outputs, Done
<1>3. WriterHash'
  BY <1>1 DEF FileInv, WriterHash, writer, vars, Done
<1>4. VerifierHash'
  <2>1. ScoreVerdict' = ScoreVerdict
    BY <1>1 DEF ScoreVerdict
  <2> QED
    BY <1>1, <2>1 DEF FileInv, VerifierHash, writer, vars, Verified
<1> QED
  BY <1>2, <1>3, <1>4 DEF FileInv

LEMMA FileStutter == FileInv /\ UNCHANGED all => FileInv'
<1> SUFFICES ASSUME FileInv, UNCHANGED all PROVE FileInv'
  OBVIOUS
<1>1. UNCHANGED <<vars, writer, verifier>>
  BY DEF all
<1>2. Layout'
  BY <1>1 DEF FileInv, Layout, writer, vars, outputs, Done
<1>3. WriterHash'
  BY <1>1 DEF FileInv, WriterHash, writer, vars, Done
<1>4. VerifierHash'
  <2>1. ScoreVerdict' = ScoreVerdict
    BY <1>1 DEF ScoreVerdict, verifier
  <2> QED
    BY <1>1, <2>1 DEF FileInv, VerifierHash, writer, verifier, vars, Verified
<1> QED
  BY <1>2, <1>3, <1>4 DEF FileInv

LEMMA FileInvariance == FileSpec => [](FileInv /\ VerdictInv)
<1>1. FileSpec => []VerdictInv
  BY ImplementsRun, Invariance, PTL
<1>2. FileInv /\ VerdictInv /\ [FileNext]_all => FileInv'
  BY WriteNothingInv, WritePhaseInv, WriteScoresInv, VerifyInv, hash_funcInv, ConcludeInv,
     FileStutter DEF FileNext
<1> QED
  BY InitFileInv, <1>1, <1>2, PTL DEF FileSpec

-------------------------------------------------------------------------------
\* Of every run that comes to its end: the verifier finds the writer's hash, and
\* tells a valid run from an invalid one and its configuration from others.
THEOREM VerifierAgrees == FileSpec => []VerifierAgreesWithRun
<1>1. FileInv /\ VerdictInv => VerifierAgreesWithRun
  <2> SUFFICES ASSUME FileInv, VerdictInv, Verified, Done
               PROVE  /\ verdict.score = IF report.valid THEN "equal" ELSE "invalid run"
                      /\ verdict.config <=> verify_cfg = cfg
    BY DEF VerifierAgreesWithRun
  <2> DEFINE H == Hashed(result_txt, Len(result_txt))
  <2>1. Len(result_txt) \in Nat /\ Len(result_txt) >= 2
    BY LenProperties DEF FileInv, Layout, IsFile
  <2>2. /\ line - 1 = Len(result_txt) /\ line > 2
        /\ verdict = [score |-> ScoreVerdict, config |-> cfg_hash_read = <<verify_cfg>>]
    BY <2>1 DEF FileInv, VerifierHash
  <2>3. hash = H /\ cfg_hash_read = <<cfg>> /\ score_hash_read = <<score_hash>>
    BY <2>2 DEF FileInv, VerifierHash, WriterHash
  <2>4. score_hash = IF report.valid THEN H ELSE Xor(H, {<<"valid", "NO">>})
    BY DEF FileInv, WriterHash
  <2> HIDE DEF H
  <2>5. Xor(H, {<<"valid", "NO">>}) # H
    BY XorChanges
  <2>6. ScoreVerdict = IF report.valid THEN "equal" ELSE "invalid run"
    BY <2>3, <2>4, <2>5 DEF ScoreVerdict, u_hash_update_key_val
  <2>7. (cfg_hash_read = <<verify_cfg>>) <=> verify_cfg = cfg
    BY <2>3
  <2> QED
    BY <2>2, <2>6, <2>7
<1> QED
  BY FileInvariance, <1>1, PTL

\* Of every run, aborted or not: "[OK]" means that it ended and is valid.
THEOREM OKMeansValid == FileSpec => []OKMeansValidRun
<1>1. FileInv /\ VerdictInv /\ VerifierAgreesWithRun => OKMeansValidRun
  <2> SUFFICES ASSUME FileInv, VerdictInv, VerifierAgreesWithRun, PrintsOK
               PROVE  Done /\ report.valid /\ verify_cfg = cfg
    BY DEF OKMeansValidRun
  <2>1. Verified /\ verdict.score = "equal" /\ verdict.config
    BY DEF PrintsOK
  <2>2. Done
    <3> SUFFICES ASSUME ~ Done PROVE FALSE
      OBVIOUS
    <3>1. /\ line = Len(result_txt) + 1 /\ Len(result_txt) \in Nat
          /\ verdict.score = ScoreVerdict
      BY <2>1, LenProperties DEF FileInv, VerifierHash, Layout, IsFile
    <3>2. \A k \in 1..(line - 1) : ~ IsHashLine(result_txt[k])
      BY <3>1 DEF FileInv, Layout, IsHashLine
    <3>3. score_hash_read = <<>>
      BY <3>2 DEF FileInv, VerifierHash
    <3> QED
      BY <2>1, <3>1, <3>3 DEF ScoreVerdict
  <2> QED
    BY <2>1, <2>2 DEF VerifierAgreesWithRun
<1> QED
  BY FileInvariance, VerifierAgrees, <1>1, PTL

===============================================================================

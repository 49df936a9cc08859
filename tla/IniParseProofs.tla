---------------------------- MODULE IniParseProofs ----------------------------
(***************************************************************************)
(* Proofs about IniParse, for every table of options, every set of texts   *)
(* and whatever the regular expressions accept.                            *)
(*                                                                         *)
(* The argument.  The parser has read the lines in front of the token:     *)
(* they are legal, and its section and values are what the reference says  *)
(* of these lines alone (Read).  A step moves the token over the line it   *)
(* looks at and the newlines behind it, which say nothing, or fails at a   *)
(* line that is not legal (Ended).  The line counter is the number of the  *)
(* latest token (Numbered), and in callback mode the calls are the lines   *)
(* in front of the token that are to be handed over (Handed).  A text that *)
(* was printed from values says those values, which are of the table       *)
(* (ReadBack).                                                             *)
(*                                                                         *)
(* Induction over the lines of a text or the sections of a table is by the *)
(* least number for which a statement fails (Least).                       *)
(***************************************************************************)
EXTENDS IniParse, FiniteSetTheorems, SequenceTheorems, WellFoundedInduction, TLAPS

Options(s) == DOMAIN Sections[s].option

\* The values of a table that has been parsed: those it began with or accepts.
Table(vals) ==
  /\ vals = [s \in DOMAIN Sections |-> [o \in Options(s) |-> vals[s][o]]]
  /\ \A s \in DOMAIN Sections : \A o \in Options(s) :
       LET val == vals[s][o]
           default == Defaults[s][o]
           type == Sections[s].option[o].type
       IN /\ val \in Vals \cup {Null}
          /\ val \in {Null, None} => default = val
          /\ val \notin {Null, None} => Accepts(type, val) /\ Normal(type, val) = val

Complete(vals) ==
  \A s \in DOMAIN Sections : \A o \in Options(s) :
    Sections[s].option[o].mandatory => vals[s][o] # Null

Typed ==
  /\ text \in Seq(Lines)
  /\ callback \in BOOLEAN /\ cut \in BOOLEAN
  /\ token \in 1..(Len(text) + 1) /\ lastsave \in Nat /\ line \in Nat
  /\ section \in 0..Len(Sections)
  /\ Table(values)
  /\ calls \in Seq(Lines)
  /\ outcome \in {"parsing", "ok", "error"}
  /\ outcome = "parsing" /\ token <= Len(text) => text[token] # Newline

Read ==
  ~ callback =>
    /\ cut = FALSE
    /\ \A k \in 1..(token - 1) : Legal(text, k)
    /\ section = SectionOf(text, token - 1)
    /\ \A s \in DOMAIN Sections : \A o \in Options(s) :
         values[s][o] = Value(text, token - 1, s, o)

Ended ==
  /\ outcome = "ok" => token = Len(text) + 1 /\ cut = FALSE
  /\ outcome = "ok" /\ ~ callback =>
       /\ Complete(values)
       /\ \A s \in DOMAIN Sections : \A o \in Options(s) :
            LET type == Sections[s].option[o].type IN
            var[s][o] = IF values[s][o] = Null THEN Unset(type)
                        ELSE Converted(type, values[s][o])
  /\ outcome = "error" => ~ callback /\ IF token <= Len(text) THEN ~ Legal(text, token)
                                        ELSE ~ Complete(values)

Numbered ==
  Len(text) > 0 /\ text[1] # Newline /\ ~ callback =>
    /\ outcome = "parsing" => \/ line = 0 /\ token = 1 /\ lastsave = 2
                              \/ line = lastsave - 1 /\ lastsave <= token
    /\ outcome = "error" /\ token <= Len(text) => line = token

\* The lines that are to be handed over, and those up to line n.
Wanted(t) == {k \in DOMAIN t : \/ t[k].kind = "section"
                               \/ t[k].kind = "assign" /\ t[k].val # None}
WantedUpTo(t, n) == {k \in Wanted(t) : k <= n}

LookedAt == IF cut THEN token ELSE token - 1

Handed ==
  callback =>
    /\ cut => token \in Wanted(text)
    /\ Len(calls) = Cardinality(WantedUpTo(text, LookedAt))
    /\ \A k \in WantedUpTo(text, LookedAt) :
         calls[Cardinality(WantedUpTo(text, k))] = text[k]

ReadBack ==
  first # <<>> => /\ ~ callback
                  /\ Table(first) /\ Complete(first)
                  /\ text = PrintedText(first)

IniInv == Typed /\ Read /\ Ended /\ Numbered /\ Handed /\ ReadBack

-------------------------------------------------------------------------------
\* A set of natural numbers has a least member.
LEMMA Least ==
  ASSUME NEW S, S \subseteq Nat, S # {}
  PROVE  \E m \in S : \A j \in S : m <= j
<1>1. PICK m \in S : \A j \in S : ~ (<<j, m>> \in OpToRel(<, Nat))
  BY NatLessThanWellFounded, WFMin
<1>2. \A j \in S : ~ (j < m)
  BY <1>1 DEF OpToRel
<1> QED
  BY <1>2

\* A set of lines has a last one.
LEMMA LatestFacts ==
  ASSUME NEW n \in Nat, NEW S, S \subseteq 1..n, S # {}
  PROVE  Latest(S) \in S /\ \A j \in S : j <= Latest(S)
<1> DEFINE D == {n - j : j \in S}
<1>1. D \subseteq Nat /\ D # {}
  <2>1. \A j \in S : n - j \in Nat
    OBVIOUS
  <2> QED
    BY <2>1
<1>2. PICK d \in D : \A e \in D : d <= e
  BY <1>1, Least
<1>3. PICK k \in S : d = n - k
  OBVIOUS
<1>4. \A j \in S : j <= k
  <2>1. ASSUME NEW j \in S PROVE j <= k
    <3>1. d <= n - j /\ j \in Nat /\ k \in Nat
      BY <1>2
    <3> QED
      BY <1>3, <3>1
  <2> QED
    BY <2>1
<1> QED
  BY <1>4 DEF Latest

\* strtok_r finds the next line that is not empty, or the end.
LEMMA NextTokenFacts ==
  ASSUME NEW t \in Seq(Lines), NEW k \in 0..Len(t)
  PROVE  /\ NextToken(t, k) \in (k + 1)..(Len(t) + 1)
         /\ NextToken(t, k) <= Len(t) => t[NextToken(t, k)] # Newline
         /\ \A i \in (k + 1)..(NextToken(t, k) - 1) : t[i] = Newline
<1> DEFINE S == {j \in (k + 1)..(Len(t) + 1) : j <= Len(t) => t[j] # Newline}
<1>1. Len(t) \in Nat /\ k \in Nat
  OBVIOUS
<1>2. S \subseteq Nat /\ Len(t) + 1 \in S
  BY <1>1
<1>3. PICK m \in S : \A j \in S : m <= j
  BY <1>2, Least
<1>4. \A i \in (k + 1)..(m - 1) : t[i] = Newline
  <2>1. ASSUME NEW i \in (k + 1)..(m - 1), t[i] # Newline PROVE FALSE
    <3>1. i \in S /\ i < m
      BY <1>1, <2>1
    <3> QED
      BY <1>1, <1>3, <3>1
  <2> QED
    BY <2>1
<1> QED
  BY <1>3, <1>4 DEF NextToken

\* What a line may be.
LEMMA LineFacts ==
  ASSUME NEW l \in Lines
  PROVE  /\ l.kind \in {"section", "assign", "empty", "other", "newline"}
         /\ l.kind = "newline" <=> l = Newline
         /\ l.kind = "section" => l.name \in Names
         /\ l.kind = "assign" => l.name \in Names /\ l.val \in Vals
BY DEF Lines, Empty, Other, Newline

\* What a table of options is.
LEMMA TableFacts ==
  /\ Len(Sections) \in Nat /\ DOMAIN Sections = 1..Len(Sections)
  /\ \A s \in DOMAIN Sections :
       /\ Sections[s].name \in Names
       /\ Len(Sections[s].option) \in Nat /\ Options(s) = 1..Len(Sections[s].option)
       /\ \A o \in Options(s) :
            /\ Sections[s].option[o].name \in Names
            /\ Sections[s].option[o].type \in VarTypes
            /\ Sections[s].option[o].mandatory \in BOOLEAN
            /\ Sections[s].option[o].default \in Vals \cup {Null}
            /\ Defaults[s][o] = Sections[s].option[o].default
<1>1. Len(Sections) \in Nat /\ DOMAIN Sections = 1..Len(Sections)
  BY SectionsAssumption
<1>2. ASSUME NEW s \in DOMAIN Sections
      PROVE  /\ Sections[s].name \in Names
             /\ Sections[s].option \in Seq(Entries)
  <2>1. s \in 1..Len(Sections)
    BY <1>1
  <2>2. Sections[s] \in [name : Names, option : Seq(Entries)]
    BY <2>1, SectionsAssumption, ElementOfSeq
  <2> QED
    BY <2>2
<1>3. ASSUME NEW s \in DOMAIN Sections
      PROVE  Len(Sections[s].option) \in Nat /\ Options(s) = 1..Len(Sections[s].option)
  BY <1>2, LenProperties DEF Options
<1>4. ASSUME NEW s \in DOMAIN Sections, NEW o \in Options(s)
      PROVE  Sections[s].option[o] \in Entries
  BY <1>2, <1>3, ElementOfSeq
<1>5. ASSUME NEW s \in DOMAIN Sections, NEW o \in Options(s)
      PROVE  Defaults[s][o] = Sections[s].option[o].default
  BY DEF Defaults, Options
<1> QED
  BY <1>1, <1>2, <1>3, <1>4, <1>5 DEF Entries

\* The names of sections and of options of a section are told apart.
LEMMA Unambiguous ==
  /\ \A name : \A s, u \in Find(name) : s = u
  /\ \A s \in DOMAIN Sections : \A o, p \in Options(s) :
       Lower[Sections[s].option[o].name] = Lower[Sections[s].option[p].name] => o = p
<1>1. \A s, u \in DOMAIN Sections : Lower[Sections[s].name] = Lower[Sections[u].name] => s = u
  BY TableAssumption
<1>2. \A s \in DOMAIN Sections : \A o, p \in Options(s) :
        Lower[Sections[s].option[o].name] = Lower[Sections[s].option[p].name] => o = p
  BY TableAssumption DEF Options
<1> QED
  BY <1>1, <1>2 DEF Find

-------------------------------------------------------------------------------
\* The reference, line by line: a line that begins no section stays in the one before.
LEMMA SectionSkips ==
  ASSUME NEW t, NEW k \in Nat, NEW m \in Nat, k <= m,
         \A i \in (k + 1)..m : t[i].kind # "section"
  PROVE  SectionOf(t, m) = SectionOf(t, k)
<1> DEFINE heads(n) == {j \in 1..n : t[j].kind = "section"}
           Of(h) == IF h = {} THEN 0
                    ELSE LET found == Find(t[Latest(h)].name)
                         IN IF found = {} THEN 0 ELSE CHOOSE s \in found : TRUE
<1>1. heads(m) = heads(k)
  OBVIOUS
<1>2. SectionOf(t, m) = Of(heads(m)) /\ SectionOf(t, k) = Of(heads(k))
  BY DEF SectionOf
<1> HIDE DEF heads, Of
<1> QED
  BY <1>1, <1>2

\* The line of a section stands in it.
LEMMA SectionBegins ==
  ASSUME NEW t, NEW k \in Nat \ {0}, t[k].kind = "section", NEW s \in Find(t[k].name)
  PROVE  SectionOf(t, k) = s
<1> DEFINE heads == {j \in 1..k : t[j].kind = "section"}
<1>1. k \in heads
  OBVIOUS
<1>2. Latest(heads) \in heads /\ k <= Latest(heads)
  BY <1>1, LatestFacts
<1>3. Latest(heads) = k
  BY <1>2
<1> DEFINE found == Find(t[k].name)
<1>4. (CHOOSE u \in found : TRUE) \in found
  OBVIOUS
<1>5. (CHOOSE u \in found : TRUE) = s
  BY <1>4, Unambiguous
<1> QED
  BY <1>1, <1>3, <1>5 DEF SectionOf

\* Lines that do not set an option leave its value.
LEMMA ValueSkips ==
  ASSUME NEW t, NEW k \in Nat, NEW m \in Nat, k <= m, NEW s, NEW o,
         \A i \in (k + 1)..m : ~ Sets(t, i, s, o)
  PROVE  Value(t, m, s, o) = Value(t, k, s, o)
<1>1. {i \in 1..m : Sets(t, i, s, o)} = {i \in 1..k : Sets(t, i, s, o)}
  OBVIOUS
<1> QED
  BY <1>1 DEF Value

\* A line that sets an option decides its value.
LEMMA ValueSet ==
  ASSUME NEW t, NEW k \in Nat \ {0}, NEW s, NEW o, Sets(t, k, s, o)
  PROVE  Value(t, k, s, o) = Normal(Sections[s].option[o].type, t[k].val)
<1> DEFINE lines == {i \in 1..k : Sets(t, i, s, o)}
<1>1. k \in lines
  OBVIOUS
<1>2. Latest(lines) \in lines /\ k <= Latest(lines)
  BY <1>1, LatestFacts
<1>3. Latest(lines) = k
  BY <1>2
<1> QED
  BY <1>1, <1>3 DEF Value

\* The newlines behind line k say nothing.
LEMMA NewlinesSkip ==
  ASSUME NEW t \in Seq(Lines), NEW k \in 0..Len(t), NEW n, n = NextToken(t, k) - 1
  PROVE  /\ n \in k..Len(t)
         /\ \A i \in (k + 1)..n : Legal(t, i) /\ i \notin Wanted(t)
         /\ SectionOf(t, n) = SectionOf(t, k)
         /\ \A s \in DOMAIN Sections : \A o \in Options(s) : Value(t, n, s, o) = Value(t, k, s, o)
<1>1. n \in k..Len(t) /\ n \in Nat /\ k \in Nat /\ Len(t) \in Nat
  BY NextTokenFacts
<1>2. \A i \in (k + 1)..n : t[i].kind = "newline"
  BY <1>1, NextTokenFacts DEF Newline
<1>3. \A i \in (k + 1)..n : Legal(t, i) /\ i \notin Wanted(t)
  BY <1>2 DEF Legal, Wanted
<1>4. SectionOf(t, n) = SectionOf(t, k)
  BY <1>1, <1>2, SectionSkips
<1>5. ASSUME NEW s, NEW o PROVE Value(t, n, s, o) = Value(t, k, s, o)
  <2>1. \A i \in (k + 1)..n : ~ Sets(t, i, s, o)
    BY <1>2 DEF Sets
  <2> QED
    BY <1>1, <2>1, ValueSkips
<1> QED
  BY <1>1, <1>3, <1>4, <1>5

\* Of no text has anything been read before its first line.
LEMMA NothingRead ==
  ASSUME NEW t
  PROVE  /\ SectionOf(t, 0) = 0
         /\ \A s \in DOMAIN Sections : \A o \in Options(s) : Value(t, 0, s, o) = Defaults[s][o]
<1>1. 1..0 = {}
  OBVIOUS
<1> QED
  BY <1>1 DEF SectionOf, Value

-------------------------------------------------------------------------------
\* The table begins with values of its own.
LEMMA DefaultsTable == Table(Defaults)
<1>1. \A s \in DOMAIN Sections : \A o \in Options(s) :
        Defaults[s][o] = Sections[s].option[o].default /\ Defaults[s][o] \in Vals \cup {Null}
  BY TableFacts
<1>2. \A s \in DOMAIN Sections : \A o \in Options(s) : Defaults[s][o] \notin {Null, None} =>
        /\ Accepts(Sections[s].option[o].type, Defaults[s][o])
        /\ Normal(Sections[s].option[o].type, Defaults[s][o]) = Defaults[s][o]
  BY <1>1, TableAssumption DEF Options
<1>3. Defaults = [s \in DOMAIN Sections |-> [o \in Options(s) |-> Defaults[s][o]]]
  BY DEF Defaults, Options
<1> QED
  BY <1>1, <1>2, <1>3 DEF Table

\* What is stored for a value that is accepted would be accepted, and stored as it is.
LEMMA NormalFacts ==
  ASSUME NEW type \in VarTypes, NEW val \in Vals \ {Null, None}, Accepts(type, val),
         NEW v, v = Normal(type, val)
  PROVE  /\ v \in Vals \ {Null, None}
         /\ Accepts(type, v) /\ Normal(type, v) = v
<1>1. CASE type = "INI_BOOL"
  <2>1. val \in DOMAIN Truth /\ v = Truth[val]
    BY <1>1 DEF Accepts, Normal
  <2>2. v \in {"TRUE", "FALSE"}
    BY <2>1, TruthAssumption
  <2>3. v \in DOMAIN Truth /\ Truth[v] = v
    BY <2>2, TruthAssumption
  <2>4. Accepts(type, v) /\ Normal(type, v) = v
    BY <1>1, <2>3 DEF Accepts, Normal, TypesWithRegex
  <2>5. v \in Vals \ {Null, None}
    BY <2>2, ValsAssumption DEF Null, None
  <2> QED
    BY <2>4, <2>5
<1>2. CASE type # "INI_BOOL"
  BY <1>2 DEF Normal
<1> QED
  BY <1>1, <1>2

\* Option o of section s is given the value v.
Update(vals, s, o, v) == [vals EXCEPT ![s][o] = v]

\* The table with one value more.
LEMMA TableUpdate ==
  ASSUME NEW vals, Table(vals), NEW s \in DOMAIN Sections, NEW o \in Options(s),
         NEW v \in Vals \ {Null, None}, Accepts(Sections[s].option[o].type, v),
         Normal(Sections[s].option[o].type, v) = v,
         NEW new, new = Update(vals, s, o, v)
  PROVE  /\ Table(new)
         /\ \A u \in DOMAIN Sections : \A p \in Options(u) :
              new[u][p] = IF u = s /\ p = o THEN v ELSE vals[u][p]
<1>1. vals = [u \in DOMAIN Sections |-> [p \in Options(u) |-> vals[u][p]]]
  BY DEF Table
<1>2. DOMAIN vals = DOMAIN Sections /\ \A u \in DOMAIN Sections : DOMAIN vals[u] = Options(u)
  BY <1>1
<1>3. \A u \in DOMAIN Sections : new[u] = IF u = s THEN [vals[s] EXCEPT ![o] = v] ELSE vals[u]
  BY <1>2 DEF Update
<1>4. ASSUME NEW u \in DOMAIN Sections, NEW p \in Options(u)
      PROVE  new[u][p] = IF u = s /\ p = o THEN v ELSE vals[u][p]
  BY <1>2, <1>3
<1>5. new = [u \in DOMAIN Sections |-> [p \in Options(u) |-> new[u][p]]]
  <2>1. \A u \in DOMAIN Sections : vals[u] = [p \in Options(u) |-> vals[u][p]]
    BY <1>1
  <2>2. ASSUME NEW u \in DOMAIN Sections PROVE new[u] = [p \in Options(u) |-> new[u][p]]
    <3>1. CASE u = s
      <4>1. new[u] = [vals[s] EXCEPT ![o] = v]
        BY <1>3, <3>1
      <4>2. vals[s] = [p \in Options(s) |-> vals[s][p]]
        BY <2>1
      <4> QED
        BY <3>1, <4>1, <4>2
    <3>2. CASE u # s
      BY <1>3, <2>1, <3>2
    <3> QED
      BY <3>1, <3>2
  <2>3. new = [u \in DOMAIN Sections |-> new[u]]
    BY <1>2 DEF Update
  <2> QED
    BY <2>2, <2>3
<1>6. \A u \in DOMAIN Sections : \A p \in Options(u) :
        /\ new[u][p] \in Vals \cup {Null}
        /\ new[u][p] \in {Null, None} => Defaults[u][p] = new[u][p]
        /\ new[u][p] \notin {Null, None} =>
             /\ Accepts(Sections[u].option[p].type, new[u][p])
             /\ Normal(Sections[u].option[p].type, new[u][p]) = new[u][p]
  BY <1>4 DEF Table
<1> QED
  BY <1>4, <1>5, <1>6 DEF Table

\* Where the loop over the lines of a text begins.
LEMMA BeginFacts ==
  ASSUME NEW t \in Seq(Lines), NEW n, n = NextToken(t, 0)
  PROVE  /\ n \in 1..(Len(t) + 1)
         /\ n <= Len(t) => t[n] # Newline
         /\ \A k \in 1..(n - 1) : Legal(t, k)
         /\ SectionOf(t, n - 1) = 0
         /\ \A s \in DOMAIN Sections : \A o \in Options(s) : Value(t, n - 1, s, o) = Defaults[s][o]
         /\ WantedUpTo(t, n - 1) = {}
         /\ Len(t) > 0 /\ t[1] # Newline => n = 1
<1>1. 0 \in 0..Len(t) /\ Len(t) \in Nat
  OBVIOUS
<1>2. /\ n \in 1..(Len(t) + 1)
      /\ n <= Len(t) => t[n] # Newline
      /\ \A i \in 1..(n - 1) : t[i] = Newline
  BY <1>1, NextTokenFacts
<1>3. /\ \A k \in 1..(n - 1) : Legal(t, k) /\ k \notin Wanted(t)
      /\ SectionOf(t, n - 1) = 0
      /\ \A s \in DOMAIN Sections : \A o \in Options(s) : Value(t, n - 1, s, o) = Defaults[s][o]
  BY <1>1, NewlinesSkip, NothingRead
<1>4. WantedUpTo(t, n - 1) = {}
  BY <1>1, <1>2, <1>3 DEF WantedUpTo, Wanted
<1>5. Len(t) > 0 /\ t[1] # Newline => n = 1
  BY <1>1, <1>2
<1> QED
  BY <1>2, <1>3, <1>4, <1>5

\* The invariant holds when the loop over the lines of the file begins.
LEMMA InitInv == Init => IniInv
<1> SUFFICES ASSUME Init PROVE IniInv
  OBVIOUS
<1> DEFINE n == NextToken(text, 0)
<1>1. /\ text \in Seq(Lines) /\ callback \in BOOLEAN /\ first = <<>>
      /\ token = n /\ lastsave = n + 1 /\ cut = FALSE /\ line = 0 /\ section = 0
      /\ values = Defaults /\ calls = <<>> /\ outcome = "parsing"
  BY TextsAssumption DEF Init, Begin
<1>2. /\ n \in 1..(Len(text) + 1)
      /\ n <= Len(text) => text[n] # Newline
      /\ \A k \in 1..(n - 1) : Legal(text, k)
      /\ SectionOf(text, n - 1) = 0
      /\ \A s \in DOMAIN Sections : \A o \in Options(s) :
           Value(text, n - 1, s, o) = Defaults[s][o]
      /\ WantedUpTo(text, n - 1) = {}
      /\ Len(text) > 0 /\ text[1] # Newline => n = 1
  BY <1>1, BeginFacts
<1> HIDE DEF n
<1>3. Typed
  <2>1. Table(values) /\ calls \in Seq(Lines)
    BY <1>1, DefaultsTable, EmptySeq
  <2>2. lastsave \in Nat /\ section \in 0..Len(Sections) /\ token \in 1..(Len(text) + 1)
    BY <1>1, <1>2, TableFacts
  <2> QED
    BY <1>1, <1>2, <2>1, <2>2 DEF Typed
<1>4. Read
  BY <1>1, <1>2 DEF Read
<1>5. Ended /\ Numbered /\ ReadBack
  BY <1>1, <1>2 DEF Ended, Numbered, ReadBack
<1>6. Handed
  BY <1>1, <1>2, FS_EmptySet, EmptySeq DEF Handed, LookedAt
<1> QED
  BY <1>3, <1>4, <1>5, <1>6 DEF IniInv

-------------------------------------------------------------------------------
\* The steps that read a line, and those that refuse one.
Moving  == ParseSection \/ ParseNoArgument \/ ParseVariable \/ SkipLine
Refused == UnknownSection \/ OutsideSection \/ UnknownOption \/ WrongType \/ UnexpectedContent

\* Every step is one of these.
LEMMA NextCases ==
  ASSUME [Next]_vars
  PROVE  Moving \/ CallForVariable \/ Refused \/ Finish \/ ParseConfigIni \/ UNCHANGED vars
BY DEF Next, Moving, Refused

\* A step that reads a line goes on to the next.
LEMMA MovingFacts ==
  ASSUME Moving
  PROVE  Parsing /\ Count /\ Advance /\ UNCHANGED <<text, callback, var, first, outcome>>
BY DEF Moving, ParseSection, ParseNoArgument, ParseVariable, SkipLine, Assigns, input

\* The line a step looks at.
LEMMA ParsingFacts ==
  ASSUME Typed, Parsing
  PROVE  /\ token \in 1..Len(text) /\ token - 1 \in Nat /\ Len(text) \in Nat
         /\ Current \in Lines /\ Current = text[token] /\ Current.kind # "newline"
         /\ outcome = "parsing"
<1>1. token \in 1..Len(text) /\ Len(text) \in Nat /\ text[token] # Newline
  BY DEF Typed, Parsing
<1>2. text[token] \in Lines
  BY <1>1, ElementOfSeq DEF Typed
<1> QED
  BY <1>1, <1>2, LineFacts DEF Current, Parsing

\* In the table the line at the token says what the parser finds there.
LEMMA SetsFacts ==
  ASSUME Typed, Read, Parsing, ~ callback, Current.kind # "section",
         NEW s \in DOMAIN Sections, NEW o \in Options(s)
  PROVE  Sets(text, token, s, o) <=>
           /\ Current.kind = "assign" /\ Current.val # None
           /\ section = s
           /\ o \in OptionsNamed(Current.name)
           /\ Accepts(Sections[s].option[o].type, Current.val)
<1>1. /\ token - 1 \in Nat /\ token \in Nat /\ Current = text[token]
      /\ section = SectionOf(text, token - 1)
  BY ParsingFacts DEF Read
<1>2. SectionOf(text, token) = SectionOf(text, token - 1)
  BY <1>1, SectionSkips
<1> QED
  BY <1>1, <1>2 DEF Sets, OptionsNamed, Options

\* A line that is refused says nothing.
LEMMA RefusedFacts ==
  ASSUME Typed, Read, Refused
  PROVE  /\ Parsing /\ ~ callback /\ Count /\ outcome' = "error"
         /\ UNCHANGED <<text, callback, var, first, token, cut, section, values, calls>>
         /\ ~ Legal(text, token)
<1>1. /\ Parsing /\ ~ callback /\ Count /\ outcome' = "error"
      /\ UNCHANGED <<text, callback, var, first, token, cut, section, values, calls>>
  BY DEF Refused, UnknownSection, OutsideSection, UnknownOption, WrongType, UnexpectedContent,
         Fail, Return, input
<1>2. /\ Kind = Current.kind /\ Current = text[token] /\ section = SectionOf(text, token - 1)
  BY <1>1, ParsingFacts DEF Read, Kind
<1>3. CASE UnknownSection
  BY <1>1, <1>2, <1>3 DEF UnknownSection, Legal
<1>4. CASE UnexpectedContent
  BY <1>1, <1>2, <1>4 DEF UnexpectedContent, Legal
<1>5. CASE OutsideSection \/ UnknownOption \/ WrongType
  <2>1. Current.kind = "assign" /\ Current.val # None
    BY <1>2, <1>5 DEF OutsideSection, UnknownOption, WrongType, Assigns
  <2>2. ASSUME NEW s \in DOMAIN Sections, NEW o \in Options(s), Sets(text, token, s, o)
        PROVE  FALSE
    <3>1. /\ section = s /\ o \in OptionsNamed(Current.name)
          /\ Accepts(Sections[s].option[o].type, Current.val)
      BY <1>1, <2>1, <2>2, SetsFacts
    <3>2. section # 0
      BY <3>1, TableFacts
    <3>3. WrongType
      BY <1>5, <3>1, <3>2 DEF OutsideSection, UnknownOption
    <3>4. PICK p \in OptionsNamed(Current.name) :
            ~ Accepts(Sections[section].option[p].type, Current.val)
      BY <3>3 DEF WrongType
    <3>5. p = o
      BY <3>1, <3>4, Unambiguous DEF OptionsNamed, Options
    <3> QED
      BY <3>1, <3>4, <3>5
  <2> QED
    BY <1>1, <1>2, <2>1, <2>2 DEF Legal, Options
<1> QED
  BY <1>1, <1>3, <1>4, <1>5 DEF Refused

\* What is stored for a line that assigns a value.
LEMMA VariableFacts ==
  ASSUME Typed, ParseVariable
  PROVE  /\ Current.kind = "assign" /\ Current.val # None
         /\ ~ callback /\ section \in DOMAIN Sections
         /\ \E o \in Options(section) :
              LET type == Sections[section].option[o].type IN
              /\ o \in OptionsNamed(Current.name) /\ Accepts(type, Current.val)
              /\ Table(values')
              /\ \A u \in DOMAIN Sections : \A p \in Options(u) :
                   values'[u][p] = IF u = section /\ p = o THEN Normal(type, Current.val)
                                   ELSE values[u][p]
<1>1. /\ Parsing /\ Kind = "assign" /\ Current.val # None /\ ~ callback /\ section # 0
  BY DEF ParseVariable, Assigns
<1>2. Current.kind = "assign" /\ Current \in Lines
  BY <1>1, ParsingFacts DEF Kind
<1>3. section \in DOMAIN Sections
  BY <1>1, TableFacts DEF Typed
<1>4. PICK o \in OptionsNamed(Current.name) :
        LET type == Sections[section].option[o].type IN
        /\ Accepts(type, Current.val)
        /\ values' = [values EXCEPT ![section][o] = Normal(type, Current.val)]
  BY DEF ParseVariable
<1> DEFINE type == Sections[section].option[o].type
           v == Normal(type, Current.val)
<1>5. o \in Options(section) /\ type \in VarTypes
  BY <1>3, <1>4, TableFacts DEF OptionsNamed, Options
<1>6. Current.val \in Vals \ {Null, None}
  BY <1>1, <1>2, LineFacts, ValsAssumption
<1>7. v \in Vals \ {Null, None} /\ Accepts(type, v) /\ Normal(type, v) = v
  BY <1>4, <1>5, <1>6, NormalFacts
<1>8. /\ Table(values')
      /\ \A u \in DOMAIN Sections : \A p \in Options(u) :
           values'[u][p] = IF u = section /\ p = o THEN v ELSE values[u][p]
  <2>1. Table(values) /\ values' = Update(values, section, o, v)
    BY <1>4 DEF Typed, Update
  <2>2. /\ v \in Vals \ {Null, None} /\ Accepts(Sections[section].option[o].type, v)
        /\ Normal(Sections[section].option[o].type, v) = v
    BY <1>7
  <2> HIDE DEF v, type
  <2> QED
    BY <1>3, <1>5, <2>1, <2>2, TableUpdate
<1> QED
  BY <1>1, <1>2, <1>3, <1>4, <1>5, <1>8

-------------------------------------------------------------------------------
\* What u_ini_print_values writes: the recursive function up to section m.
UpTo(vals, m, f) ==
  f = [s \in 0..m |-> IF s = 0 THEN <<>> ELSE f[s - 1] \o Printed(vals, s)]

\* It exists for every m.
LEMMA UpToExists ==
  ASSUME NEW vals
  PROVE  \A m \in Nat : \E f : UpTo(vals, m, f)
<1> DEFINE S == {m \in Nat : ~ \E f : UpTo(vals, m, f)}
<1> SUFFICES ASSUME S # {} PROVE FALSE
  OBVIOUS
<1>1. PICK m \in S : \A j \in S : m <= j
  BY Least
<1>2. m # 0
  <2> DEFINE f == [s \in 0..0 |-> <<>>]
  <2>1. \A s \in 0..0 : s = 0
    OBVIOUS
  <2>2. f = [s \in 0..0 |-> IF s = 0 THEN <<>> ELSE f[s - 1] \o Printed(vals, s)]
    BY <2>1
  <2>3. UpTo(vals, 0, f)
    BY <2>2 DEF UpTo
  <2> QED
    BY <1>1, <2>3
<1>3. m \in Nat /\ m - 1 \in Nat /\ m - 1 \notin S
  BY <1>1, <1>2
<1>4. PICK f : UpTo(vals, m - 1, f)
  BY <1>3
<1> DEFINE g == [s \in 0..m |-> IF s < m THEN f[s] ELSE f[m - 1] \o Printed(vals, m)]
<1>5. ASSUME NEW s \in 0..m
      PROVE  g[s] = IF s = 0 THEN <<>> ELSE g[s - 1] \o Printed(vals, s)
  <2>1. \A u \in 0..(m - 1) : f[u] = IF u = 0 THEN <<>> ELSE f[u - 1] \o Printed(vals, u)
    BY <1>4 DEF UpTo
  <2>2. CASE s = m
    <3>1. g[s] = f[m - 1] \o Printed(vals, m)
      BY <1>3, <2>2
    <3>2. g[s - 1] = f[m - 1]
      BY <1>3, <2>2
    <3> QED
      BY <1>2, <2>2, <3>1, <3>2
  <2>3. CASE s < m
    <3>1. g[s] = f[s] /\ s \in 0..(m - 1)
      BY <1>3, <2>3
    <3>2. s # 0 => g[s - 1] = f[s - 1]
      BY <1>3, <2>3
    <3> QED
      BY <2>1, <3>1, <3>2
  <2> QED
    BY <1>3, <2>2, <2>3
<1>6. g = [s \in 0..m |-> g[s]]
  OBVIOUS
<1>7. UpTo(vals, m, g)
  <2> HIDE DEF g
  <2> QED
    BY <1>5, <1>6 DEF UpTo
<1> QED
  BY <1>1, <1>7

\* The text grows by one section at a time.
LEMMA PrintedUpToFacts ==
  ASSUME NEW vals
  PROVE  /\ PrintedUpTo(vals)[0] = <<>>
         /\ \A s \in DOMAIN Sections :
              /\ s - 1 \in 0..Len(Sections)
              /\ PrintedUpTo(vals)[s] = PrintedUpTo(vals)[s - 1] \o Printed(vals, s)
<1>1. Len(Sections) \in Nat /\ DOMAIN Sections = 1..Len(Sections)
  BY TableFacts
<1>2. \E f : UpTo(vals, Len(Sections), f)
  BY <1>1, UpToExists
<1>3. PrintedUpTo(vals) = CHOOSE f : UpTo(vals, Len(Sections), f)
  BY DEF PrintedUpTo, UpTo
<1>4. UpTo(vals, Len(Sections), PrintedUpTo(vals))
  BY <1>2, <1>3
<1>5. \A s \in 0..Len(Sections) :
        PrintedUpTo(vals)[s] =
          IF s = 0 THEN <<>> ELSE PrintedUpTo(vals)[s - 1] \o Printed(vals, s)
  BY <1>4 DEF UpTo
<1> HIDE DEF PrintedUpTo
<1>6. PrintedUpTo(vals)[0] = <<>>
  BY <1>1, <1>5
<1>7. ASSUME NEW s \in DOMAIN Sections
      PROVE  /\ s - 1 \in 0..Len(Sections)
             /\ PrintedUpTo(vals)[s] = PrintedUpTo(vals)[s - 1] \o Printed(vals, s)
  <2>1. s \in 0..Len(Sections) /\ s # 0 /\ s - 1 \in 0..Len(Sections)
    BY <1>1
  <2> QED
    BY <1>5, <2>1
<1> QED
  BY <1>6, <1>7

\* Where the lines of two texts are when one is appended to the other.
LEMMA ConcatFacts ==
  ASSUME NEW a \in Seq(Lines), NEW b \in Seq(Lines)
  PROVE  /\ a \o b \in Seq(Lines) /\ Len(a \o b) = Len(a) + Len(b)
         /\ \A i \in 1..Len(a) : (a \o b)[i] = a[i]
         /\ \A i \in 1..Len(b) : (a \o b)[Len(a) + i] = b[i]
<1>1. \A i \in 1..Len(b) : /\ Len(a) + i \in 1..(Len(a) + Len(b)) /\ ~ (Len(a) + i <= Len(a))
                           /\ (Len(a) + i) - Len(a) = i
  OBVIOUS
<1> QED
  BY <1>1, ConcatProperties

\* The lines of a section.
LEMMA PrintedFacts ==
  ASSUME NEW vals, Table(vals), NEW s \in DOMAIN Sections
  PROVE  /\ Printed(vals, s) \in Seq(Lines)
         /\ Len(Printed(vals, s)) = Len(Sections[s].option) + 2
         /\ Printed(vals, s)[1] = Section(Sections[s].name)
         /\ \A o \in Options(s) :
              Printed(vals, s)[o + 1] = Assign(Sections[s].option[o].name,
                                               IF vals[s][o] = Null THEN None ELSE vals[s][o])
         /\ Printed(vals, s)[Len(Sections[s].option) + 2] = Newline
<1> DEFINE head == <<Section(Sections[s].name)>>
           body == [o \in DOMAIN Sections[s].option |->
                      Assign(Sections[s].option[o].name,
                             IF vals[s][o] = Null THEN None ELSE vals[s][o])]
           N == Len(Sections[s].option)
<1>1. N \in Nat /\ Options(s) = 1..N /\ Sections[s].name \in Names
  BY TableFacts
<1>2. Section(Sections[s].name) \in Lines /\ Newline \in Lines
  BY <1>1 DEF Section, Lines
<1>3. ASSUME NEW o \in 1..N PROVE body[o] \in Lines
  <2>1. Sections[s].option[o].name \in Names
    BY <1>1, TableFacts
  <2>2. (IF vals[s][o] = Null THEN None ELSE vals[s][o]) \in Vals
    BY <1>1, ValsAssumption DEF Table
  <2> QED
    BY <1>1, <2>1, <2>2 DEF Assign, Lines, Options
<1>4. body \in Seq(Lines) /\ Len(body) = N /\ DOMAIN body = 1..N
  <2>1. DOMAIN body = 1..N
    BY <1>1 DEF Options
  <2>2. body = [o \in 1..N |-> body[o]]
    BY <2>1
  <2> HIDE DEF body
  <2>3. body \in [1..N -> Lines]
    BY <1>3, <2>2
  <2>4. body \in Seq(Lines)
    BY <1>1, <2>3, IsASeq
  <2> QED
    BY <1>1, <2>1, <2>4
<1>5. head \in Seq(Lines) /\ Len(head) = 1 /\ head[1] = Section(Sections[s].name)
  BY <1>2
<1>6. <<Newline>> \in Seq(Lines) /\ Len(<<Newline>>) = 1 /\ <<Newline>>[1] = Newline
  BY <1>2
<1>7. \A o \in Options(s) :
        body[o] = Assign(Sections[s].option[o].name,
                         IF vals[s][o] = Null THEN None ELSE vals[s][o])
  BY DEF Options
<1>8. Printed(vals, s) = (head \o body) \o <<Newline>>
  BY <1>4, <1>5, <1>6 DEF Printed
<1> DEFINE tail == <<Newline>>
<1> HIDE DEF head, body, tail, N
<1>9. /\ head \o body \in Seq(Lines) /\ Len(head \o body) = N + 1
      /\ (head \o body)[1] = head[1]
      /\ \A o \in 1..N : (head \o body)[o + 1] = body[o]
  <2>1. /\ head \o body \in Seq(Lines) /\ Len(head \o body) = Len(head) + Len(body)
        /\ \A i \in 1..Len(head) : (head \o body)[i] = head[i]
        /\ \A i \in 1..Len(body) : (head \o body)[Len(head) + i] = body[i]
    BY <1>4, <1>5, ConcatFacts
  <2>2. 1 \in 1..Len(head) /\ Len(head) + Len(body) = N + 1
    BY <1>1, <1>4, <1>5
  <2>3. ASSUME NEW o \in 1..N PROVE (head \o body)[o + 1] = body[o]
    <3>1. o + 1 = Len(head) + o /\ o \in 1..Len(body)
      BY <1>1, <1>4, <1>5
    <3> QED
      BY <2>1, <3>1
  <2> QED
    BY <2>1, <2>2, <2>3
<1>10. tail \in Seq(Lines) /\ Len(tail) = 1 /\ tail[1] = Newline
       /\ Printed(vals, s) = (head \o body) \o tail
  BY <1>6, <1>8 DEF tail
<1> DEFINE front == head \o body
<1>11. /\ front \in Seq(Lines) /\ Len(front) = N + 1 /\ front[1] = head[1]
       /\ \A o \in 1..N : front[o + 1] = body[o]
       /\ Printed(vals, s) = front \o tail
  BY <1>9, <1>10
<1> HIDE DEF front
<1>12. /\ Printed(vals, s) \in Seq(Lines) /\ Len(Printed(vals, s)) = N + 2
       /\ Printed(vals, s)[1] = head[1]
       /\ \A o \in 1..N : Printed(vals, s)[o + 1] = body[o]
       /\ Printed(vals, s)[N + 2] = Newline
  <2>1. 1 \in 1..Len(front) /\ \A o \in 1..N : o + 1 \in 1..Len(front)
    BY <1>1, <1>11
  <2>2. /\ front \o tail \in Seq(Lines) /\ Len(front \o tail) = Len(front) + Len(tail)
        /\ \A i \in 1..Len(front) : (front \o tail)[i] = front[i]
        /\ \A i \in 1..Len(tail) : (front \o tail)[Len(front) + i] = tail[i]
    BY <1>10, <1>11, ConcatFacts
  <2>3. 1 \in 1..Len(tail) /\ Len(front) + 1 = N + 2 /\ Len(front) + Len(tail) = N + 2
    BY <1>1, <1>10, <1>11
  <2>4. (front \o tail)[N + 2] = Newline
    BY <1>10, <2>2, <2>3
  <2> QED
    BY <1>10, <1>11, <2>1, <2>2, <2>3, <2>4
<1> QED
  BY <1>1, <1>5, <1>7, <1>12 DEF N

\* Text b appended to text t.
IsConcat(w, t, b) == w = t \o b

\* What is appended to a text does not change what its lines say.
LEMMA PrefixFacts ==
  ASSUME NEW t \in Seq(Lines), NEW b \in Seq(Lines), NEW w, IsConcat(w, t, b)
  PROVE  /\ \A k \in 1..Len(t) : Legal(w, k) <=> Legal(t, k)
         /\ \A s, o : Value(w, Len(t), s, o) = Value(t, Len(t), s, o)
<1>1. Len(t) \in Nat /\ \A k \in 1..Len(t) : w[k] = t[k]
  BY ConcatFacts DEF IsConcat
<1>2. ASSUME NEW k \in 1..Len(t) PROVE SectionOf(w, k) = SectionOf(t, k)
  <2> DEFINE heads(x) == {j \in 1..k : x[j].kind = "section"}
  <2>1. \A j \in 1..k : j \in 1..Len(t) /\ w[j] = t[j]
    BY <1>1
  <2>2. heads(w) = heads(t)
    BY <2>1
  <2>3. CASE heads(t) = {}
    <3> HIDE DEF heads
    <3>1. heads(w) = {}
      BY <2>2, <2>3
    <3> QED
      BY <2>3, <3>1 DEF SectionOf, heads
  <2>4. CASE heads(t) # {}
    <3>1. Latest(heads(t)) \in heads(t)
      <4>1. k \in Nat /\ heads(t) \subseteq 1..k
        OBVIOUS
      <4> HIDE DEF heads
      <4> QED
        BY <2>4, <4>1, LatestFacts
    <3>2. w[Latest(heads(t))] = t[Latest(heads(t))]
      BY <2>1, <3>1
    <3> DEFINE named(l) == LET found == Find(l.name)
                           IN IF found = {} THEN 0 ELSE CHOOSE s \in found : TRUE
    <3>3. /\ SectionOf(w, k) = IF heads(w) = {} THEN 0 ELSE named(w[Latest(heads(w))])
          /\ SectionOf(t, k) = IF heads(t) = {} THEN 0 ELSE named(t[Latest(heads(t))])
      BY DEF SectionOf
    <3> HIDE DEF heads, named
    <3> QED
      BY <2>2, <3>2, <3>3
  <2> QED
    BY <2>3, <2>4
<1>3. \A k \in 1..Len(t) : \A s, o : Sets(w, k, s, o) <=> Sets(t, k, s, o)
  BY <1>1, <1>2 DEF Sets
<1>4. \A k \in 1..Len(t) : Legal(w, k) <=> Legal(t, k)
  BY <1>1, <1>3 DEF Legal
<1>5. ASSUME NEW s, NEW o PROVE Value(w, Len(t), s, o) = Value(t, Len(t), s, o)
  <2> DEFINE lines(x) == {k \in 1..Len(t) : Sets(x, k, s, o)}
  <2>1. lines(w) = lines(t)
    BY <1>3
  <2>2. lines(t) # {} => w[Latest(lines(t))] = t[Latest(lines(t))]
    <3>1. lines(t) # {} => Latest(lines(t)) \in lines(t)
      BY <1>1, LatestFacts
    <3> QED
      BY <1>1, <3>1
  <2> DEFINE store(l) == Normal(Sections[s].option[o].type, l.val)
  <2>3. /\ Value(w, Len(t), s, o) = IF lines(w) = {} THEN Defaults[s][o]
                                    ELSE store(w[Latest(lines(w))])
        /\ Value(t, Len(t), s, o) = IF lines(t) = {} THEN Defaults[s][o]
                                    ELSE store(t[Latest(lines(t))])
    BY DEF Value
  <2> HIDE DEF lines, store
  <2> QED
    BY <2>1, <2>2, <2>3
<1> QED
  BY <1>4, <1>5

\* What the lines of section s say behind any text.
LEMMA BlockFacts ==
  ASSUME NEW vals, Table(vals), NEW s \in DOMAIN Sections, NEW t \in Seq(Lines),
         NEW w, IsConcat(w, t, Printed(vals, s))
  PROVE  \A k \in (Len(t) + 1)..Len(w) :
           /\ Legal(w, k)
           /\ \A u \in DOMAIN Sections : \A o \in Options(u) :
                Sets(w, k, u, o) <=> /\ u = s /\ k = Len(t) + o + 1
                                     /\ vals[u][o] \notin {Null, None}
<1> DEFINE b == Printed(vals, s)
           n == Len(t)
           N == Len(Sections[s].option)
<1>1. /\ b \in Seq(Lines) /\ Len(b) = N + 2
      /\ b[1] = Section(Sections[s].name)
      /\ \A o \in Options(s) : b[o + 1] = Assign(Sections[s].option[o].name,
                                                 IF vals[s][o] = Null THEN None ELSE vals[s][o])
      /\ b[N + 2] = Newline
  BY PrintedFacts
<1>2. N \in Nat /\ n \in Nat /\ Options(s) = 1..N /\ w = t \o b
  BY TableFacts DEF IsConcat
<1> HIDE DEF b, n, N
<1>3. Len(w) = n + N + 2 /\ \A i \in 1..(N + 2) : w[n + i] = b[i]
  <2>1. Len(t \o b) = Len(t) + Len(b) /\ \A i \in 1..Len(b) : (t \o b)[Len(t) + i] = b[i]
    BY <1>1, ConcatFacts
  <2>2. Len(w) = n + Len(b) /\ \A i \in 1..Len(b) : w[n + i] = b[i]
    BY <1>2, <2>1 DEF n
  <2> QED
    BY <1>1, <1>2, <2>2
<1>4. /\ w[n + 1].kind = "section" /\ w[n + 1].name = Sections[s].name
      /\ w[n + N + 2].kind = "newline"
  <2>1. 1 \in 1..(N + 2) /\ N + 2 \in 1..(N + 2) /\ n + (N + 2) = n + N + 2
    BY <1>2
  <2>2. w[n + 1] = Section(Sections[s].name) /\ w[n + N + 2] = Newline
    BY <1>1, <1>3, <2>1
  <2> QED
    BY <2>2 DEF Section, Newline
<1>5. ASSUME NEW k \in (n + 2)..(n + N + 1)
      PROVE  /\ k - n - 1 \in Options(s)
             /\ w[k].kind = "assign" /\ w[k].name = Sections[s].option[k - n - 1].name
             /\ w[k].val = IF vals[s][k - n - 1] = Null THEN None ELSE vals[s][k - n - 1]
  <2>1. k - n - 1 \in 1..N /\ (k - n - 1) + 1 \in 1..(N + 2) /\ n + ((k - n - 1) + 1) = k
    BY <1>2
  <2>2. w[k] = Assign(Sections[s].option[k - n - 1].name,
                      IF vals[s][k - n - 1] = Null THEN None ELSE vals[s][k - n - 1])
    BY <1>1, <1>2, <1>3, <2>1
  <2> QED
    BY <1>2, <2>1, <2>2 DEF Assign
<1>6. \A k \in (n + 2)..(n + N + 2) : w[k].kind # "section"
  <2>1. \A k \in (n + 2)..(n + N + 2) : k \in (n + 2)..(n + N + 1) \/ k = n + N + 2
    BY <1>2
  <2> QED
    BY <1>4, <1>5, <2>1
<1>7. SectionOf(w, n + 1) = s /\ s \in Find(w[n + 1].name)
  <2>1. w[n + 1].kind = "section" /\ s \in Find(w[n + 1].name) /\ n + 1 \in Nat \ {0}
    BY <1>2, <1>4 DEF Find
  <2> QED
    BY <2>1, SectionBegins
<1>8. ASSUME NEW k \in (n + 1)..(n + N + 2) PROVE SectionOf(w, k) = s
  <2>1. /\ n + 1 \in Nat /\ k \in Nat /\ n + 1 <= k
        /\ \A i \in ((n + 1) + 1)..k : i \in (n + 2)..(n + N + 2)
    BY <1>2
  <2> QED
    BY <1>6, <1>7, <2>1, SectionSkips
<1>9. ASSUME NEW k \in (n + 1)..(n + N + 2), NEW u \in DOMAIN Sections, NEW o \in Options(u)
      PROVE  Sets(w, k, u, o) <=> u = s /\ k = n + o + 1 /\ vals[u][o] \notin {Null, None}
  <2>1. CASE k \in (n + 2)..(n + N + 1)
    <3> DEFINE p == k - n - 1
               v == vals[s][p]
               type == Sections[s].option[p].type
    <3>1. /\ p \in Options(s)
          /\ w[k].kind = "assign" /\ w[k].name = Sections[s].option[p].name
          /\ w[k].val = IF v = Null THEN None ELSE v
      BY <1>5, <2>1
    <3> HIDE DEF p
    <3>2. v \notin {Null, None} => Accepts(type, v)
      BY <3>1 DEF Table
    <3>3. Sets(w, k, u, o) <=>
            /\ v \notin {Null, None} /\ u = s
            /\ Lower[Sections[s].option[p].name] = Lower[Sections[u].option[o].name]
            /\ Accepts(Sections[u].option[o].type, v)
      BY <1>8, <3>1 DEF Sets
    <3>4. u = s /\ Lower[Sections[s].option[p].name] = Lower[Sections[u].option[o].name] => o = p
      BY <3>1, Unambiguous
    <3>5. Sets(w, k, u, o) <=> v \notin {Null, None} /\ u = s /\ o = p
      BY <3>2, <3>3, <3>4
    <3>6. u = s => (o = p <=> k = n + o + 1)
      <4>1. u = s => o \in 1..N
        BY <1>2
      <4>2. k \in Int /\ p = k - n - 1
        BY <1>2 DEF p
      <4> QED
        BY <1>2, <4>1, <4>2
    <3> QED
      BY <3>5, <3>6
  <2>2. CASE k \notin (n + 2)..(n + N + 1)
    <3>1. k = n + 1 \/ k = n + N + 2
      BY <1>2, <2>2
    <3>2. ~ Sets(w, k, u, o)
      BY <1>2, <1>4, <3>1 DEF Sets
    <3>3. u = s => k # n + o + 1
      BY <1>2, <3>1
    <3> QED
      BY <3>2, <3>3
  <2> QED
    BY <2>1, <2>2
<1>10. ASSUME NEW k \in (n + 1)..(n + N + 2) PROVE Legal(w, k)
  <2>1. CASE k = n + 1
    <3>1. w[k].kind = "section" /\ Find(w[k].name) # {}
      BY <1>2, <1>4, <1>7, <2>1
    <3> QED
      BY <3>1 DEF Legal
  <2>2. CASE k = n + N + 2
    BY <1>2, <1>4, <2>2 DEF Legal
  <2>3. CASE k \in (n + 2)..(n + N + 1)
    <3> DEFINE p == k - n - 1
    <3>1. /\ p \in Options(s) /\ k = n + p + 1 /\ w[k].kind = "assign"
          /\ w[k].val = IF vals[s][p] = Null THEN None ELSE vals[s][p]
      <4>1. k = n + p + 1
        BY <1>2
      <4> QED
        BY <1>5, <2>3, <4>1
    <3> HIDE DEF p
    <3>2. w[k].val # None => vals[s][p] \notin {Null, None}
      BY <3>1
    <3>3. w[k].val # None => Sets(w, k, s, p)
      BY <1>9, <3>1, <3>2
    <3> QED
      BY <3>1, <3>3 DEF Legal, Options
  <2> QED
    BY <1>2, <2>1, <2>2, <2>3
<1> QED
  BY <1>3, <1>9, <1>10 DEF n

\* All lines of the text are legal, and they give the options of the first n sections
\* their values and leave the others alone.
Says(t, n, vals) ==
  /\ t \in Seq(Lines)
  /\ \A k \in 1..Len(t) : Legal(t, k)
  /\ \A u \in DOMAIN Sections : \A o \in Options(u) :
       Value(t, Len(t), u, o) = IF u <= n THEN vals[u][o] ELSE Defaults[u][o]

\* A text to which a section is appended gives the options of this section their values.
LEMMA SaysSection ==
  ASSUME NEW vals, Table(vals), NEW s \in DOMAIN Sections, NEW t, Says(t, s - 1, vals),
         NEW w, IsConcat(w, t, Printed(vals, s))
  PROVE  Says(w, s, vals)
<1> DEFINE n == Len(t)
           m == Len(w)
<1>1. /\ t \in Seq(Lines) /\ Printed(vals, s) \in Seq(Lines) /\ n \in Nat
      /\ Len(Printed(vals, s)) = Len(Sections[s].option) + 2
  BY PrintedFacts DEF Says
<1>2. Len(Sections[s].option) \in Nat /\ Options(s) = 1..Len(Sections[s].option) /\ s \in Nat
  BY TableFacts
<1>3. w \in Seq(Lines) /\ m = n + Len(Sections[s].option) + 2
  <2>1. /\ t \o Printed(vals, s) \in Seq(Lines)
        /\ Len(t \o Printed(vals, s)) = Len(t) + Len(Printed(vals, s))
    BY <1>1, ConcatFacts
  <2> QED
    BY <1>1, <1>2, <2>1 DEF IsConcat
<1>4. /\ \A k \in 1..n : Legal(w, k) <=> Legal(t, k)
      /\ \A u, o : Value(w, n, u, o) = Value(t, n, u, o)
  BY <1>1, PrefixFacts
<1>5. \A k \in (n + 1)..m :
        /\ Legal(w, k)
        /\ \A u \in DOMAIN Sections : \A o \in Options(u) :
             Sets(w, k, u, o) <=> u = s /\ k = n + o + 1 /\ vals[u][o] \notin {Null, None}
  BY <1>1, BlockFacts
<1>6. \A u \in DOMAIN Sections : \A o \in Options(u) :
        Value(t, n, u, o) = IF u <= s - 1 THEN vals[u][o] ELSE Defaults[u][o]
  BY DEF Says
<1>7. \A k \in 1..n : Legal(t, k)
  BY DEF Says
<1> HIDE DEF n, m
<1>8. ASSUME NEW k \in 1..m PROVE Legal(w, k)
  <2>1. k \in 1..n \/ k \in (n + 1)..m
    BY <1>1, <1>2, <1>3
  <2> QED
    BY <1>4, <1>5, <1>7, <2>1
<1>9. ASSUME NEW u \in DOMAIN Sections, NEW o \in Options(u)
      PROVE  Value(w, m, u, o) = IF u <= s THEN vals[u][o] ELSE Defaults[u][o]
  <2>1. u \in Nat
    BY TableFacts
  <2>2. m \in Nat /\ n <= m
    BY <1>1, <1>2, <1>3
  <2>3. CASE u # s \/ vals[u][o] \in {Null, None}
    <3>1. \A k \in (n + 1)..m : ~ Sets(w, k, u, o)
      BY <1>5, <2>3
    <3>2. Value(w, m, u, o) = Value(t, n, u, o)
      BY <1>1, <1>4, <2>2, <3>1, ValueSkips
    <3>3. u = s => vals[u][o] = Defaults[u][o]
      BY <2>3 DEF Table
    <3>4. u # s => (u <= s <=> u <= s - 1)
      BY <1>2, <2>1
    <3>5. u = s => u <= s /\ ~ (u <= s - 1)
      BY <1>2, <2>1
    <3> QED
      BY <1>6, <3>2, <3>3, <3>4, <3>5
  <2>4. CASE u = s /\ vals[u][o] \notin {Null, None}
    <3> DEFINE k == n + o + 1
    <3>1. k \in (n + 1)..m /\ k \in Nat \ {0} /\ k <= m /\ o \in Nat
      BY <1>1, <1>2, <1>3, <2>4
    <3>2. Sets(w, k, u, o)
      BY <1>5, <2>4, <3>1
    <3>3. ASSUME NEW i \in (k + 1)..m PROVE ~ Sets(w, i, u, o)
      <4>1. i \in (n + 1)..m /\ i # n + o + 1
        BY <1>1, <2>2, <3>1
      <4> QED
        BY <1>5, <4>1
    <3>4. Value(w, m, u, o) = Value(w, k, u, o)
      <4> HIDE DEF k
      <4> QED
        BY <2>2, <3>1, <3>3, ValueSkips
    <3>5. Value(w, k, u, o) = Normal(Sections[u].option[o].type, w[k].val)
      <4> HIDE DEF k
      <4> QED
        BY <3>1, <3>2, ValueSet
    <3>6. w[k].val = vals[u][o]
      <4>1. Printed(vals, s)[o + 1] = Assign(Sections[s].option[o].name, vals[s][o])
        BY <2>4, PrintedFacts
      <4>2. o + 1 \in 1..Len(Printed(vals, s)) /\ k = n + (o + 1)
        BY <1>1, <1>2, <2>4, <3>1
      <4>3. \A i \in 1..Len(Printed(vals, s)) :
              (t \o Printed(vals, s))[Len(t) + i] = Printed(vals, s)[i]
        BY <1>1, ConcatFacts
      <4>4. w[n + (o + 1)] = Printed(vals, s)[o + 1]
        BY <4>2, <4>3 DEF n, IsConcat
      <4>5. Assign(Sections[s].option[o].name, vals[s][o]).val = vals[s][o]
        BY DEF Assign
      <4>6. w[k] = Assign(Sections[s].option[o].name, vals[s][o])
        BY <4>1, <4>2, <4>4
      <4> HIDE DEF k
      <4> QED
        BY <2>4, <4>5, <4>6
    <3>7. Normal(Sections[u].option[o].type, vals[u][o]) = vals[u][o]
      BY <2>4 DEF Table
    <3>8. u <= s
      BY <1>2, <2>4
    <3> QED
      BY <3>4, <3>5, <3>6, <3>7, <3>8
  <2> QED
    BY <2>3, <2>4
<1> QED
  BY <1>3, <1>8, <1>9 DEF Says, m

\* The text that is printed says the values it was printed from.
LEMMA PrintedSays ==
  ASSUME NEW vals, Table(vals)
  PROVE  /\ PrintedText(vals) \in Seq(Lines)
         /\ \A k \in 1..Len(PrintedText(vals)) : Legal(PrintedText(vals), k)
         /\ \A s \in DOMAIN Sections : \A o \in Options(s) :
              Value(PrintedText(vals), Len(PrintedText(vals)), s, o) = vals[s][o]
<1> DEFINE N == Len(Sections)
           P(s) == PrintedUpTo(vals)[s]
           S == {s \in 0..N : ~ Says(P(s), s, vals)}
<1>1. N \in Nat /\ DOMAIN Sections = 1..N
  BY TableFacts
<1>2. /\ P(0) = <<>>
      /\ \A s \in DOMAIN Sections : s - 1 \in 0..N /\ P(s) = P(s - 1) \o Printed(vals, s)
  BY PrintedUpToFacts
<1> HIDE DEF N, P
<1>3. Says(P(0), 0, vals)
  <2>1. P(0) \in Seq(Lines) /\ Len(P(0)) = 0
    BY <1>2, EmptySeq
  <2>2. \A u \in DOMAIN Sections : ~ (u <= 0)
    BY <1>1
  <2>3. \A k \in 1..0 : FALSE
    OBVIOUS
  <2> QED
    BY <2>1, <2>2, <2>3, NothingRead DEF Says
<1>4. S = {}
  <2>1. SUFFICES ASSUME S # {} PROVE FALSE
    OBVIOUS
  <2>2. S \subseteq Nat
    BY <1>1
  <2>3. PICK s \in S : \A j \in S : s <= j
    <3> HIDE DEF S
    <3> QED
      BY <2>1, <2>2, Least
  <2>4. s \in 1..N /\ s - 1 \in 0..N /\ ~ (s <= s - 1)
    BY <1>1, <1>3, <2>3
  <2>5. s - 1 \notin S
    BY <2>3, <2>4
  <2>6. Says(P(s - 1), s - 1, vals)
    BY <2>4, <2>5
  <2>7. Says(P(s), s, vals)
    <3>1. s \in DOMAIN Sections /\ IsConcat(P(s), P(s - 1), Printed(vals, s))
      BY <1>1, <1>2, <2>4 DEF IsConcat
    <3> QED
      BY <2>6, <3>1, SaysSection
  <2> QED
    BY <2>3, <2>7
<1>5. Says(P(N), N, vals) /\ P(N) = PrintedText(vals)
  BY <1>1, <1>4 DEF PrintedText, P, N
<1>6. \A u \in DOMAIN Sections : u <= N
  BY <1>1
<1> QED
  BY <1>5, <1>6 DEF Says

-------------------------------------------------------------------------------
\* Every step keeps the types and the values of the table.
LEMMA StepTyped ==
  ASSUME IniInv, [Next]_vars
  PROVE  Typed'
<1>1. /\ text \in Seq(Lines) /\ callback \in BOOLEAN /\ cut \in BOOLEAN
      /\ token \in 1..(Len(text) + 1) /\ lastsave \in Nat /\ line \in Nat
      /\ section \in 0..Len(Sections) /\ Table(values) /\ calls \in Seq(Lines)
      /\ outcome \in {"parsing", "ok", "error"}
      /\ outcome = "parsing" /\ token <= Len(text) => text[token] # Newline
  BY DEF IniInv, Typed
<1>2. ASSUME Parsing, Count
      PROVE  line' \in Nat /\ lastsave' \in Nat
  <2>1. token - lastsave \in Int /\ (token > lastsave => token - lastsave \in Nat)
    BY <1>1
  <2>2. Line \in Nat
    BY <1>1, <2>1 DEF Line
  <2> QED
    BY <1>1, <1>2, <2>2 DEF Count
<1>3. ASSUME Parsing, Call PROVE calls' \in Seq(Lines)
  <2>1. Current \in Lines
    BY <1>3, ParsingFacts DEF IniInv
  <2> QED
    BY <1>1, <1>3, <2>1, AppendProperties DEF Call
<1>4. CASE Moving
  <2>1. Parsing /\ Count /\ Advance /\ UNCHANGED <<text, callback, var, first, outcome>>
    BY <1>4, MovingFacts
  <2>2. token \in 1..Len(text) /\ token \in 0..Len(text) /\ Len(text) \in Nat
    BY <2>1, ParsingFacts DEF IniInv
  <2>3. /\ token' \in 1..(Len(text) + 1) /\ cut' = FALSE
        /\ token' <= Len(text) => text[token'] # Newline
    <3>1. /\ token' \in (token + 1)..(Len(text) + 1)
          /\ token' <= Len(text) => text[token'] # Newline
      BY <1>1, <2>1, <2>2, NextTokenFacts DEF Advance
    <3> QED
      BY <2>1, <2>2, <3>1 DEF Advance
  <2>4. section' \in 0..Len(Sections)
    <3>1. CASE ParseSection
      BY <1>1, <3>1, TableFacts DEF ParseSection, Find
    <3>2. CASE ~ ParseSection
      BY <1>1, <1>4, <3>2 DEF Moving, ParseNoArgument, ParseVariable, SkipLine
    <3> QED
      BY <3>1, <3>2
  <2>5. Table(values')
    <3>1. CASE ParseVariable
      BY <3>1, VariableFacts DEF IniInv
    <3>2. CASE ~ ParseVariable
      <4>1. values' = values
        BY <1>4, <3>2 DEF Moving, ParseSection, ParseNoArgument, SkipLine
      <4> QED
        BY <1>1, <4>1
    <3> QED
      BY <3>1, <3>2
  <2>6. calls' \in Seq(Lines)
    <3>1. Call \/ UNCHANGED calls
      BY <1>4 DEF Moving, ParseSection, ParseNoArgument, ParseVariable, SkipLine
    <3> QED
      BY <1>1, <1>3, <2>1, <3>1
  <2> QED
    BY <1>1, <1>2, <2>1, <2>3, <2>4, <2>5, <2>6 DEF Typed
<1>5. CASE CallForVariable
  <2>1. /\ Parsing /\ Count /\ Call /\ cut' = TRUE
        /\ UNCHANGED <<text, callback, token, section, values, outcome>>
    BY <1>5 DEF CallForVariable, Assigns, input
  <2> QED
    BY <1>1, <1>2, <1>3, <2>1 DEF Typed
<1>6. CASE Refused
  <2>1. /\ Parsing /\ Count /\ outcome' = "error"
        /\ UNCHANGED <<text, callback, token, cut, section, values, calls>>
    BY <1>6, RefusedFacts DEF IniInv
  <2> QED
    BY <1>1, <1>2, <2>1 DEF Typed
<1>7. CASE Finish
  BY <1>1, <1>7 DEF Finish, Return, Typed
<1>8. CASE ParseConfigIni
  <2> DEFINE n == NextToken(text', 0)
  <2>1. /\ text' = PrintedText(values) /\ token' = n /\ lastsave' = n + 1 /\ cut' = FALSE
        /\ line' = 0 /\ section' = 0 /\ values' = Defaults /\ outcome' = "parsing"
        /\ UNCHANGED <<callback, calls>>
    BY <1>8 DEF ParseConfigIni
  <2>2. text' \in Seq(Lines)
    BY <1>1, <2>1, PrintedSays
  <2>3. n \in 1..(Len(text') + 1) /\ (n <= Len(text') => text'[n] # Newline)
    BY <2>2, BeginFacts
  <2> HIDE DEF n
  <2>4. lastsave' \in Nat /\ section' \in 0..Len(Sections) /\ line' \in Nat
    BY <2>1, <2>2, <2>3, TableFacts
  <2>5. Table(values')
    BY <2>1, DefaultsTable
  <2> QED
    BY <1>1, <2>1, <2>2, <2>3, <2>4, <2>5 DEF Typed
<1>9. CASE UNCHANGED vars
  BY <1>1, <1>9 DEF vars, Typed
<1> QED
  BY <1>4, <1>5, <1>6, <1>7, <1>8, <1>9, NextCases

\* A line that is read says what the parser makes of it.
LEMMA MovingReads ==
  ASSUME Typed, Read, Moving, ~ callback
  PROVE  /\ Legal(text, token)
         /\ section' = SectionOf(text, token)
         /\ \A s \in DOMAIN Sections : \A o \in Options(s) :
              values'[s][o] = Value(text, token, s, o)
<1>1. Parsing /\ UNCHANGED text
  BY MovingFacts
<1>2. /\ token \in 1..Len(text) /\ token \in Nat \ {0} /\ token - 1 \in Nat
      /\ Current \in Lines /\ Current = text[token] /\ Kind = Current.kind
  BY <1>1, ParsingFacts DEF Read, Kind
<1>3. /\ section = SectionOf(text, token - 1)
      /\ \A s \in DOMAIN Sections : \A o \in Options(s) :
           values[s][o] = Value(text, token - 1, s, o)
  BY DEF Read
<1>4. ASSUME NEW s, NEW o, ~ Sets(text, token, s, o)
      PROVE  Value(text, token, s, o) = Value(text, token - 1, s, o)
  <2>1. \A i \in ((token - 1) + 1)..token : ~ Sets(text, i, s, o)
    BY <1>2, <1>4
  <2> QED
    BY <1>2, <2>1, ValueSkips
<1>5. Current.kind # "section" => SectionOf(text, token) = section
  <2>1. Current.kind # "section" => \A i \in ((token - 1) + 1)..token : text[i].kind # "section"
    BY <1>2
  <2> QED
    BY <1>2, <1>3, <2>1, SectionSkips
<1>6. CASE ParseSection
  <2>1. /\ Current.kind = "section" /\ section' \in Find(Current.name) /\ values' = values
    BY <1>2, <1>6 DEF ParseSection
  <2>2. section' = SectionOf(text, token)
    <3> DEFINE s == section'
    <3>1. s \in Find(text[token].name) /\ text[token].kind = "section"
      BY <1>2, <2>1
    <3> HIDE DEF s
    <3>2. SectionOf(text, token) = s
      BY <1>2, <3>1, SectionBegins
    <3> QED
      BY <3>2 DEF s
  <2>3. \A s, o : ~ Sets(text, token, s, o)
    BY <1>2, <2>1 DEF Sets
  <2>4. Legal(text, token)
    BY <1>2, <2>1 DEF Legal
  <2> QED
    BY <1>3, <1>4, <2>1, <2>2, <2>3, <2>4
<1>7. CASE ParseNoArgument \/ SkipLine
  <2>1. /\ \/ Current.kind = "assign" /\ Current.val = None
           \/ Current.kind = "empty"
        /\ section' = section /\ values' = values
    BY <1>2, <1>7 DEF ParseNoArgument, SkipLine
  <2>2. \A s, o : ~ Sets(text, token, s, o)
    BY <1>2, <2>1 DEF Sets
  <2>3. Legal(text, token)
    BY <1>2, <2>1 DEF Legal
  <2> QED
    BY <1>3, <1>4, <1>5, <2>1, <2>2, <2>3
<1>8. CASE ParseVariable
  <2>1. PICK o \in Options(section) :
          LET type == Sections[section].option[o].type IN
          /\ o \in OptionsNamed(Current.name) /\ Accepts(type, Current.val)
          /\ \A u \in DOMAIN Sections : \A p \in Options(u) :
               values'[u][p] = IF u = section /\ p = o THEN Normal(type, Current.val)
                               ELSE values[u][p]
    BY <1>8, VariableFacts
  <2>2. /\ Current.kind = "assign" /\ Current.val # None /\ section \in DOMAIN Sections
        /\ section' = section
    BY <1>8, VariableFacts DEF ParseVariable
  <2>3. \A s \in DOMAIN Sections : \A p \in Options(s) :
          Sets(text, token, s, p) <=> /\ section = s /\ p \in OptionsNamed(Current.name)
                                      /\ Accepts(Sections[s].option[p].type, Current.val)
    BY <1>1, <2>2, SetsFacts
  <2>4. Sets(text, token, section, o)
    BY <2>1, <2>2, <2>3
  <2>5. Legal(text, token)
    BY <1>2, <2>2, <2>4 DEF Legal, Options
  <2>6. ASSUME NEW s \in DOMAIN Sections, NEW p \in Options(s)
        PROVE  values'[s][p] = Value(text, token, s, p)
    <3>1. CASE s = section /\ p = o
      <4>1. Value(text, token, s, p) = Normal(Sections[s].option[p].type, text[token].val)
        BY <1>2, <2>4, <3>1, ValueSet
      <4> QED
        BY <1>2, <2>1, <3>1, <4>1
    <3>2. CASE ~ (s = section /\ p = o)
      <4>1. p \in OptionsNamed(Current.name) /\ s = section => p = o
        BY <2>1, <2>2, Unambiguous DEF OptionsNamed, Options
      <4>2. ~ Sets(text, token, s, p)
        BY <2>3, <3>2, <4>1
      <4> QED
        BY <1>3, <1>4, <2>1, <3>2, <4>2
    <3> QED
      BY <3>1, <3>2
  <2> QED
    BY <1>5, <2>2, <2>5, <2>6
<1> QED
  BY <1>6, <1>7, <1>8 DEF Moving

\* Every step keeps what has been read in agreement with the text.
LEMMA StepRead ==
  ASSUME IniInv, [Next]_vars
  PROVE  Read'
<1>1. Typed /\ Read
  BY DEF IniInv
<1>2. CASE Moving
  <2>1. SUFFICES ASSUME ~ callback' PROVE Read'
    BY DEF Read
  <2>2. Parsing /\ Advance /\ UNCHANGED <<text, callback>>
    BY <1>2, MovingFacts
  <2>3. /\ token \in 1..Len(text) /\ token \in 0..Len(text) /\ Len(text) \in Nat
        /\ text \in Seq(Lines)
    BY <1>1, <2>2, ParsingFacts DEF Typed
  <2>4. /\ Legal(text, token)
        /\ section' = SectionOf(text, token)
        /\ \A s \in DOMAIN Sections : \A o \in Options(s) :
             values'[s][o] = Value(text, token, s, o)
    BY <1>1, <1>2, <2>1, <2>2, MovingReads
  <2>5. \A k \in 1..(token - 1) : Legal(text, k)
    BY <1>1, <2>1, <2>2 DEF Read
  <2> DEFINE n == NextToken(text, token) - 1
  <2>6. /\ n \in token..Len(text)
        /\ \A i \in (token + 1)..n : Legal(text, i)
        /\ SectionOf(text, n) = SectionOf(text, token)
        /\ \A s \in DOMAIN Sections : \A o \in Options(s) :
             Value(text, n, s, o) = Value(text, token, s, o)
    BY <2>3, NewlinesSkip
  <2>7. token' - 1 = n /\ cut' = FALSE /\ text' = text
    BY <2>2 DEF Advance
  <2> HIDE DEF n
  <2>8. \A k \in 1..n : Legal(text, k)
    <3>1. \A k \in 1..n : k \in 1..(token - 1) \/ k = token \/ k \in (token + 1)..n
      BY <2>3, <2>6
    <3> QED
      BY <2>4, <2>5, <2>6, <3>1
  <2> QED
    BY <2>4, <2>6, <2>7, <2>8 DEF Read
<1>3. CASE CallForVariable
  BY <1>3 DEF CallForVariable, input, Read
<1>4. CASE Refused
  BY <1>1, <1>4, RefusedFacts DEF Read
<1>5. CASE Finish
  BY <1>1, <1>5 DEF Finish, Return, Read
<1>6. CASE ParseConfigIni
  <2> DEFINE n == NextToken(text', 0)
  <2>1. /\ text' = PrintedText(values) /\ token' = n /\ cut' = FALSE
        /\ section' = 0 /\ values' = Defaults
    BY <1>6 DEF ParseConfigIni
  <2>2. text' \in Seq(Lines)
    BY <1>1, <2>1, PrintedSays DEF Typed
  <2>3. /\ \A k \in 1..(n - 1) : Legal(text', k)
        /\ SectionOf(text', n - 1) = 0
        /\ \A s \in DOMAIN Sections : \A o \in Options(s) :
             Value(text', n - 1, s, o) = Defaults[s][o]
    BY <2>2, BeginFacts
  <2> HIDE DEF n
  <2> QED
    BY <2>1, <2>3 DEF Read
<1>7. CASE UNCHANGED vars
  BY <1>1, <1>7 DEF vars, Read
<1> QED
  BY <1>2, <1>3, <1>4, <1>5, <1>6, <1>7, NextCases

\* The parser ends at the end of the text, or at a line that is not legal.
LEMMA StepEnded ==
  ASSUME IniInv, [Next]_vars
  PROVE  Ended'
<1>1. Typed /\ Read /\ Ended /\ Handed
  BY DEF IniInv
<1>2. CASE Moving \/ CallForVariable \/ ParseConfigIni
  <2>1. outcome' = "parsing"
    BY <1>1, <1>2, MovingFacts
       DEF Parsing, CallForVariable, Assigns, ParseConfigIni
  <2> QED
    BY <2>1 DEF Ended
<1>3. CASE Refused
  <2>1. /\ ~ callback /\ outcome' = "error" /\ UNCHANGED <<text, callback, token>>
        /\ ~ Legal(text, token) /\ Parsing
    BY <1>1, <1>3, RefusedFacts
  <2> QED
    BY <2>1 DEF Ended, Parsing
<1>4. CASE Finish
  <2>1. /\ token = Len(text) + 1 /\ Len(text) \in Nat
        /\ outcome' = IF ~ callback /\ MandatoryMissing THEN "error" ELSE "ok"
        /\ UNCHANGED <<text, callback, token, cut, values>>
    BY <1>1, <1>4 DEF Finish, AtEnd, Return, Typed
  <2>2. cut = FALSE
    <3>1. Wanted(text) \subseteq 1..Len(text)
      BY <1>1 DEF Wanted, Typed
    <3> QED
      BY <1>1, <2>1, <3>1 DEF Typed, Read, Handed
  <2>3. MandatoryMissing <=> ~ Complete(values)
    BY DEF MandatoryMissing, Complete, Options
  <2>4. ~ callback => \A s \in DOMAIN Sections : \A o \in Options(s) :
          LET type == Sections[s].option[o].type IN
          var'[s][o] = IF values[s][o] = Null THEN Unset(type) ELSE Converted(type, values[s][o])
    BY <1>4 DEF Finish, Options
  <2> QED
    BY <2>1, <2>2, <2>3, <2>4 DEF Ended
<1>5. CASE UNCHANGED vars
  BY <1>1, <1>5 DEF vars, Ended
<1> QED
  BY <1>2, <1>3, <1>4, <1>5, NextCases

\* The line counter keeps up with strtok_r, which skips lines without characters.
LEMMA StepNumbered ==
  ASSUME IniInv, [Next]_vars
  PROVE  Numbered'
<1>1. Typed /\ Read /\ Numbered
  BY DEF IniInv
<1>2. token \in Nat /\ lastsave \in Nat /\ line \in Nat /\ Len(text) \in Nat
  BY <1>1 DEF Typed
<1>3. ASSUME Parsing, Count, Len(text) > 0, text[1] # Newline, ~ callback
      PROVE  line' = token /\ lastsave' = token + 1
  <2>1. \/ line = 0 /\ token = 1 /\ lastsave = 2
        \/ line = lastsave - 1 /\ lastsave <= token
    BY <1>1, <1>3 DEF Numbered, Parsing
  <2> QED
    BY <1>2, <1>3, <2>1 DEF Count, Line
<1>4. CASE Moving
  <2>1. Parsing /\ Count /\ Advance /\ UNCHANGED <<text, callback, outcome>>
    BY <1>4, MovingFacts
  <2>2. token' \in (token + 1)..(Len(text) + 1)
    <3>1. token \in 0..Len(text) /\ text \in Seq(Lines)
      BY <1>1, <1>2, <2>1, ParsingFacts DEF Typed
    <3> QED
      BY <2>1, <3>1, NextTokenFacts DEF Advance
  <2>3. outcome' = "parsing" /\ token + 1 <= token' /\ token = token + 1 - 1
    BY <1>2, <2>1, <2>2 DEF Parsing
  <2>4. Len(text) > 0 /\ text[1] # Newline /\ ~ callback =>
          line' = token /\ lastsave' = token + 1
    BY <1>3, <2>1
  <2>5. text' = text /\ callback' = callback
    BY <2>1
  <2>6. Len(text) > 0 /\ text[1] # Newline /\ ~ callback =>
          line' = lastsave' - 1 /\ lastsave' <= token'
    BY <1>2, <2>3, <2>4
  <2>7. SUFFICES ASSUME Len(text') > 0, text'[1] # Newline, ~ callback'
                 PROVE  line' = lastsave' - 1 /\ lastsave' <= token'
    BY <2>3 DEF Numbered
  <2> QED
    BY <2>5, <2>6, <2>7
<1>5. CASE CallForVariable
  BY <1>5 DEF CallForVariable, input, Numbered
<1>6. CASE Refused
  <2>1. Parsing /\ Count /\ outcome' = "error" /\ UNCHANGED <<text, callback, token>>
    BY <1>1, <1>6, RefusedFacts
  <2> QED
    BY <1>3, <2>1 DEF Numbered
<1>7. CASE Finish
  <2>1. token' = Len(text) + 1 /\ outcome' # "parsing" /\ text' = text
    BY <1>7 DEF Finish, AtEnd, Return
  <2> QED
    BY <1>2, <2>1 DEF Numbered
<1>8. CASE ParseConfigIni
  <2> DEFINE n == NextToken(text', 0)
  <2>1. /\ text' = PrintedText(values) /\ token' = n /\ lastsave' = n + 1 /\ line' = 0
        /\ outcome' = "parsing"
    BY <1>8 DEF ParseConfigIni
  <2>2. text' \in Seq(Lines)
    BY <1>1, <2>1, PrintedSays DEF Typed
  <2>3. Len(text') > 0 /\ text'[1] # Newline => n = 1
    BY <2>2, BeginFacts
  <2> HIDE DEF n
  <2> QED
    BY <2>1, <2>3 DEF Numbered
<1>9. CASE UNCHANGED vars
  BY <1>1, <1>9 DEF vars, Numbered
<1> QED
  BY <1>4, <1>5, <1>6, <1>7, <1>8, <1>9, NextCases

\* The calls so far are the lines up to line n that are to be handed over.
HandedUpTo(t, c, n) ==
  /\ Len(c) = Cardinality(WantedUpTo(t, n))
  /\ \A k \in WantedUpTo(t, n) : c[Cardinality(WantedUpTo(t, k))] = t[k]

\* The lines to be handed over are lines of the text, and finitely many.
LEMMA WantedFacts ==
  ASSUME NEW t \in Seq(Lines), NEW n \in Nat
  PROVE  /\ Wanted(t) \subseteq 1..Len(t) /\ \A k \in Wanted(t) : k \in Nat
         /\ IsFiniteSet(WantedUpTo(t, n)) /\ Cardinality(WantedUpTo(t, n)) \in Nat
<1>1. Wanted(t) \subseteq 1..Len(t)
  BY DEF Wanted
<1>2. WantedUpTo(t, n) \subseteq 1..Len(t) /\ IsFiniteSet(1..Len(t))
  BY <1>1, FS_Interval DEF WantedUpTo
<1>3. IsFiniteSet(WantedUpTo(t, n))
  BY <1>2, FS_Subset
<1> QED
  BY <1>1, <1>3, FS_CardinalityType

\* One more line is handed over.
LEMMA HandOver ==
  ASSUME NEW t \in Seq(Lines), NEW n \in Wanted(t), NEW c \in Seq(Lines),
         HandedUpTo(t, c, n - 1),
         NEW new, new = Append(c, t[n])
  PROVE  HandedUpTo(t, new, n)
<1> DEFINE W(k) == WantedUpTo(t, k)
           C(k) == Cardinality(WantedUpTo(t, k))
<1>1. n \in 1..Len(t) /\ n \in Nat /\ n - 1 \in Nat /\ t[n] \in Lines
  <2>1. n \in 1..Len(t)
    BY DEF Wanted
  <2> QED
    BY <2>1, ElementOfSeq
<1>2. W(n) = W(n - 1) \cup {n} /\ n \notin W(n - 1)
  <2>1. \A k \in Wanted(t) : k \in Nat
    BY <1>1, WantedFacts
  <2>2. (\A k \in Wanted(t) : k <= n <=> k <= n - 1 \/ k = n) /\ n <= n /\ ~ (n <= n - 1)
    BY <1>1, <2>1
  <2> QED
    BY <2>2 DEF WantedUpTo
<1>3. C(n) = C(n - 1) + 1 /\ C(n - 1) \in Nat
  <2>1. IsFiniteSet(W(n - 1)) /\ C(n - 1) \in Nat
    BY <1>1, WantedFacts
  <2>2. Cardinality(W(n - 1) \cup {n}) = Cardinality(W(n - 1)) + 1
    BY <1>2, <2>1, FS_AddElement
  <2> QED
    BY <1>2, <2>1, <2>2
<1>4. Len(c) = C(n - 1) /\ \A k \in W(n - 1) : c[C(k)] = t[k]
  BY DEF HandedUpTo
<1>5. /\ Len(new) = Len(c) + 1 /\ new[Len(c) + 1] = t[n]
      /\ \A i \in 1..Len(c) : new[i] = c[i]
  BY <1>1, AppendProperties
<1>6. ASSUME NEW k \in W(n - 1) PROVE C(k) \in 1..C(n - 1)
  <2>1. k \in Wanted(t) /\ k \in Nat /\ k <= n - 1
    <3>1. k \in Wanted(t) /\ k <= n - 1
      BY DEF WantedUpTo
    <3> QED
      BY <1>1, <3>1, WantedFacts
  <2>2. W(k) \subseteq W(n - 1) /\ k \in W(k)
    <3>1. \A j \in Wanted(t) : j \in Nat
      BY <1>1, WantedFacts
    <3>2. (\A j \in Wanted(t) : j <= k => j <= n - 1) /\ k <= k
      BY <1>1, <2>1, <3>1
    <3> QED
      BY <2>1, <3>2 DEF WantedUpTo
  <2>3. IsFiniteSet(W(n - 1)) /\ IsFiniteSet(W(k)) /\ C(k) \in Nat
    BY <1>1, <2>1, WantedFacts
  <2>4. C(k) <= C(n - 1)
    BY <2>2, <2>3, FS_Subset
  <2>5. C(k) # 0
    BY <2>2, <2>3, FS_EmptySet
  <2> QED
    BY <1>3, <2>3, <2>4, <2>5
<1>7. ASSUME NEW k \in W(n) PROVE new[C(k)] = t[k]
  <2>1. CASE k = n
    BY <1>3, <1>4, <1>5, <2>1
  <2>2. CASE k \in W(n - 1)
    <3>1. C(k) \in 1..Len(c)
      BY <1>4, <1>6, <2>2
    <3> HIDE DEF C
    <3> QED
      BY <1>4, <1>5, <2>2, <3>1
  <2> QED
    BY <1>2, <2>1, <2>2
<1> QED
  BY <1>3, <1>4, <1>5, <1>7 DEF HandedUpTo

\* Lines that are not to be handed over.
LEMMA HandSkips ==
  ASSUME NEW t \in Seq(Lines), NEW c, NEW k \in Nat, NEW m \in Nat, k <= m,
         \A i \in (k + 1)..m : i \notin Wanted(t),
         HandedUpTo(t, c, k)
  PROVE  HandedUpTo(t, c, m)
<1>1. WantedUpTo(t, m) = WantedUpTo(t, k)
  <2>1. \A i \in Wanted(t) : i \in Nat
    BY WantedFacts
  <2>2. \A i \in Wanted(t) : i <= m <=> i <= k
    BY <2>1
  <2> QED
    BY <2>2 DEF WantedUpTo
<1> QED
  BY <1>1 DEF HandedUpTo

\* In callback mode every step hands over the line it has to, and no line twice.
LEMMA StepHanded ==
  ASSUME IniInv, [Next]_vars
  PROVE  Handed'
<1>1. Typed /\ Read /\ Handed
  BY DEF IniInv
<1>2. text \in Seq(Lines) /\ Len(text) \in Nat /\ calls \in Seq(Lines)
  BY <1>1 DEF Typed
<1>3. callback => (cut => token \in Wanted(text)) /\ HandedUpTo(text, calls, LookedAt)
  BY <1>1 DEF Handed, HandedUpTo
<1>4. ASSUME callback' => (cut' => token' \in Wanted(text'))
                          /\ HandedUpTo(text', calls', IF cut' THEN token' ELSE token' - 1)
      PROVE  Handed'
  BY <1>4 DEF Handed, HandedUpTo, LookedAt
<1>5. CASE Moving
  <2>1. SUFFICES ASSUME callback' PROVE cut' = FALSE /\ HandedUpTo(text', calls', token' - 1)
    BY <1>4
  <2>2. callback /\ Parsing /\ Advance /\ UNCHANGED text
    BY <1>5, <2>1, MovingFacts
  <2>3. /\ token \in 1..Len(text) /\ token \in 0..Len(text) /\ token \in Nat /\ token - 1 \in Nat
        /\ Current = text[token]
    BY <1>1, <2>2, ParsingFacts
  <2>4. HandedUpTo(text, calls', token)
    <3>1. CASE cut
      <4>1. calls' = calls
        BY <1>5, <2>2, <3>1
           DEF Moving, Kind, ParseSection, ParseNoArgument, ParseVariable, SkipLine, Assigns
      <4>2. HandedUpTo(text, calls, token)
        BY <1>3, <2>2, <3>1 DEF LookedAt
      <4> QED
        BY <4>1, <4>2
    <3>2. CASE ~ cut /\ ParseSection
      <4>1. Current.kind = "section" /\ calls' = Append(calls, text[token])
        BY <2>2, <2>3, <3>2 DEF ParseSection, Kind, Call
      <4>2. token \in Wanted(text)
        BY <1>2, <2>3, <4>1 DEF Wanted
      <4>3. HandedUpTo(text, calls, token - 1)
        BY <1>3, <2>2, <3>2 DEF LookedAt
      <4> QED
        BY <1>2, <4>1, <4>2, <4>3, HandOver
    <3>3. CASE ~ cut /\ ~ ParseSection
      <4>1. /\ \/ Current.kind \in {"empty", "other"}
               \/ Current.kind = "assign" /\ Current.val = None
            /\ calls' = calls
        <5>1. Kind = Current.kind
          BY <3>3 DEF Kind
        <5>2. CASE ParseNoArgument
          BY <5>1, <5>2 DEF ParseNoArgument
        <5>3. CASE SkipLine
          BY <5>1, <5>3 DEF SkipLine
        <5> QED
          BY <1>5, <2>2, <3>3, <5>2, <5>3 DEF Moving, ParseVariable
      <4>2. token \notin Wanted(text)
        BY <2>3, <4>1 DEF Wanted
      <4>3. \A i \in ((token - 1) + 1)..token : i \notin Wanted(text)
        BY <2>3, <4>2
      <4>4. HandedUpTo(text, calls, token - 1)
        BY <1>3, <2>2, <3>3 DEF LookedAt
      <4>5. HandedUpTo(text, calls, token)
        BY <1>2, <2>3, <4>3, <4>4, HandSkips
      <4> QED
        BY <4>1, <4>5
    <3> QED
      BY <3>1, <3>2, <3>3
  <2> DEFINE n == NextToken(text, token) - 1
  <2>5. n \in token..Len(text) /\ \A i \in (token + 1)..n : i \notin Wanted(text)
    BY <1>2, <2>3, NewlinesSkip
  <2>6. token' - 1 = n /\ cut' = FALSE
    BY <2>2 DEF Advance
  <2> HIDE DEF n
  <2>7. HandedUpTo(text, calls', n)
    <3>1. n \in Nat /\ token <= n
      BY <2>3, <2>5
    <3> QED
      BY <1>2, <2>3, <2>4, <2>5, <3>1, HandSkips
  <2> QED
    BY <2>2, <2>6, <2>7
<1>6. CASE CallForVariable
  <2>1. /\ Parsing /\ callback /\ ~ cut /\ Current.kind = "assign" /\ Current.val # None
        /\ calls' = Append(calls, Current) /\ cut' = TRUE
        /\ UNCHANGED <<text, callback, token>>
    BY <1>6 DEF CallForVariable, Assigns, Kind, Call, input
  <2>2. token \in 1..Len(text) /\ token - 1 \in Nat /\ Current = text[token]
    BY <1>1, <2>1, ParsingFacts
  <2>3. token \in Wanted(text)
    BY <1>2, <2>1, <2>2 DEF Wanted
  <2>4. HandedUpTo(text, calls, token - 1)
    BY <1>3, <2>1 DEF LookedAt
  <2>5. HandedUpTo(text, calls', token)
    BY <1>2, <2>1, <2>2, <2>3, <2>4, HandOver
  <2> QED
    BY <1>4, <2>1, <2>3, <2>5
<1>7. CASE Refused
  BY <1>1, <1>7, RefusedFacts DEF Handed
<1>8. CASE ParseConfigIni
  BY <1>8 DEF ParseConfigIni, Handed
<1>9. CASE Finish
  BY <1>1, <1>9 DEF Finish, Return, Handed, LookedAt
<1>10. CASE UNCHANGED vars
  BY <1>1, <1>10 DEF vars, Handed, LookedAt
<1> QED
  BY <1>5, <1>6, <1>7, <1>8, <1>9, <1>10, NextCases

\* A configuration that is read again was printed from values that had been accepted.
LEMMA StepReadBack ==
  ASSUME IniInv, [Next]_vars
  PROVE  ReadBack'
<1>1. Typed /\ Ended /\ ReadBack
  BY DEF IniInv
<1>2. CASE ParseConfigIni
  <2>1. /\ first' = values /\ text' = PrintedText(values) /\ ~ callback /\ outcome = "ok"
        /\ callback' = callback
    BY <1>2 DEF ParseConfigIni
  <2>2. Table(values) /\ Complete(values)
    BY <1>1, <2>1 DEF Typed, Ended
  <2> QED
    BY <2>1, <2>2 DEF ReadBack
<1>3. CASE ~ ParseConfigIni
  <2>1. UNCHANGED <<text, callback, first>>
    BY <1>1, <1>3, NextCases, MovingFacts, RefusedFacts
       DEF IniInv, CallForVariable, Finish, input, vars
  <2> QED
    BY <1>1, <2>1 DEF ReadBack
<1> QED
  BY <1>2, <1>3

\* The invariant behind the theorems: what has been read, counted and handed over is
\* at every moment what the text in front of the token says.
LEMMA IniInvariant == Spec => []IniInv
<1>1. Init => IniInv
  BY InitInv
<1>2. IniInv /\ [Next]_vars => IniInv'
  <2> SUFFICES ASSUME IniInv, [Next]_vars PROVE IniInv'
    OBVIOUS
  <2>1. Typed' /\ Read' /\ Ended'
    BY StepTyped, StepRead, StepEnded
  <2>2. Numbered' /\ Handed' /\ ReadBack'
    BY StepNumbered, StepHanded, StepReadBack
  <2> QED
    BY <2>1, <2>2 DEF IniInv
<1> QED
  BY <1>1, <1>2, PTL DEF Spec

-------------------------------------------------------------------------------
\* Every variable keeps its type: the parser never leaves the text, its section is one
\* of the table or none, and the token never stands on a line without characters.
THEOREM TypeCorrect == Spec => []TypeOK
<1>1. IniInv => TypeOK
  <2> SUFFICES ASSUME IniInv PROVE TypeOK
    OBVIOUS
  <2>1. Typed
    BY DEF IniInv
  <2>2. DOMAIN values = DOMAIN Sections
    BY <2>1 DEF Typed, Table
  <2> QED
    BY <2>1, <2>2 DEF Typed, TypeOK
<1> QED
  BY <1>1, IniInvariant, PTL

\* Whatever the text and the table, a configuration that is accepted has only legal
\* lines and all mandatory options, and its values are those of the last lines that set
\* them; one that is refused has a line that is not legal or lacks an option.
THEOREM ReadAsWritten == Spec => []ParsedAsWritten
<1>1. IniInv => ParsedAsWritten
  <2> SUFFICES ASSUME IniInv, ~ callback PROVE ParsedAsWritten
    BY DEF ParsedAsWritten
  <2>1. Typed /\ Read /\ Ended
    BY DEF IniInv
  <2>2. text \in Seq(Lines) /\ Len(text) \in Nat /\ DOMAIN text = 1..Len(text)
        /\ token \in 1..(Len(text) + 1)
    BY <2>1 DEF Typed
  <2>3. MandatoryMissing <=> ~ Complete(values)
    BY DEF MandatoryMissing, Complete, Options
  <2>4. token = Len(text) + 1 => \A s \in DOMAIN Sections : \A o \in Options(s) :
                                   values[s][o] = Value(text, Len(text), s, o)
    <3>1. token = Len(text) + 1 => token - 1 = Len(text)
      BY <2>2
    <3> QED
      BY <2>1, <3>1 DEF Read
  <2>5. ASSUME outcome = "ok"
        PROVE  /\ \A k \in DOMAIN text : Legal(text, k)
               /\ ~ MandatoryMissing
               /\ values = [s \in DOMAIN Sections |->
                    [o \in DOMAIN Sections[s].option |-> Value(text, Len(text), s, o)]]
    <3>1. token = Len(text) + 1 /\ token - 1 = Len(text) /\ ~ MandatoryMissing
      BY <2>1, <2>2, <2>3, <2>5 DEF Ended
    <3>2. \A k \in DOMAIN text : Legal(text, k)
      BY <2>1, <2>2, <3>1 DEF Read
    <3>3. values = [s \in DOMAIN Sections |-> [o \in Options(s) |-> values[s][o]]]
      BY <2>1 DEF Typed, Table
    <3>4. values = [s \in DOMAIN Sections |->
                     [o \in Options(s) |-> Value(text, Len(text), s, o)]]
      BY <2>4, <3>1, <3>3
    <3> QED
      BY <3>1, <3>2, <3>4 DEF Options
  <2>6. ASSUME outcome = "error"
        PROVE  \/ \E k \in DOMAIN text : ~ Legal(text, k)
               \/ \E s \in DOMAIN Sections : \E o \in DOMAIN Sections[s].option :
                    /\ Sections[s].option[o].mandatory
                    /\ Value(text, Len(text), s, o) = Null
    <3>1. CASE token <= Len(text)
      BY <2>1, <2>2, <2>6, <3>1 DEF Ended
    <3>2. CASE ~ (token <= Len(text))
      <4>1. token = Len(text) + 1 /\ ~ Complete(values)
        BY <2>1, <2>2, <2>6, <3>2 DEF Ended
      <4> QED
        BY <2>4, <4>1 DEF Complete, Options
    <3> QED
      BY <3>1, <3>2
  <2> QED
    BY <2>5, <2>6 DEF ParsedAsWritten
<1> QED
  BY <1>1, IniInvariant, PTL

\* An error is reported at the first line that is not legal and, unless the file begins
\* with newlines, under the number of that line.
THEOREM ErrorsLocated == Spec => []ErrorAtFirstBadLine
<1>1. IniInv => ErrorAtFirstBadLine
  <2> SUFFICES ASSUME IniInv, outcome = "error", token <= Len(text)
               PROVE  /\ ~ Legal(text, token) /\ \A k \in 1..(token - 1) : Legal(text, k)
                      /\ text[1] # Newline => line = token
    BY DEF ErrorAtFirstBadLine
  <2>1. ~ callback /\ ~ Legal(text, token) /\ \A k \in 1..(token - 1) : Legal(text, k)
    BY DEF IniInv, Ended, Read
  <2>2. Len(text) > 0
    BY DEF IniInv, Typed
  <2>3. text[1] # Newline => line = token
    BY <2>1, <2>2 DEF IniInv, Numbered
  <2> QED
    BY <2>1, <2>3
<1> QED
  BY <1>1, IniInvariant, PTL

\* In callback mode each section and each assignment of the text is handed over once
\* and in order, however long the text.
THEOREM CalledOnce == Spec => []EachLineCalledOnce
<1>1. IniInv => EachLineCalledOnce
  <2> SUFFICES ASSUME IniInv, callback PROVE EachLineCalledOnce
    BY DEF EachLineCalledOnce
  <2> DEFINE wanted == {k \in DOMAIN text : \/ text[k].kind = "section"
                                            \/ text[k].kind = "assign" /\ text[k].val # None}
             over   == {k \in wanted : k < token \/ (k = token /\ cut)}
  <2>1. Typed /\ Handed
    BY DEF IniInv
  <2>2. text \in Seq(Lines) /\ token \in Nat /\ cut \in BOOLEAN
    BY <2>1 DEF Typed
  <2>3. wanted = Wanted(text) /\ \A k \in wanted : k \in Nat
    BY <2>2, WantedFacts DEF Wanted
  <2>4. \A k \in wanted : k < token \/ (k = token /\ cut) <=> k <= LookedAt
    BY <2>2, <2>3 DEF LookedAt
  <2>5. over = WantedUpTo(text, LookedAt)
    BY <2>3, <2>4 DEF WantedUpTo
  <2>6. ASSUME NEW k \in over PROVE {j \in over : j <= k} = WantedUpTo(text, k)
    <3>1. k \in wanted /\ k <= LookedAt /\ LookedAt \in Int
      BY <2>2, <2>5, <2>3 DEF WantedUpTo, LookedAt
    <3>2. \A j \in wanted : j <= k => j <= LookedAt
      BY <2>3, <3>1
    <3> QED
      BY <2>3, <2>5, <3>2 DEF WantedUpTo
  <2>7. Len(calls) = Cardinality(over)
    BY <2>1, <2>5 DEF Handed
  <2>8. \A k \in over : calls[Cardinality({j \in over : j <= k})] = text[k]
    BY <2>1, <2>5, <2>6 DEF Handed
  <2> QED
    BY <2>7, <2>8 DEF EachLineCalledOnce
<1> QED
  BY <1>1, IniInvariant, PTL

\* Every table that a run can have accepted is written so that it is accepted again, and
\* read back to the same values.
THEOREM PreservedConfigurationReadsBack == Spec => []ConfigIniReadsBack
<1>1. IniInv => ConfigIniReadsBack
  <2> SUFFICES ASSUME IniInv, first # <<>>
               PROVE  outcome # "error" /\ (outcome = "ok" => values = first)
    BY DEF ConfigIniReadsBack
  <2>1. Typed /\ Read /\ Ended /\ ~ callback /\ Table(first) /\ Complete(first)
        /\ text = PrintedText(first)
    BY DEF IniInv, ReadBack
  <2>2. /\ \A k \in 1..Len(text) : Legal(text, k)
        /\ \A s \in DOMAIN Sections : \A o \in Options(s) :
             Value(text, Len(text), s, o) = first[s][o]
    BY <2>1, PrintedSays
  <2>3. token \in 1..(Len(text) + 1) /\ Len(text) \in Nat
    BY <2>1 DEF Typed
  <2>4. token = Len(text) + 1 => \A s \in DOMAIN Sections : \A o \in Options(s) :
                                   values[s][o] = first[s][o]
    <3>1. token = Len(text) + 1 => token - 1 = Len(text)
      BY <2>3
    <3> QED
      BY <2>1, <2>2, <3>1 DEF Read
  <2>5. outcome # "error"
    <3>1. SUFFICES ASSUME outcome = "error" PROVE FALSE
      OBVIOUS
    <3>2. ~ (token <= Len(text)) /\ ~ Complete(values)
      BY <2>1, <2>2, <2>3, <3>1 DEF Ended
    <3>3. token = Len(text) + 1
      BY <2>3, <3>2
    <3> QED
      BY <2>1, <2>4, <3>2, <3>3 DEF Complete
  <2>6. outcome = "ok" => values = first
    <3>1. outcome = "ok" => token = Len(text) + 1
      BY <2>1 DEF Ended
    <3>2. /\ values = [s \in DOMAIN Sections |-> [o \in Options(s) |-> values[s][o]]]
          /\ first = [s \in DOMAIN Sections |-> [o \in Options(s) |-> first[s][o]]]
      BY <2>1 DEF Typed, Table
    <3> QED
      BY <2>4, <3>1, <3>2
  <2> QED
    BY <2>5, <2>6
<1> QED
  BY <1>1, IniInvariant, PTL

\* A number that fits into an int is what atoi() returns, and so is one that fits into
\* an unsigned int once it is assigned to one.
LEMMA AtoiFacts ==
  ASSUME NEW n \in Int
  PROVE  /\ n \in (-INT_MAX)..INT_MAX => atoi(n) = n
         /\ n \in 0..(UINT_MAX - 1) => atoi(n) % (UINT_MAX + 1) = n
<1> DEFINE b == UINT_MAX + 1
<1>1. /\ INT_MAX \in Nat /\ b = 2 * INT_MAX + 2 /\ b \in Nat \ {0} /\ UINT_MAX = 2 * INT_MAX + 1
      /\ LLONG_MAX \in Nat /\ UINT_MAX <= LLONG_MAX
  BY LimitsAssumption DEF UINT_MAX
<1>2. /\ \A a \in 0..(b - 1) : a % b = a
      /\ \A a \in b..(2 * b - 1) : a % b = a - b
      /\ \A a \in (-b)..(-1) : a % b = a + b
  <2> HIDE DEF b
  <2>1. \A c \in Nat \ {0} : \A a \in 0..(c - 1) : a % c = a
    OBVIOUS
  <2>2. \A c \in Nat \ {0} : \A a \in c..(2 * c - 1) : a % c = a - c
    OBVIOUS
  <2>3. \A c \in Nat \ {0} : \A a \in (-c)..(-1) : a % c = a + c
    OBVIOUS
  <2> QED
    BY <1>1, <2>1, <2>2, <2>3
<1>3. n \in (-INT_MAX)..UINT_MAX => atoi(n) = ((n + INT_MAX + 1) % b) - INT_MAX - 1
  <2>1. n \in (-INT_MAX)..UINT_MAX => n \in (-LLONG_MAX - 1)..LLONG_MAX
    BY <1>1
  <2>2. n \in (-LLONG_MAX - 1)..LLONG_MAX => atoll(n) = n
    BY <1>1 DEF atoll
  <2> QED
    BY <2>1, <2>2 DEF atoi
<1> HIDE DEF b
<1>4. ASSUME n \in (-INT_MAX)..INT_MAX PROVE atoi(n) = n
  <2>1. n + INT_MAX + 1 \in 0..(b - 1)
    BY <1>1, <1>4
  <2>2. (n + INT_MAX + 1) % b = n + INT_MAX + 1
    BY <1>2, <2>1
  <2>3. n \in (-INT_MAX)..UINT_MAX
    BY <1>1, <1>4
  <2> QED
    BY <1>1, <1>3, <2>2, <2>3
<1>5. ASSUME n \in 0..(UINT_MAX - 1) PROVE atoi(n) % b = n
  <2>1. CASE n <= INT_MAX
    <3>1. atoi(n) = n /\ n \in 0..(b - 1)
      BY <1>1, <1>4, <1>5, <2>1
    <3> QED
      BY <1>2, <3>1
  <2>2. CASE ~ (n <= INT_MAX)
    <3>1. n + INT_MAX + 1 \in b..(2 * b - 1)
      BY <1>1, <1>5, <2>2
    <3>2. (n + INT_MAX + 1) % b = n + INT_MAX + 1 - b
      BY <1>1, <1>2, <3>1
    <3>3. atoi(n) = n - b /\ n - b \in (-b)..(-1)
      BY <1>1, <1>3, <1>5, <3>2
    <3>4. atoi(n) % b = (n - b) + b
      BY <1>2, <3>3
    <3> QED
      BY <1>1, <3>4
  <2> QED
    BY <2>1, <2>2
<1> QED
  BY <1>4, <1>5 DEF b

\* What atoll() returns for a number that is not negative is one, and not beyond a long
\* long.
LEMMA AtollFacts ==
  ASSUME NEW n \in Nat
  PROVE  /\ atoll(n) \in 0..LLONG_MAX
         /\ atoll(n) % (UINT64_MAX + 1) # UINT64_MAX
<1>1. LLONG_MAX \in Nat /\ UINT64_MAX = 2 * LLONG_MAX + 1
  BY LimitsAssumption DEF UINT64_MAX
<1>2. atoll(n) \in 0..LLONG_MAX
  BY <1>1 DEF atoll
<1>3. \A c \in Nat \ {0} : \A a \in 0..(c - 1) : a % c = a
  OBVIOUS
<1> DEFINE c == UINT64_MAX + 1
           a == atoll(n)
<1>4. c \in Nat \ {0} /\ a \in 0..(c - 1) /\ a # UINT64_MAX
  BY <1>1, <1>2
<1> HIDE DEF c, a
<1>5. a % c = a
  BY <1>3, <1>4
<1> QED
  BY <1>2, <1>4, <1>5 DEF a, c

\* What the variables tell the phases: whatever the widths of the integers and the
\* precision of a float, a variable holds what is stored for an option without a value
\* only if its option has none, or one that does not fit; and that is the value the
\* phases compare it with, INI_UNSET_*, except in a float, which is never equal to it.
THEOREM UnsetTellsNoValue == Spec => []UnsetMeansNoValue
<1>1. IniInv => UnsetMeansNoValue
  <2> SUFFICES ASSUME IniInv, outcome = "ok", ~ callback,
                      NEW s \in DOMAIN Sections, NEW o \in Options(s)
               PROVE  LET type    == Sections[s].option[o].type
                          noValue == values[s][o] = Null
                          doubt   == type \in TypesWithRegex /\ ~ Fits(type, Num(values[s][o]))
                      IN /\ noValue => var[s][o] = Unset(type)
                         /\ var[s][o] = Unset(type) => noValue \/ doubt
                         /\ var[s][o] = UnsetValue(type)
                              <=> var[s][o] = Unset(type) /\ type # "INI_FLOAT"
    BY DEF UnsetMeansNoValue, Options
  <2> DEFINE type == Sections[s].option[o].type
             val  == values[s][o]
             n    == Num(val)
  <2>1. var[s][o] = IF val = Null THEN Unset(type) ELSE Converted(type, val)
    BY DEF IniInv, Ended
  <2>2. type \in VarTypes
    BY TableFacts
  <2>3. type \in TypesWithRegex /\ val # Null => val \in Matches[type]
    <3>1. /\ val \in {Null, None} => Sections[s].option[o].default = val
          /\ val \notin {Null, None} => Accepts(type, val)
      BY TableFacts DEF IniInv, Typed, Table
    <3>2. val = None => type = "INI_STRING"
      BY <3>1, TableAssumption DEF Options, Null, None
    <3> QED
      BY <3>1, <3>2 DEF Accepts, TypesWithRegex
  <2>4. /\ INT_MAX \in Nat /\ LLONG_MAX \in Nat
        /\ UINT_MAX = 2 * INT_MAX + 1 /\ UINT64_MAX = 2 * LLONG_MAX + 1
    BY LimitsAssumption DEF UINT_MAX, UINT64_MAX
  <2>5. type \in TypesWithRegex \ {"INI_FLOAT"} /\ val # Null => n \in Int
    BY <2>3, NumberAssumption
  <2>6. type = "INI_FLOAT" /\ val # Null => n \in DOMAIN Float
    BY <2>3, FloatAssumption DEF TypesWithRegex
  <2>7. val = Null => var[s][o] = Unset(type)
    BY <2>1
  <2> HIDE DEF type, val, n
  <2>8. ASSUME val # Null, Converted(type, val) = Unset(type)
        PROVE  type \in TypesWithRegex /\ ~ Fits(type, n)
    <3>1. CASE type = "INI_STRING"
      BY <2>8, <3>1 DEF Converted, Unset, UnsetValue
    <3>2. CASE type = "INI_BOOL"
      <4>1. Converted(type, val) \in {0, 1} /\ Unset(type) = 2
        BY <3>2 DEF Converted, Unset, UnsetValue
      <4> QED
        BY <2>8, <4>1
    <3>3. CASE type = "INI_INT"
      <4>1. n \in Int /\ atoi(n) = -INT_MAX - 1
        BY <2>5, <2>8, <3>3 DEF Converted, Unset, UnsetValue, TypesWithRegex, n
      <4>2. n \notin (-INT_MAX)..INT_MAX
        BY <2>4, <4>1, AtoiFacts
      <4> QED
        BY <3>3, <4>2 DEF Fits, TypesWithRegex
    <3>4. CASE type = "INI_UINT"
      <4>1. n \in Int /\ atoi(n) % (UINT_MAX + 1) = UINT_MAX
        BY <2>5, <2>8, <3>4 DEF Converted, Unset, UnsetValue, TypesWithRegex, n
      <4>2. n \notin 0..(UINT_MAX - 1)
        BY <2>4, <4>1, AtoiFacts
      <4> QED
        BY <3>4, <4>2 DEF Fits, TypesWithRegex
    <3>5. CASE type = "INI_UINT64"
      <4>1. atoll(n) % (UINT64_MAX + 1) = UINT64_MAX
        BY <2>8, <3>5 DEF Converted, Unset, UnsetValue, n
      <4>2. n \notin Nat
        BY <4>1, AtollFacts
      <4> QED
        BY <3>5, <4>2 DEF Fits, TypesWithRegex
    <3>6. CASE type = "INI_FLOAT"
      <4>1. Float[n] = Float[UnsetFloat]
        BY <2>8, <3>6 DEF Converted, Unset, n
      <4> QED
        BY <3>6, <4>1 DEF Fits, TypesWithRegex
    <3> QED
      BY <2>2, <3>1, <3>2, <3>3, <3>4, <3>5, <3>6 DEF VarTypes, TypesWithRegex
  <2>9. type # "INI_FLOAT" => UnsetValue(type) = Unset(type)
    BY DEF Unset
  <2>10. type = "INI_FLOAT" => var[s][o] # UnsetValue(type)
    <3>1. ASSUME type = "INI_FLOAT"
          PROVE  UnsetValue(type) = UnsetFloat /\ Unset(type) = Float[UnsetFloat]
                 /\ Converted(type, val) = Float[n]
      BY <3>1 DEF UnsetValue, Unset, Converted, n
    <3> QED
      BY <2>1, <2>6, <3>1, FloatAssumption
  <2>11. var[s][o] = Unset(type) => val = Null \/ (type \in TypesWithRegex /\ ~ Fits(type, n))
    BY <2>1, <2>8
  <2> QED
    BY <2>7, <2>9, <2>10, <2>11 DEF type, val, n
<1> QED
  BY <1>1, IniInvariant, PTL

===============================================================================

------------------------------- MODULE IniParse -------------------------------
(***************************************************************************)
(* u_parse_ini: the parser of the configuration, and in callback mode      *)
(* (sections == NULL) of the result file the verifier reads.  It walks     *)
(* through the lines with strtok_r and regular expressions, stores what is *)
(* assigned in the table of options, and fills the variables of the        *)
(* program at the end.  A configuration that was read is written to        *)
(* config.ini by u_ini_print_values, and somebody may read that file again.*)
(*                                                                         *)
(* A line is what the regular expressions make of it: a section, an        *)
(* assignment with its value trimmed, nothing or a comment, anything else, *)
(* or no characters at all, which strtok_r skips.                          *)
(***************************************************************************)
EXTENDS Integers, Sequences, FiniteSets

CONSTANTS
  Names,       \* what may be written as the name of a section or of an option
  Vals,        \* what may be written as a value
  Sections,    \* the table: a sequence of [name, option], option a sequence of
               \* [name, type, mandatory, default]
  Texts,       \* the files to parse: sequences of lines
  Lower,       \* for each spelling of a name, the name
  Matches,     \* for each type that has one, the values its regular expression accepts
  Truth,       \* for each value a BOOL accepts, "TRUE" or "FALSE"
  Number,      \* for each value a regular expression accepts, the number it denotes
  INT_MAX,     \* the largest int
  LLONG_MAX,   \* the largest long long, and the largest long
  Float,       \* for each number, the number that is left of it in a float
  UnsetFloat   \* INI_UNSET_FLOAT, a double

Null == "NULL"    \* no value
None == ""        \* the value without characters

TypesWithRegex == {"INI_INT", "INI_UINT", "INI_UINT64", "INI_FLOAT"}

\* The parser would take this value.
Accepts(type, val) ==
  /\ type = "INI_BOOL" => val \in DOMAIN Truth
  /\ type \in TypesWithRegex => val \in Matches[type]

\* What is stored for it.
Normal(type, val) == IF type = "INI_BOOL" THEN Truth[val] ELSE val

UINT_MAX == 2 * INT_MAX + 1

UINT64_MAX == 2 * LLONG_MAX + 1

\* The values that stand for unset, INI_UNSET_*.
UnsetValue(type) == CASE type = "INI_STRING" -> Null
                      [] type = "INI_BOOL"   -> 2
                      [] type = "INI_INT"    -> -INT_MAX - 1
                      [] type = "INI_UINT"   -> UINT_MAX
                      [] type = "INI_UINT64" -> UINT64_MAX
                      [] type = "INI_FLOAT"  -> UnsetFloat

\* What a variable holds if its option has no value: of a double, the float next to it.
Unset(type) == IF type = "INI_FLOAT" THEN Float[UnsetFloat] ELSE UnsetValue(type)

\* atoi() and atoll() of a number beyond their type are undefined.  In common libraries
\* atoll() stops at the largest and the smallest number, and atoi() is the same for a
\* long, of which the high bits are cut off.
atoll(n) == CASE n > LLONG_MAX      -> LLONG_MAX
              [] n < -LLONG_MAX - 1 -> -LLONG_MAX - 1
              [] OTHER              -> n
atoi(n)  == ((atoll(n) + INT_MAX + 1) % (UINT_MAX + 1)) - INT_MAX - 1

\* The number a value denotes; atoi() of anything else is zero.
Num(val) == IF val \in DOMAIN Number THEN Number[val] ELSE 0

\* The value as the variable holds it.
Converted(type, val) ==
  CASE type = "INI_STRING" -> val
    [] type = "INI_BOOL"   -> IF val = "TRUE" THEN 1 ELSE 0
    [] type = "INI_INT"    -> atoi(Num(val))
    [] type = "INI_UINT"   -> atoi(Num(val)) % (UINT_MAX + 1)
    [] type = "INI_UINT64" -> atoll(Num(val)) % (UINT64_MAX + 1)
    [] type = "INI_FLOAT"  -> Float[Num(val)]

Section(name)     == [kind |-> "section", name |-> name]
Assign(name, val) == [kind |-> "assign", name |-> name, val |-> val]
Empty   == [kind |-> "empty"]
Other   == [kind |-> "other"]
Newline == [kind |-> "newline"]

Lines == [kind : {"section"}, name : Names]
           \cup [kind : {"assign"}, name : Names, val : Vals]
           \cup {Empty, Other, Newline}

VarTypes == TypesWithRegex \cup {"INI_STRING", "INI_BOOL"}

Entries == [name : Names, type : VarTypes, mandatory : BOOLEAN, default : Vals \cup {Null}]

ASSUME ValsAssumption     == {None, "TRUE", "FALSE"} \subseteq Vals /\ Null \notin Vals
ASSUME SectionsAssumption == Sections \in Seq([name : Names, option : Seq(Entries)])
ASSUME TextsAssumption    == Texts \subseteq Seq(Lines)
ASSUME LimitsAssumption   == INT_MAX \in Nat /\ LLONG_MAX \in Nat /\ UINT_MAX <= LLONG_MAX

\* The regular expressions for integers accept integers.
ASSUME NumberAssumption ==
  \A type \in TypesWithRegex \ {"INI_FLOAT"} : \A val \in Matches[type] : Num(val) \in Int

\* No float is equal to 1e38, which takes more than the 24 bits of its significand.
ASSUME FloatAssumption ==
  /\ UnsetFloat \in DOMAIN Float
  /\ \A val \in Matches["INI_FLOAT"] : Num(val) \in DOMAIN Float
  /\ \A n \in DOMAIN Float : Float[n] # UnsetFloat

\* A BOOL is stored as "TRUE" or "FALSE", and these are accepted again.
ASSUME TruthAssumption ==
  /\ Truth \in [DOMAIN Truth -> {"TRUE", "FALSE"}]
  /\ \A val \in {"TRUE", "FALSE"} : val \in DOMAIN Truth /\ Truth[val] = val

\* Names in the table are told apart by strcasecmp, and the default of an option
\* is a value it would accept.
ASSUME TableAssumption ==
  /\ \A s, t \in DOMAIN Sections : Lower[Sections[s].name] = Lower[Sections[t].name] => s = t
  /\ \A s \in DOMAIN Sections : LET option == Sections[s].option IN
       /\ \A o, p \in DOMAIN option : Lower[option[o].name] = Lower[option[p].name] => o = p
       /\ \A o \in DOMAIN option : LET default == option[o].default IN
            /\ default = None => option[o].type = "INI_STRING"
            /\ default \notin {Null, None} =>
                 Accepts(option[o].type, default) /\ Normal(option[o].type, default) = default

Defaults == [s \in DOMAIN Sections |->
               [o \in DOMAIN Sections[s].option |-> Sections[s].option[o].default]]

VARIABLES
  text,       \* the file
  callback,   \* callback mode?
  token,      \* the line strtok_r has returned, Len(text) + 1 at the end
  cut,        \* was a NUL written into this line?
  line,       \* the line counter
  lastsave,   \* lastsaveptr: the line after the previous token
  section,    \* the section, 0 if there is none
  values,     \* default_val of each option
  calls,      \* the lines handed to the callback
  var,        \* the variables of the program
  outcome,    \* "parsing", or what u_parse_ini returns: "ok" or "error"
  first       \* the values config.ini was written from, <<>> before

vars   == <<text, callback, token, cut, line, lastsave, section, values, calls, var, outcome,
            first>>
input  == <<text, callback, var, first>>

-------------------------------------------------------------------------------
NextToken_LineByLine(t, k) == k + 1

\* strtok_r(.., "\n", ..) after line k.
NextToken(t, k) ==
  CHOOSE j \in (k + 1)..(Len(t) + 1) :
    /\ j <= Len(t) => t[j] # Newline
    /\ \A i \in (k + 1)..(j - 1) : t[i] = Newline

\* The state in which the loop over the lines of t begins.
Begin(t) ==
  /\ token = NextToken(t, 0) /\ lastsave = NextToken(t, 0) + 1
  /\ cut = FALSE /\ line = 0 /\ section = 0 /\ values = Defaults
  /\ calls = <<>> /\ outcome = "parsing"

Init ==
  /\ text \in Texts /\ callback \in BOOLEAN
  /\ first = <<>>
  /\ var = [s \in DOMAIN Sections |-> [o \in DOMAIN Sections[s].option |->
              IF Sections[s].option[o].type = "INI_STRING" THEN Null ELSE 0]]
  /\ Begin(text)

\* The line in the token, and the kind the regular expressions see: the rest of
\* an assignment that was cut is the name in front of the NUL.
Current == text[token]
Kind    == IF cut THEN "other" ELSE Current.kind

\* "strtok skips whole lines"
Line_NotSkipping == line + 1
Line == line + 1 + (IF token > lastsave THEN token - lastsave ELSE 0)

Parsing == outcome = "parsing" /\ token <= Len(text)

\* The head of the loop.
Count == /\ line' = Line
         /\ lastsave' = token + 1

\* token = strtok_r(NULL, "\n", & saveptr)
Advance == token' = NextToken(text, token) /\ cut' = FALSE

Return(result) ==
  /\ outcome' = result
  /\ UNCHANGED <<token, cut>>

\* "Parsing error in line %d"
Fail == /\ Parsing /\ ~ callback
        /\ Count /\ Return("error")
        /\ UNCHANGED <<input, section, values, calls>>

Call == calls' = IF callback THEN Append(calls, Current) ELSE calls

-------------------------------------------------------------------------------
Find(name) == {s \in DOMAIN Sections : Lower[Sections[s].name] = Lower[name]}

ParseSection ==
  /\ Parsing /\ Kind = "section"
  /\ IF callback THEN UNCHANGED section ELSE section' \in Find(Current.name)
  /\ Count /\ Call /\ Advance
  /\ UNCHANGED <<input, values, outcome>>

UnknownSection == Parsing /\ Kind = "section" /\ Find(Current.name) = {} /\ Fail

ParseNoArgument_Assigned ==
  /\ Parsing /\ Kind = "assign" /\ Current.val = None
  /\ IF callback \/ section = 0 THEN UNCHANGED values
     ELSE values' = [values EXCEPT ![section] = [o \in DOMAIN @ |->
            IF Lower[Sections[section].option[o].name] = Lower[Current.name] THEN None ELSE @[o]]]
  /\ Count /\ Advance
  /\ UNCHANGED <<input, section, calls, outcome>>

\* name = , whatever the name and the section.
ParseNoArgument ==
  /\ Parsing /\ Kind = "assign" /\ Current.val = None
  /\ Count /\ Advance
  /\ UNCHANGED <<input, section, values, calls, outcome>>

Assigns == Parsing /\ Kind = "assign" /\ Current.val # None

CallForVariable_NotCut ==
  /\ Assigns /\ callback
  /\ Count /\ Call
  /\ UNCHANGED <<input, token, cut, section, values, outcome>>

\* Callback mode goes on without the next token: the same line again, which now
\* ends after the name.
CallForVariable ==
  /\ Assigns /\ callback
  /\ cut' = TRUE
  /\ Count /\ Call
  /\ UNCHANGED <<input, token, section, values, outcome>>

OptionsNamed(name) ==
  {o \in DOMAIN Sections[section].option :
     Lower[Sections[section].option[o].name] = Lower[name]}

ParseVariable ==
  /\ Assigns /\ ~ callback /\ section # 0
  /\ \E o \in OptionsNamed(Current.name) :
       LET type == Sections[section].option[o].type IN
       /\ Accepts(type, Current.val)
       /\ values' = [values EXCEPT ![section][o] = Normal(type, Current.val)]
  /\ Count /\ Advance
  /\ UNCHANGED <<input, section, calls, outcome>>

OutsideSection == Assigns /\ section = 0 /\ Fail

UnknownOption == Assigns /\ section # 0 /\ OptionsNamed(Current.name) = {} /\ Fail

WrongType == /\ Assigns /\ section # 0
             /\ \E o \in OptionsNamed(Current.name) :
                  ~ Accepts(Sections[section].option[o].type, Current.val)
             /\ Fail

\* Nothing on this line; in callback mode nothing known.
SkipLine ==
  /\ Parsing /\ (Kind = "empty" \/ (callback /\ Kind = "other"))
  /\ Count /\ Advance
  /\ UNCHANGED <<input, section, values, calls, outcome>>

UnexpectedContent == Parsing /\ Kind = "other" /\ Fail

\* "The mandatory option is not set"
MandatoryMissing ==
  \E s \in DOMAIN Sections : \E o \in DOMAIN Sections[s].option :
    Sections[s].option[o].mandatory /\ values[s][o] = Null

AtEnd == outcome = "parsing" /\ token = Len(text) + 1

Finish_AssignedOnly ==
  /\ AtEnd
  /\ Return(IF ~ callback /\ MandatoryMissing THEN "error" ELSE "ok")
  /\ IF callback THEN UNCHANGED var
     ELSE var' = [s \in DOMAIN Sections |-> [o \in DOMAIN Sections[s].option |->
            IF values[s][o] = Null THEN var[s][o]
            ELSE Converted(Sections[s].option[o].type, values[s][o])]]
  /\ UNCHANGED <<text, callback, first, line, lastsave, section, values, calls>>

\* The variables are assigned also if a mandatory option is missing.
Finish ==
  /\ AtEnd
  /\ Return(IF ~ callback /\ MandatoryMissing THEN "error" ELSE "ok")
  /\ IF callback THEN UNCHANGED var
     ELSE var' = [s \in DOMAIN Sections |-> [o \in DOMAIN Sections[s].option |->
            LET type == Sections[s].option[o].type IN
            IF values[s][o] = Null THEN Unset(type) ELSE Converted(type, values[s][o])]]
  /\ UNCHANGED <<text, callback, first, line, lastsave, section, values, calls>>

-------------------------------------------------------------------------------
\* u_ini_print_values: the lines of section s.
Printed(vals, s) ==
  <<Section(Sections[s].name)>>
    \o [o \in DOMAIN Sections[s].option |->
          Assign(Sections[s].option[o].name, IF vals[s][o] = Null THEN None ELSE vals[s][o])]
    \o <<Newline>>

\* The text up to each section, and of all sections.
PrintedUpTo(vals) ==
  LET f[s \in 0..Len(Sections)] == IF s = 0 THEN <<>> ELSE f[s - 1] \o Printed(vals, s) IN f

PrintedText(vals) == PrintedUpTo(vals)[Len(Sections)]

\* io500 has written config.ini, and somebody starts io500 with that file.
ParseConfigIni ==
  /\ outcome = "ok" /\ ~ callback /\ first = <<>>
  /\ first' = values
  /\ text' = PrintedText(values)
  /\ token' = NextToken(text', 0) /\ lastsave' = NextToken(text', 0) + 1
  /\ cut' = FALSE /\ line' = 0 /\ section' = 0 /\ values' = Defaults
  /\ outcome' = "parsing"
  /\ UNCHANGED <<callback, calls, var>>

Next ==
  \/ ParseSection \/ UnknownSection
  \/ ParseNoArgument \/ CallForVariable
  \/ ParseVariable \/ OutsideSection \/ UnknownOption \/ WrongType
  \/ SkipLine \/ UnexpectedContent
  \/ Finish \/ ParseConfigIni

Spec == Init /\ [][Next]_vars

-------------------------------------------------------------------------------
\* Reference: what a text t says, line by line, without a parser.
Latest(lines) == CHOOSE k \in lines : \A j \in lines : j <= k

\* The section line k stands in, 0 if none.
SectionOf(t, k) ==
  LET heads == {j \in 1..k : t[j].kind = "section"}
  IN IF heads = {} THEN 0
     ELSE LET found == Find(t[Latest(heads)].name)
          IN IF found = {} THEN 0 ELSE CHOOSE s \in found : TRUE

\* Line k gives option o of section s a value it accepts.
Sets(t, k, s, o) ==
  /\ t[k].kind = "assign" /\ t[k].val # None
  /\ SectionOf(t, k) = s
  /\ Lower[t[k].name] = Lower[Sections[s].option[o].name]
  /\ Accepts(Sections[s].option[o].type, t[k].val)

Legal(t, k) ==
  /\ t[k].kind # "other"
  /\ t[k].kind = "section" => Find(t[k].name) # {}
  /\ t[k].kind = "assign" /\ t[k].val # None =>
       \E s \in DOMAIN Sections : \E o \in DOMAIN Sections[s].option : Sets(t, k, s, o)

\* What the first n lines say: the last line that sets the option decides.
Value(t, n, s, o) ==
  LET lines == {k \in 1..n : Sets(t, k, s, o)}
  IN IF lines = {} THEN Defaults[s][o]
     ELSE Normal(Sections[s].option[o].type, t[Latest(lines)].val)

\* The variables have their types.
TypeOK ==
  /\ callback \in BOOLEAN /\ cut \in BOOLEAN
  /\ token \in 1..(Len(text) + 1) /\ lastsave \in Nat /\ line \in Nat
  /\ section \in 0..Len(Sections)
  /\ DOMAIN values = DOMAIN Sections
  /\ outcome \in {"parsing", "ok", "error"}
  /\ outcome = "parsing" /\ token <= Len(text) => text[token] # Newline

\* A configuration is accepted exactly if every line of it means something and all
\* mandatory options have a value; then each option has the value of the last line
\* that sets it, and otherwise its default.
ParsedAsWritten ==
  ~ callback =>
    /\ outcome = "ok" => /\ \A k \in DOMAIN text : Legal(text, k)
                         /\ ~ MandatoryMissing
                         /\ values = [s \in DOMAIN Sections |->
                              [o \in DOMAIN Sections[s].option |-> Value(text, Len(text), s, o)]]
    /\ outcome = "error" => \/ \E k \in DOMAIN text : ~ Legal(text, k)
                            \/ \E s \in DOMAIN Sections : \E o \in DOMAIN Sections[s].option :
                                 /\ Sections[s].option[o].mandatory
                                 /\ Value(text, Len(text), s, o) = Null

\* A parsing error is reported at the first line that means nothing, and under its
\* number in the file, unless the file begins with newlines: strtok_r skips these
\* before the first call to be counted.
ErrorAtFirstBadLine ==
  outcome = "error" /\ token <= Len(text) =>
    /\ ~ Legal(text, token) /\ \A k \in 1..(token - 1) : Legal(text, k)
    /\ text[1] # Newline => line = token

\* The variable can hold the number, and it is not taken for the one that stands for
\* unset.
Fits(type, n) ==
  CASE type = "INI_INT"    -> n \in (-INT_MAX)..INT_MAX
    [] type = "INI_UINT"   -> n \in 0..(UINT_MAX - 1)
    [] type = "INI_UINT64" -> n \in Nat
    [] type = "INI_FLOAT"  -> Float[n] # Float[UnsetFloat]

\* The phases ask whether an option was given by comparing its variable with
\* INI_UNSET_*: right for every value that fits its variable, which is more than the
\* regular expressions ask for, unless the variable is a float.  In a float 1e38 is
\* rounded, so INI_UNSET_FLOAT, a double, is never equal to it: the comparison would say
\* that every float was given, and the rounded value is that of the numbers around 1e38
\* too.  No phase compares a float.
UnsetMeansNoValue ==
  outcome = "ok" /\ ~ callback =>
    \A s \in DOMAIN Sections : \A o \in DOMAIN Sections[s].option :
      LET type    == Sections[s].option[o].type
          noValue == values[s][o] = Null
          doubt   == type \in TypesWithRegex /\ ~ Fits(type, Num(values[s][o]))
      IN /\ noValue => var[s][o] = Unset(type)
         /\ var[s][o] = Unset(type) => noValue \/ doubt
         /\ var[s][o] = UnsetValue(type) <=> var[s][o] = Unset(type) /\ type # "INI_FLOAT"

\* In callback mode every section and every variable with a value is handed over
\* once, in the order of the file, although the line of a variable is looked at
\* twice.
EachLineCalledOnce ==
  LET wanted == {k \in DOMAIN text : \/ text[k].kind = "section"
                                     \/ text[k].kind = "assign" /\ text[k].val # None}
      over   == {k \in wanted : k < token \/ (k = token /\ cut)}
  IN callback => /\ Len(calls) = Cardinality(over)
                 /\ \A k \in over : calls[Cardinality({j \in over : j <= k})] = text[k]

\* The configuration that is preserved in the result directory is the one the run
\* was made with: config.ini is accepted, and read back to the same values.
ConfigIniReadsBack ==
  first # <<>> => outcome # "error" /\ (outcome = "ok" => values = first)

===============================================================================

------------------------------ MODULE ResultFile ------------------------------
(***************************************************************************)
(* The writer of result.txt, which is the run of module RunVerdict, and    *)
(* the verifier that reads the file afterwards (io500 --verify and         *)
(* io500-verify).  The two walk different data: the writer hashes scores   *)
(* while it prints them, the verifier hashes what it finds in the file.    *)
(*                                                                         *)
(* The file is a sequence of lines "key = val", each with the section it   *)
(* stands in.  Of the pairs in it those that the verifier looks at are     *)
(* kept, and their values are the values printed: both sides format a      *)
(* score with "%f".  A hash is the exclusive or of a word per pair, here   *)
(* the set of the pairs that have been added an odd number of times.       *)
(***************************************************************************)
EXTENDS RunVerdict

CONSTANT Configs    \* configurations, told apart by their hash

\* A phase name identifies the section of the phase.
ASSUME NamesAssumption ==
  /\ \A j, k \in Index : Phases[j].name = Phases[k].name => j = k
  /\ \A j \in Index : Phases[j].name \notin {"run", "SCORE", "SCOREX", "version", "MD", "BW"}

VARIABLES
  cfg,                   \* the configuration of the run
  result_txt,
  score_hash, score_extended_hash,
  vpc,                   \* where the verifier is
  line,                  \* the next line it reads
  verify_cfg,            \* the configuration it was given
  hash, cfg_hash_read, score_hash_read,   \* its res_data; <<>> is NULL
  verdict                \* what it reports

writer   == <<cfg, result_txt, score_hash, score_extended_hash>>
verifier == <<vpc, line, verify_cfg, hash, cfg_hash_read, score_hash_read, verdict>>
all      == <<vars, writer, verifier>>

-------------------------------------------------------------------------------
Line(section, key, val) == [section |-> section, key |-> key, val |-> val]

Xor(a, b) == (a \ b) \cup (b \ a)

u_hash_update_key_val(h, key, val) == Xor(h, {<<key, val>>})

\* Writer: the score of this row goes into the hash of the [SCORE] section.
InScoreHash(p)  == p.group # "NO_SCORE" /\ ~ Optional(p)
InScoreXHash(p) == p.group # "NO_SCORE" /\ Optional(p)

WriterInit ==
  /\ cfg \in Configs
  /\ result_txt = << Line("run", "version", "VERSION"), Line("run", "config-hash", cfg) >>
  /\ score_hash = u_hash_update_key_val({}, "version", "VERSION")
  /\ score_extended_hash = {}

WritePhase ==
  LET p == Phases[i] IN
  /\ JudgePhase
  /\ result_txt' = IF Dummy(p) THEN result_txt
                   ELSE Append(result_txt, Line(p.name, "score", local.score))
  /\ score_hash' = IF InScoreHash(p)
                     THEN u_hash_update_key_val(score_hash, p.name, local.score)
                     ELSE score_hash
  /\ score_extended_hash' = IF InScoreXHash(p)
                     THEN u_hash_update_key_val(score_extended_hash, p.name, local.score)
                     ELSE score_extended_hash
  /\ UNCHANGED <<cfg, verifier>>

\* calc_score and main() add the scores of the groups and the total; the total
\* of these factors is told by the factors.
ScoreHash_ValidOmitted(h, factors, valid) ==
  LET md    == u_hash_update_key_val(h, "MD", factors["MD"])
      bw    == u_hash_update_key_val(md, "BW", factors["BW"])
  IN u_hash_update_key_val(bw, "SCORE", factors)

ScoreHash(h, factors, valid) ==
  LET md    == u_hash_update_key_val(h, "MD", factors["MD"])
      bw    == u_hash_update_key_val(md, "BW", factors["BW"])
      total == u_hash_update_key_val(bw, "SCORE", factors)
  IN IF valid THEN total ELSE u_hash_update_key_val(total, "valid", "NO")

\* The SCORE line ends in " [INVALID]" if the run is not valid.
ScoreSection(section, factors, valid, h) ==
  << Line(section, "MD", factors["MD"]),
     Line(section, "BW", factors["BW"]),
     Line(section, "SCORE", [score |-> factors, invalid |-> ~ valid]),
     Line(section, "hash", h) >>

WriteScores ==
  /\ WriteReport
  /\ score_hash' = ScoreHash(score_hash, calc_score(FALSE), is_valid_run)
  /\ score_extended_hash' =
       IF opt.mode = "extended"
         THEN ScoreHash(score_extended_hash, calc_score(TRUE), is_valid_extended_run)
         ELSE score_extended_hash
  /\ result_txt' =
       result_txt
         \o ScoreSection("SCORE", calc_score(FALSE), is_valid_run, score_hash')
         \o (IF opt.mode = "extended"
               THEN ScoreSection("SCOREX", calc_score(TRUE), is_valid_extended_run,
                                 score_extended_hash')
               ELSE <<>>)
  /\ UNCHANGED <<cfg, verifier>>

\* The steps of the run that print nothing the verifier looks at.
WriteNothing ==
  /\ Validate \/ SkipPhase \/ RunPhase \/ Fatal
  /\ UNCHANGED <<writer, verifier>>

-------------------------------------------------------------------------------
VerifierInit ==
  /\ vpc = "idle" /\ line = 1 /\ verify_cfg = cfg
  /\ hash = {} /\ cfg_hash_read = <<>> /\ score_hash_read = <<>>
  /\ verdict = [score |-> "none", config |-> FALSE]

\* Somebody verifies the file of a run that has ended or was aborted.
Verify ==
  /\ pc \in {"done", "fatal"} /\ vpc = "idle"
  /\ vpc' = "reading" /\ verify_cfg' \in Configs
  /\ UNCHANGED <<vars, writer, line, hash, cfg_hash_read, score_hash_read, verdict>>

should_hash_phase_Always(name) == TRUE

should_hash_phase(name) ==
  \A j \in Index : Phases[j].name = name =>
    Phases[j].group # "NO_SCORE" /\ ~ Optional(Phases[j])

\* The pair hash_func adds to the hash for a line, if any.
Contribution(l) ==
  CASE l.key = "version"                            -> {<<l.key, l.val>>}
    [] l.key = "config-hash"                        -> {}
    [] l.section = "SCORE" /\ l.key = "SCORE"       -> {<<l.key, l.val.score>>}
    [] l.section = "SCORE" /\ l.key = "hash"        -> {}
    [] l.section = "SCORE" /\ l.key \in {"MD", "BW"} -> {<<l.key, l.val>>}
    [] l.key = "score" /\ should_hash_phase(l.section) -> {<<l.section, l.val>>}
    [] OTHER                                        -> {}

hash_func ==
  LET l == result_txt[line] IN
  /\ vpc = "reading" /\ line <= Len(result_txt)
  /\ hash' = Xor(hash, Contribution(l))
  /\ cfg_hash_read' = IF l.key = "config-hash" THEN <<l.val>> ELSE cfg_hash_read
  /\ score_hash_read' = IF l.section = "SCORE" /\ l.key = "hash"
                          THEN <<l.val>> ELSE score_hash_read
  /\ line' = line + 1
  /\ UNCHANGED <<vars, writer, vpc, verify_cfg, verdict>>

\* The comparisons of u_verify_result_files.  Without a hash line strcmp() gets a
\* NULL pointer, which is undefined.
ScoreVerdict ==
  CASE score_hash_read = <<>>                                 -> "undefined"
    [] score_hash_read = <<hash>>                             -> "equal"
    [] score_hash_read = <<u_hash_update_key_val(hash, "valid", "NO")>> -> "invalid run"
    [] OTHER                                                  -> "mismatch"

Conclude ==
  /\ vpc = "reading" /\ line = Len(result_txt) + 1
  /\ vpc' = "ended"
  /\ verdict' = [score |-> ScoreVerdict, config |-> cfg_hash_read = <<verify_cfg>>]
  /\ UNCHANGED <<vars, writer, line, verify_cfg, hash, cfg_hash_read, score_hash_read>>

FileInit == Init /\ WriterInit /\ VerifierInit
FileNext == WriteNothing \/ WritePhase \/ WriteScores \/ Verify \/ hash_func \/ Conclude
FileSpec == FileInit /\ [][FileNext]_all

-------------------------------------------------------------------------------
Verified  == vpc = "ended"
PrintsOK  == Verified /\ verdict.score = "equal" /\ verdict.config

\* The result file of a run that came to its end verifies: the verifier finds
\* the hash of the writer, and tells a valid run from an invalid one, whichever
\* phases ran, in both modes; and it notices another configuration.
VerifierAgreesWithRun ==
  Verified /\ Done =>
    /\ verdict.score = IF report.valid THEN "equal" ELSE "invalid run"
    /\ verdict.config <=> verify_cfg = cfg

\* "[OK]" is printed only for a run that ended, whose [SCORE] line is not marked
\* [INVALID], with the configuration it was made with.
OKMeansValidRun == PrintsOK => Done /\ report.valid /\ verify_cfg = cfg

===============================================================================

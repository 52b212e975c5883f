------------------------------ MODULE Scoring ------------------------------
(***************************************************************************)
(* How good a parsed diagnosis is: diagnosis/scoring.go, the steps of      *)
(* Diagnose that use it, and what canReuse asks of the result.  Pure       *)
(* functions on a diagnosis, of which only what they look at is kept:      *)
(*                                                                         *)
(*   label             of the conclusion, valid after parsing              *)
(*   insufficient      a root cause says insufficient_information          *)
(*   evidence          how many items; detailed, code: one of them is so   *)
(*   locations         a sequence of what is found where each points to    *)
(*   steps, remediations, nonCode  texts: none, all short, or one long     *)
(*   autoFixed         an evidence type was put right by the parser        *)
(*                                                                         *)
(* A definition named Slip... is the one below it as a plausible bug would *)
(* have it; nothing uses it.                                               *)
(***************************************************************************)
EXTENDS Integers, Sequences, FiniteSets

NotApplicable == -1

Labels == {"high", "medium", "low"}
Wordings == {"none", "short", "long"}

\* What VerifyCodeLocations finds: the lines, no such file (or a directory, or a path out
\* of the repository), the file but not the lines, a file that it cannot read.
Findings == {"lines", "noFile", "noLines", "unreadable"}

\* A diagnosis that the parser can have made; MaxLocations is a bound.
Diagnoses(MaxEvidence, MaxLocations) ==
  {d \in [label : Labels, insufficient : BOOLEAN, evidence : 0..MaxEvidence, detailed : BOOLEAN,
          code : BOOLEAN, locations : UNION {[1..n -> Findings] : n \in 0..MaxLocations},
          steps : Wordings, remediations : Wordings, nonCode : Wordings,
          autoFixed : BOOLEAN] :
     d.evidence = 0 => ~d.detailed /\ ~d.code /\ ~d.autoFixed}

If(condition, points) == IF condition THEN points ELSE 0

\* The points of a list of texts: one for any, one more for a long one.
ForTexts(texts, any, long) == If(texts # "none", any) + If(texts = "long", long)

Flag(name, raised) == IF raised THEN {name} ELSE {}

-----------------------------------------------------------------------------
(* The dimensions *)

\* The summary, the confidence, the label and the root causes passed the parser.
ScoreSchema(d) == 5 + 5 + 3 + 5 + If(~d.autoFixed, 2)

ScoreEvidence(d) ==
  IF d.insufficient THEN ForTexts(d.steps, 10, 10)
  ELSE If(d.evidence >= 1, 10) + If(d.detailed, 10)

\* Whatever has_issue says, it agrees with the root causes, of which there is one.
ScoreCoherence(d) == 8 + If(d.label = "high" => d.evidence >= 2, 7)

ScoreActionable(d) == ForTexts(d.remediations, 8, 7)

ScoreNonCodePath(d) ==
  IF d.locations = <<>> THEN ForTexts(d.nonCode, 5, 5) ELSE NotApplicable

\* VerifyCodeLocations: the score, ...
VerifyCodeLocations(d) ==
  LET verified == {i \in DOMAIN d.locations : d.locations[i] = "lines"}
  IN  IF d.locations = <<>> THEN NotApplicable
      ELSE (20 * Cardinality(verified)) \div Len(d.locations)

\* ... and the flags.
LocationFlags(d) ==
  Flag("HALLUCINATED_FILE", \E i \in DOMAIN d.locations : d.locations[i] = "noFile")
  \cup Flag("HALLUCINATED_LINE", \E i \in DOMAIN d.locations : d.locations[i] = "noLines")

\* Slip: Diagnose keeps what VerifyCodeLocations returned.
SlipCodeVerify(d) == VerifyCodeLocations(d)

\* Diagnose: code evidence without a location is no reason to leave the dimension out.
CodeVerify(d) ==
  LET score == VerifyCodeLocations(d)
  IN  IF score = NotApplicable /\ d.code THEN 0 ELSE score

-----------------------------------------------------------------------------
(* The total *)

CollectFlags(d) ==
  UNION {Flag("NO_EVIDENCE", d.evidence = 0 /\ ~d.insufficient),
         Flag("HIGH_CONF_NO_SUPPORT", d.label = "high" /\ d.evidence < 2),
         Flag("EMPTY_REMEDIATION", d.remediations = "none"),
         Flag("AUTO_FIXED_EVIDENCE_TYPE", d.autoFixed)}

Points(score) == If(score >= 0, score)

Total(d) ==
  ScoreSchema(d) + ScoreEvidence(d) + Points(CodeVerify(d))
  + ScoreCoherence(d) + ScoreActionable(d) + Points(ScoreNonCodePath(d))

MaxPossible(d) ==
  20 + 20 + If(CodeVerify(d) >= 0, 20) + 15 + 15 + If(ScoreNonCodePath(d) >= 0, 10)

\* NormalizeScore
Normalized(d) == (Total(d) * 100) \div MaxPossible(d)

\* canReuse: what it asks of the diagnosis itself.
WorthReuse(d, minScore) ==
  /\ ~d.insufficient
  /\ Normalized(d) >= minScore
  /\ LocationFlags(d) = {}
=============================================================================

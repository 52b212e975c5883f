----------------------------- MODULE Algorithms -----------------------------
(***************************************************************************)
(* The pure functions of the other modules on all inputs up to the bounds. *)
(* A behaviour makes one input: an answer of Amp, from the object it was   *)
(* to be, by what language models do to it; a parsed diagnosis; an event,  *)
(* from another one that it repeats in another form; the posts of a card   *)
(* and what became of each.                                                *)
(***************************************************************************)
EXTENDS Repair, Scoring, Fingerprint, Notifier, FiniteSets

CONSTANTS
  Wrappings,      \* pairs of texts, around an answer
  MaxEvidence, MaxLocations, MinScore,
  ProjectFields   \* what projects may have configured, <<>> for nothing

\* Prose that has no brace before the answer and no fence, ...
Prose(w) ==
  /\ w[1] # <<>> /\ w[1][1] \notin {"space", "comma"}
  /\ \A i \in DOMAIN w[1] : w[1][i] \notin Fences \cup {"lbrace"}
  /\ \A i \in DOMAIN w[2] : w[2][i] \notin Fences

\* ... or a fence that opens a block and maybe one that closes it.
Fenced(w) ==
  /\ w[1] # <<>> /\ w[1][1] \in Fences /\ \A i \in 2..Len(w[1]) : w[1][i] = "space"
  /\ w[2] # <<>> => w[2][1] \in Fences
  /\ w[1][1] = "fence" => \A i \in DOMAIN w[2] : w[2][i] # "json"

ASSUME AlgorithmsAssumption ==
  /\ Wrappings \subseteq Seq(Characters) \X Seq(Characters)
  /\ \A w \in Wrappings : Prose(w) \/ Fenced(w)
  /\ MaxEvidence \in Nat /\ MaxLocations \in Nat
  /\ \A fields \in ProjectFields : fields \in Seq(ToSet(fields))

VARIABLE subject

vars == <<subject>>

-----------------------------------------------------------------------------
(* Answers *)

IsAnswer == subject.kind = "answer"

\* The object is sent as it is.
Answer(whole) ==
  [kind |-> "answer", whole |-> whole, raw |-> whole, loose |-> FALSE,
   before |-> <<>>, after |-> <<>>, cut |-> FALSE]

\* A comma is left before a closer.
Loosen ==
  /\ IsAnswer /\ ~subject.loose /\ ~subject.cut /\ subject.before \o subject.after = <<>>
  /\ \E i \in Outside(subject.raw, {"rbrace", "rbrack"}) :
       /\ subject.raw[i - 1] \notin {"lbrace", "lbrack"}
       /\ subject' = [subject EXCEPT
            !.raw = SubSeq(@, 1, i - 1) \o <<"comma", "space">> \o SubSeq(@, i, Len(@)),
            !.loose = TRUE]

\* There is prose or a fence around the object.
Wrap ==
  /\ IsAnswer /\ ~subject.cut /\ subject.before \o subject.after = <<>>
  /\ \E w \in Wrappings :
       subject' = [subject EXCEPT !.raw = w[1] \o @ \o w[2],
                                  !.before = w[1], !.after = w[2]]

\* The limit on output tokens cuts the object.
CutOff ==
  /\ IsAnswer /\ subject.after = <<>>
  /\ Len(subject.raw) > Len(subject.before) + 1
  /\ subject' = [subject EXCEPT !.raw = Front(@), !.cut = TRUE]

-----------------------------------------------------------------------------
(* Events *)

IsEvent == subject.kind = "event"

Event(payload) ==
  [kind |-> "event", origin |-> payload, payload |-> payload,
   later |-> FALSE, other |-> FALSE]

Place(name) == CHOOSE i \in DOMAIN FieldOrder : FieldOrder[i] = name

Values == {StringValue("some"), NumberValue("some"), LongValue("some"), Nested, Null}

\* The payloads with some of the fields, in order.
Payloads ==
  LET Fields == {Field(name, value) : name \in ToSet(FieldOrder), value \in Values}
  IN  {p \in UNION {[1..n -> Fields] : n \in 0..Len(FieldOrder)} :
         \A i, j \in DOMAIN p : i < j => Place(p[i].name) < Place(p[j].name)}

\* The order of the fields of an object has no meaning.
Reorder ==
  /\ IsEvent /\ ~subject.other
  /\ \E i \in 1..(Len(subject.payload) - 1) :
       subject' = [subject EXCEPT !.payload[i] = subject.payload[i + 1],
                                  !.payload[i + 1] = subject.payload[i]]

\* The same error at another time, ...
Repeat ==
  /\ IsEvent /\ ~subject.later /\ ~subject.other
  /\ \E i \in DOMAIN subject.payload :
       /\ subject.payload[i].name \notin ToSet(EnvironmentFields)
       /\ subject.payload[i].value.kind \in {"string", "number", "long"}
       /\ subject' = [subject EXCEPT !.payload[i].value.dynamic = 1, !.later = TRUE]

\* ... another error, by one value, ...
Differ ==
  /\ IsEvent /\ subject.payload = subject.origin
  /\ \E i \in DOMAIN subject.payload, value \in Values \cup {StringValue("other")} :
       subject' = [subject EXCEPT !.payload[i].value = value, !.other = TRUE]

\* ... and one that has in one string, with the bar between them, what were two fields.
Join ==
  /\ IsEvent /\ subject.payload = subject.origin
  /\ \E i, j \in DOMAIN subject.payload :
       /\ i # j
       /\ subject' = [subject EXCEPT
            !.payload[i].value = Barred("some", Written(subject.payload[j])),
            !.payload[j].value = Null, !.other = TRUE]

-----------------------------------------------------------------------------
(* Notifications *)

IsCard == subject.kind = "card"

Card == [kind |-> "card", exchanges |-> <<>>, at |-> Begun]

\* Notify posts the card until it returns.
Respond ==
  /\ IsCard
  /\ subject.at.result = "posting"
  /\ \E exchange \in Exchanges :
       subject' = [subject EXCEPT !.exchanges = Append(@, exchange),
                                  !.at = Posting(@, exchange)]

-----------------------------------------------------------------------------

IsDiagnosis == subject.kind = "diagnosis"

Init ==
  subject \in {Answer(whole) : whole \in Objects}
             \cup {[kind |-> "diagnosis", diagnosis |-> d] :
                     d \in Diagnoses(MaxEvidence, MaxLocations)}
             \cup {Event(payload) : payload \in Payloads}
             \cup {Card}

Next == Loosen \/ Wrap \/ CutOff \/ Reorder \/ Repeat \/ Differ \/ Join \/ Respond

Spec == Init /\ [][Next]_vars

-----------------------------------------------------------------------------
(* Properties *)

\* Reference: what is missing of p in r is the end of a string and of brackets.
Closes(p, r) ==
  LET rest == SubSeq(r, Len(p) + 1, Len(r))
  IN  /\ IsPrefix(p, r)
      /\ \A i \in DOMAIN rest : rest[i] \in {"rbrace", "rbrack"} \/ (i = 1 /\ rest[i] = "quote")

Completions(p) == {r \in Objects : Closes(p, r)}

\* An answer that was only loosened or wrapped is parsed as the object it was to be:
\* no comma, bracket, quote or escape inside a string misleads the repairs.
WholeIsFound ==
  IsAnswer /\ ~subject.cut /\ "fence" \notin ToSet(subject.whole) =>
    ParseDiagnosisJSON(subject.raw) = subject.whole

\* An answer cut off anywhere is parsed as what completes it if the end of a string and
\* of brackets is enough for that, and refused otherwise.  (White space at the cut is lost,
\* in a string too.)
CutIsClosed ==
  IsAnswer /\ subject.cut /\ ~subject.loose /\ "fence" \notin ToSet(subject.whole) =>
    LET cut == TrimSpace(SubSeq(subject.raw, Len(subject.before) + 1, Len(subject.raw)))
        result == ParseDiagnosisJSON(subject.raw)
    IN  IF Completions(cut) = {} THEN result = Error ELSE result \in Completions(cut)

\* Whatever happened to the answer, fences in strings included, the parser never makes
\* up an object: it returns an error, or a beginning of what was meant, closed.
NothingInvented ==
  IsAnswer =>
    LET result == ParseDiagnosisJSON(subject.raw)
    IN  result = Error \/ \E p \in Prefixes(subject.whole) : Closes(p, result)

\* What is good enough for reuse has evidence; and if that is code, of which nothing was
\* confirmed, it is without a flaw in everything else.
ReuseIsSupported ==
  IsDiagnosis =>
    LET d == subject.diagnosis IN
    WorthReuse(d, MinScore) =>
      /\ d.evidence > 0
      /\ d.code /\ VerifyCodeLocations(d) <= 0 =>
           ScoreSchema(d) + ScoreEvidence(d) + ScoreCoherence(d) + ScoreActionable(d) = 70

Found(payload, fields) == \E i \in DOMAIN fields : ValueOf(payload, fields[i]) # Null

\* The numbers that a later event has in another form, and what can be hashed of it.
Moved ==
  {name \in Names(subject.origin) :
     /\ ValueOf(subject.origin, name).kind = "number"
     /\ ValueOf(subject.payload, name) # ValueOf(subject.origin, name)}
Hashable(fields) ==
  IF Found(subject.origin, fields) THEN ToSet(fields) ELSE Names(subject.origin)

\* One error has one diagnosis fingerprint, whenever it happens and in whatever order its
\* fields are sent, as long as no time or id is hashed that is sent as a number: the
\* normalisation, other than DIAGNOSIS_PIPELINE.md says, replaces in strings only.
RepeatsMatch ==
  IsEvent /\ ~subject.other =>
    \A fields \in ProjectFields :
      Moved \cap Hashable(fields) = {} =>
        ComputeDiagnosisFingerprint(subject.payload, fields)
          = ComputeDiagnosisFingerprint(subject.origin, fields)

\* What a hashed text tells of a field: whether it is there, and its value without the kind.
ReadsAlike(p, q, name) ==
  LET v == ValueOf(p, name)
      w == ValueOf(q, name)
  IN  (v = Null <=> w = Null) /\ Written(Field(name, v)) = Written(Field(name, w))

\* Where a project has configured fields, an event that has one of them counts as the same
\* as any that reads alike in these fields, and if their strings have no bars, then as no
\* other: no field that is configured is left out, and none counts that is not.
ProjectFieldsDecide ==
  IsEvent =>
    \A fields \in ProjectFields :
      LET alike == \A i \in DOMAIN fields : ReadsAlike(subject.payload, subject.origin, fields[i])
          plain == \A i \in DOMAIN fields, p \in {subject.payload, subject.origin} :
                     ValueOf(p, fields[i]).tail = <<>>
          same == ComputeFingerprint(subject.payload, fields)
                    = ComputeFingerprint(subject.origin, fields)
      IN  Found(subject.origin, fields) => (alike => same) /\ (same /\ plain => alike)

\* Only answers that are lost, on the way or in a proxy, make Notify repeat a card that
\* the group has seen.
CopiesAreLostAnswers ==
  IsCard =>
    LET made == SubSeq(subject.exchanges, 1, subject.at.posts)
        seen == {i \in DOMAIN made : made[i].delivered}
        lost == {i \in seen : made[i].answer \in {"none", "status"}}
    IN  Cardinality(seen) <= 1 + Cardinality(lost)
=============================================================================

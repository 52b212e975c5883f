---------------------------- MODULE Fingerprint ----------------------------
(***************************************************************************)
(* Which events count as the same: ComputeFingerprint of intake/handler.go *)
(* for deduplication, ComputeDiagnosisFingerprint of                       *)
(* diagnosis/fingerprint.go for the reuse of reports.  Pure functions on a *)
(* payload, which is the sequence of the fields of a JSON object in the    *)
(* order of its text.  A hash stands for the text that was hashed, as the  *)
(* pieces between its bars.  No two texts have one hash, but fields that   *)
(* differ may have one text.                                               *)
(*                                                                         *)
(* A definition named Slip... is the one below it as a plausible bug would *)
(* have it; nothing uses it.                                               *)
(***************************************************************************)
EXTENDS Integers, Sequences, SequencesExt

CONSTANTS
  DefaultFields,      \* dedup.default_fields, a sequence of top-level fields
  EnvironmentFields,  \* envCandidateFields: where the environment is looked for
  FieldOrder          \* all fields, in the order in which json.Marshal writes them

ASSUME FingerprintAssumption ==
  /\ \A fields \in {DefaultFields, EnvironmentFields, FieldOrder} :
        fields \in Seq(ToSet(FieldOrder))
  /\ IsInjective(DefaultFields) /\ IsInjective(FieldOrder)

MaxFields == 2

\* name=text in a text that is hashed; text without its dynamic part (a time, an id).
Piece(name, text, dynamic) == [name |-> name, text |-> text, dynamic |-> dynamic]

\* The values of fields: strings, numbers (a boolean is as one of them), long numbers whose
\* dynamic part is in the digits that a float64 has no room for, objects, and null.
FieldValue(kind, text, dynamic) ==
  [kind |-> kind, text |-> text, dynamic |-> dynamic, tail |-> <<>>]
StringValue(text) == FieldValue("string", text, 0)
NumberValue(text) == FieldValue("number", text, 0)
LongValue(text) == FieldValue("long", text, 0)
Nested == FieldValue("nested", "object", 0)
Null == FieldValue("null", "", 0)

\* A string that has bars in it: after the first of them it reads as more fields.
Barred(text, tail) == [StringValue(text) EXCEPT !.tail = tail]

Field(name, value) == [name |-> name, value |-> value]
Names(payload) == {payload[i].name : i \in DOMAIN payload}
ValueOf(payload, name) ==
  LET i == SelectInSeq(payload, LAMBDA f : f.name = name)
  IN  IF i = 0 THEN Null ELSE payload[i].value

\* The elements of s that are wanted, in order.  (A recursive function of a set, where
\* SelectSeq would do, because the prover knows nothing of SelectSeq.)
Picked(s, wanted) ==
  LET picked[i \in 0..Len(s)] ==
        IF i = 0 THEN <<>>
        ELSE IF s[i] \in wanted THEN Append(picked[i - 1], s[i]) ELSE picked[i - 1]
  IN  picked[Len(s)]

\* The wanted fields in the order given.
InOrder(payload, order, wanted) ==
  LET names == Picked(order, wanted)
  IN  [i \in DOMAIN names |-> Field(names[i], ValueOf(payload, names[i]))]

Scalars(payload) == {f \in ToSet(payload) : f.value.kind \in {"string", "number", "long"}}

FirstFields(fields) == SubSeq(fields, 1, Min({Len(fields), MaxFields}))

\* writeScalarToHash: neither the kind of a value is written nor an escape for its bars, and
\* of a number what float64 keeps.
Written(f) ==
  LET dynamic == IF f.value.kind = "long" THEN 0 ELSE f.value.dynamic
  IN  <<Piece(f.name, f.value.text, dynamic)>> \o f.value.tail

HashedText(fields) == FlattenSeq([i \in DOMAIN fields |-> Written(fields[i])])

-----------------------------------------------------------------------------
(* ComputeFingerprint; the project is the same for all payloads here *)

\* fastFingerprint: the first wanted scalars in the order of the text.
FastFields(payload) ==
  FirstFields(Picked(payload, {f \in Scalars(payload) : f.name \in ToSet(DefaultFields)}))

\* hashDefaultFieldsIncremental: the first scalars in the order of the configuration.
DefaultMatches(payload) ==
  FirstFields(InOrder(payload, DefaultFields, {f.name : f \in Scalars(payload)}))

Present(payload, fields) == {name \in ToSet(fields) : ValueOf(payload, name) # Null}

\* Slip: the bound on the default fields holds for configured ones.
SlipProjectMatches(payload, fields) ==
  FirstFields(InOrder(payload, fields, Present(payload, fields)))

\* hashFieldsIncremental: all configured fields that are there.
ProjectMatches(payload, fields) == InOrder(payload, fields, Present(payload, fields))

\* The whole payload is hashed when nothing matches; it begins with a brace, which keeps it
\* from being taken for a list of fields.
ComputeFingerprint(payload, projectFields) ==
  LET matches == IF projectFields # <<>> THEN <<ProjectMatches(payload, projectFields)>>
                 ELSE <<FastFields(payload), DefaultMatches(payload)>>
      i == SelectInSeq(matches, LAMBDA fields : fields # <<>>)
  IN  IF i = 0 THEN [whole |-> payload] ELSE [text |-> HashedText(matches[i])]

-----------------------------------------------------------------------------
(* ComputeDiagnosisFingerprint *)

\* Slip: the normalised payload keeps the order of its text.
SlipMarshal(payload) == payload

Marshal(payload) == InOrder(payload, FieldOrder, Names(payload))

\* normalizeMap: placeholders for the dynamic parts of strings; numbers are left as they are,
\* but json.Unmarshal has made a float64 of them.
Settled(value) ==
  IF value.kind \in {"string", "long"} THEN [value EXCEPT !.dynamic = 0] ELSE value

\* normalizePayload: json.Marshal sorts the fields.
Normalize(payload) ==
  Marshal([i \in DOMAIN payload |-> Field(payload[i].name, Settled(payload[i].value))])

\* extractEnvironment: the first candidate field that is a string, of the payload as it came.
ExtractEnvironment(payload) ==
  LET strings == {f \in ToSet(payload) : f.value.kind = "string"}
      found == InOrder(payload, EnvironmentFields, {f.name : f \in strings})
  IN  IF found = <<>> THEN <<>> ELSE <<found[1].value>>

ComputeDiagnosisFingerprint(payload, projectFields) ==
  <<ComputeFingerprint(Normalize(payload), projectFields), ExtractEnvironment(payload)>>
=============================================================================

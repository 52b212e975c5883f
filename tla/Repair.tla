------------------------------- MODULE Repair -------------------------------
(***************************************************************************)
(* How diagnosis/structured.go finds and repairs the JSON in the answer of *)
(* Amp: pure functions on texts, which are sequences of tokens here.  A    *)
(* token is what the code tells apart; "x" stands for a scalar outside     *)
(* strings and for any other character inside, "fence" for three backticks *)
(* and "json" for three backticks with the language json.                  *)
(*                                                                         *)
(* A definition named Slip... is the one below it as a plausible bug would *)
(* have it; nothing uses it.                                               *)
(***************************************************************************)
EXTENDS Integers, Sequences, SequencesExt

CONSTANTS
  Longest,  \* bound: tokens of an object
  Inside    \* tokens that stand in strings, besides escapes

\* The tokens.
Characters ==
  {"x", "space", "comma", "colon", "lbrace", "rbrace", "lbrack", "rbrack", "quote", "back",
   "fence", "json"}

ASSUME RepairAssumption ==
  /\ Longest \in Nat
  /\ Inside \subseteq Characters \ {"quote", "back", "json"}

Error == <<"error">>

-----------------------------------------------------------------------------
(* encoding/json is the grammar of JSON: the texts that it derives. *)

Concat(S, T) == {s \o t : s \in S, t \in T}

\* The bodies of strings of n tokens: a backslash escapes a quote or a backslash, at some
\* places that are no neighbours.
Bodies(n) ==
  LET Escaped(i, escapes) == IF i \in escapes THEN {"back"}
                             ELSE IF i - 1 \in escapes THEN {"quote", "back"}
                             ELSE Inside
  IN  UNION {{b \in [1..n -> Inside \cup {"quote", "back"}] :
                \A i \in 1..n : b[i] \in Escaped(i, escapes)} :
             escapes \in {e \in SUBSET (1..(n - 1)) : \A i \in e : i + 1 \notin e}}

String(n) ==
  IF n < 2 THEN {} ELSE {<<"quote">> \o b \o <<"quote">> : b \in Bodies(n - 2)}

\* Keys are empty strings: in a key nothing matters more than in a value.
Key == <<"quote", "quote", "colon">>

\* texts[m] holds the texts of m tokens of each kind; this adds those of n tokens.  What
\* is too long for a place in an object, where braces and a key take five tokens and
\* brackets two more, is left out.
LongerTexts(texts, n) ==
  LET Of(kind, m) == IF m \in 1..(n - 1) THEN texts[m][kind] ELSE {}
      object == {<<"lbrace">> \o l \o <<"rbrace">> : l \in Of("members", n - 2)}
      array == {<<"lbrack">> \o l \o <<"rbrack">> : l \in Of("items", n - 2)}
      scalar == IF n = 1 THEN {<<"x">>} ELSE {}
      hollow == IF n = 2 THEN {<<"lbrace", "rbrace">>, <<"lbrack", "rbrack">>} ELSE {}
      value == IF n <= Longest - 5
               THEN object \cup array \cup String(n) \cup scalar \cup hollow ELSE {}
      Member(m) == {Key \o v : v \in Of("value", m - 3)}
      More(kind, One(_)) ==
        UNION {Concat(Concat(Of(kind, m), {<<"comma">>}), One(n - m - 1)) : m \in 1..(n - 2)}
      items == IF n <= Longest - 7
               THEN value \cup More("items", LAMBDA m : Of("value", m)) ELSE {}
  IN  Append(texts,
        [object  |-> object,
         value   |-> value,
         items   |-> items,
         members |-> Member(n) \cup More("members", Member)])

\* (The shorter texts are bound in a set, not by LET, so that TLC evaluates them once.)
TextsUpTo[n \in 0..Longest] ==
  IF n = 0 THEN <<>>
  ELSE CHOOSE all \in {LongerTexts(shorter, n) : shorter \in {TextsUpTo[n - 1]}} : TRUE

Grammar == TextsUpTo[Longest]

\* Objects that have a member: the fields that validateDiagnosisJSON requires.
Objects == UNION {Grammar[n].object : n \in 1..Longest}

-----------------------------------------------------------------------------
(* The scan that four of the functions repeat *)

Step(at, token) ==
  [inString |-> IF token = "quote" /\ ~at.escaped THEN ~at.inString ELSE at.inString,
   escaped  |-> at.inString /\ token = "back" /\ ~at.escaped]

\* The state of the scan after each token, and before the first.
Scan(t) ==
  LET state[i \in 0..Len(t)] ==
        IF i = 0 THEN [inString |-> FALSE, escaped |-> FALSE]
        ELSE Step(state[i - 1], t[i])
  IN  state

\* The places outside strings that hold one of the tokens.
Outside(t, tokens) ==
  LET state == Scan(t) IN {i \in 1..Len(t) : t[i] \in tokens /\ ~state[i - 1].inString}

\* The tokens of t at these places, in order.
Kept(t, places) ==
  LET kept[i \in 0..Len(t)] ==
        IF i = 0 THEN <<>>
        ELSE IF i \in places THEN Append(kept[i - 1], t[i])
        ELSE kept[i - 1]
  IN  kept[Len(t)]

TrimSpace(t) ==
  LET solid == {i \in 1..Len(t) : t[i] # "space"}
  IN  IF solid = {} THEN <<>>
      ELSE SubSeq(t, Min(solid), Max(solid))

\* White space outside strings means nothing.
Compact(t) == Kept(t, (1..Len(t)) \ Outside(t, {"space"}))

\* parseAndValidate
Parses(t) == Compact(t) \in Objects

-----------------------------------------------------------------------------
(* The repairs *)

\* Slip: a comma in a string is removed as well.
SlipCommas(t) == {i \in 1..Len(t) : t[i] = "comma"}

Commas(t) == Outside(t, {"comma"})

\* fixTrailingComma: a comma goes if only white space is between it and a closer.
FixTrailingComma(t) ==
  LET Trailing(i) == \E j \in (i + 1)..Len(t) :
                        /\ t[j] \in {"rbrace", "rbrack"}
                        /\ \A k \in (i + 1)..(j - 1) : t[k] = "space"
  IN  Kept(t, {i \in 1..Len(t) : i \in Commas(t) => ~Trailing(i)})

\* Slip: brackets in strings count.
SlipBrackets(t) == {i \in 1..Len(t) : t[i] \in {"lbrace", "rbrace", "lbrack", "rbrack"}}

Brackets(t) == Outside(t, {"lbrace", "rbrace", "lbrack", "rbrack"})

Closer(token) == IF token = "lbrace" THEN "rbrace" ELSE "rbrack"

\* balanceBrackets: a closer that fits nothing is passed over.
Read(stack, token) ==
  IF token \in {"lbrace", "lbrack"} THEN <<Closer(token)>> \o stack
  ELSE IF stack # <<>> /\ stack[1] = token THEN Tail(stack)
  ELSE stack

\* The brackets that wait for their closers after each token.
Open(t) ==
  LET brackets == Brackets(t)
      stack[i \in 0..Len(t)] ==
        IF i = 0 THEN <<>>
        ELSE IF i \in brackets THEN Read(stack[i - 1], t[i])
        ELSE stack[i - 1]
  IN  stack

BalanceBrackets(t) == t \o Open(t)[Len(t)]

\* fixUnterminatedString
FixUnterminatedString(t) ==
  LET s == TrimSpace(t)
      open == Scan(s)[Len(s)].inString
  IN  IF s = <<>> THEN s
      ELSE BalanceBrackets(IF open THEN Append(s, "quote") ELSE s)

Fixed(t) == FixUnterminatedString(FixTrailingComma(t))

-----------------------------------------------------------------------------
(* Where the object is *)

Fences == {"json", "fence"}

\* extractJSONBlock: the text from the first opening fence to the next fence, if both
\* are there; one that opens without the language counts only with an object after it.
ExtractJSONBlock(raw) ==
  LET Block(openers) ==
        LET open == SelectInSeq(raw, LAMBDA c : c \in openers)
            ends == {i \in (open + 1)..Len(raw) : raw[i] \in Fences}
        IN  IF open = 0 \/ ends = {} THEN <<>>
            ELSE << TrimSpace(SubSeq(raw, open + 1, Min(ends) - 1)) >>
      tagged == Block({"json"})
      plain == Block(Fences)
  IN  IF tagged # <<>> THEN tagged[1]
      ELSE IF plain # <<>> /\ plain[1] # <<>> /\ plain[1][1] = "lbrace" THEN plain[1]
      ELSE TrimSpace(raw)

\* Slip: braces in strings count.
SlipBraces(t) == {i \in 1..Len(t) : t[i] \in {"lbrace", "rbrace"}}

Braces(t) == Outside(t, {"lbrace", "rbrace"})

\* The braces that are open after each token.
Depth(t) ==
  LET braces == Braces(t)
      depth[i \in 0..Len(t)] ==
        IF i = 0 THEN 0
        ELSE IF i \notin braces THEN depth[i - 1]
        ELSE IF t[i] = "lbrace" THEN depth[i - 1] + 1
        ELSE depth[i - 1] - 1
  IN  depth

\* extractJSONObject: from the first brace to the one that closes it, or to the end.
ExtractJSONObject(raw) ==
  LET start == SelectInSeq(raw, LAMBDA c : c = "lbrace")
      t == SubSeq(raw, start, Len(raw))
      depth == Depth(t)
      ends == {i \in Braces(t) : depth[i] = 0}
  IN  IF start = 0 THEN <<>>
      ELSE IF ends = {} THEN t
      ELSE SubSeq(t, 1, Min(ends))

\* What ParseDiagnosisJSON tries, in this order.  (Repairing the same text twice, which
\* the code avoids, changes nothing.)
Attempts(raw) ==
  LET t == ExtractJSONBlock(raw) IN <<t, Fixed(t), Fixed(ExtractJSONObject(raw))>>

\* ParseDiagnosisJSON: the object that was read.
ParseDiagnosisJSON(raw) ==
  LET attempts == Attempts(raw)
      n == SelectInSeq(attempts, Parses)
  IN  IF n = 0 THEN Error ELSE Compact(attempts[n])
=============================================================================

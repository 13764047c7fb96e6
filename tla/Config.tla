------------------------------- MODULE Config -------------------------------
(***************************************************************************)
(* roos-core/src/config.rs: RoosConfig::from_file reads roos.toml, puts    *)
(* the values of environment variables in the place of ${NAME} and parses  *)
(* the result.  Texts are sequences of characters of a small alphabet.  A  *)
(* step of the model is one placeholder of interpolate_env_vars.           *)
(***************************************************************************)
EXTENDS Naturals, Sequences, FiniteSetsExt

CONSTANTS
    FileTexts,      \* what roos.toml may contain
    Environment,    \* the environment: a function from names to values
    ProviderTypes   \* what [provider] type may say

ASSUME FileTextsAssumption == FileTexts \subseteq Seq(STRING)
ASSUME EnvironmentAssumption ==
    \A name \in DOMAIN Environment : Environment[name] \in Seq(STRING)

VARIABLES
    text,       \* the text of the file
    rest,       \* what of it interpolate_env_vars has not looked at
    out,        \* what it has written so far
    loaded,     \* where RoosConfig::from_file is, or what it returned
    config      \* the provider type of the configuration it returned

configVars == <<text, rest, out, loaded, config>>

At(kind, at, name) == [kind |-> kind, at |-> at, name |-> name]
Plain(kind) == At(kind, 0, <<>>)

ConfigErrors == {"Io", "Parse", "MissingEnvVar", "MalformedPlaceholder"}

ConfigInit ==
    /\ text = <<>> /\ rest = <<>> /\ out = <<>>
    /\ loaded = Plain("none")
    /\ config = "none"

\* The index of the first "${" of s, and of the first "}", if there is one.
Opens(s) == {i \in 1 .. Len(s) - 1 : s[i] = "$" /\ s[i + 1] = "{"}
Closes(s) == {i \in 1 .. Len(s) : s[i] = "}"}
From(s, i) == SubSeq(s, i, Len(s))

ReadToml ==
    /\ loaded.kind = "none"
    /\ \/ loaded' = Plain("Io") /\ UNCHANGED <<text, rest>>
       \/ \E t \in FileTexts :
             /\ text' = t /\ rest' = t
             /\ loaded' = Plain("expanding")
    /\ UNCHANGED <<out, config>>

\* Where a placeholder stands in the file: rest is the end of text.
MalformedAtInRest(start) == start - 1
MalformedAt(start) == Len(text) - Len(rest) + start - 1

\* The value is written and the text goes on behind the "}"; the value itself is not
\* looked at again.
AfterValueExpandedAgain(value, behind) ==
    /\ out' = out \o SubSeq(rest, 1, Min(Opens(rest)) - 1)
    /\ rest' = value \o behind

AfterValue(value, behind) ==
    /\ out' = out \o SubSeq(rest, 1, Min(Opens(rest)) - 1) \o value
    /\ rest' = behind

Expand ==
    /\ loaded.kind = "expanding"
    /\ Opens(rest) # {}
    /\ LET start == Min(Opens(rest))
           after == From(rest, start + 2)
           name == SubSeq(after, 1, Min(Closes(after)) - 1)
       IN  \/ /\ Closes(after) = {}
              /\ loaded' = At("MalformedPlaceholder", MalformedAt(start), <<>>)
              /\ UNCHANGED <<rest, out>>
           \/ /\ Closes(after) # {}
              /\ name \notin DOMAIN Environment
              /\ loaded' = At("MissingEnvVar", 0, name)
              /\ UNCHANGED <<rest, out>>
           \/ /\ Closes(after) # {}
              /\ name \in DOMAIN Environment
              /\ AfterValue(Environment[name], From(after, Min(Closes(after)) + 1))
              /\ UNCHANGED loaded
    /\ UNCHANGED <<text, config>>

NoMorePlaceholders ==
    /\ loaded.kind = "expanding"
    /\ Opens(rest) = {}
    /\ out' = out \o rest
    /\ rest' = <<>>
    /\ loaded' = Plain("expanded")
    /\ UNCHANGED <<text, config>>

\* toml::from_str: an error, or a configuration; its texts are gone.
ParseToml ==
    /\ loaded.kind = "expanded"
    /\ text' = <<>> /\ out' = <<>>
    /\ \/ loaded' = Plain("Parse") /\ UNCHANGED config
       \/ loaded' = Plain("Ok") /\ config' \in ProviderTypes
    /\ UNCHANGED rest

LoadConfig == ReadToml \/ Expand \/ NoMorePlaceholders \/ ParseToml

-----------------------------------------------------------------------------
(* Properties *)

\* A result, with what was written when it came.
Wrote(result, written) ==
    [kind |-> result.kind, at |-> result.at, name |-> result.name, out |-> written]

Prefixed(front, meaning) ==
    IF meaning.kind = "expanded" THEN [meaning EXCEPT !.out = front \o @] ELSE meaning

\* What the last k characters of s mean, read one by one, if m says it of fewer.
MeaningOf(s, m, k) ==
    LET i == Len(s) - k + 1
        closes == {j \in Closes(s) : i + 2 <= j}
        name == SubSeq(s, i + 2, Min(closes) - 1)
    IN  IF k = 0 THEN Wrote(Plain("expanded"), <<>>)
        ELSE IF i \notin Opens(s) THEN Prefixed(<<s[i]>>, m[k - 1])
        ELSE IF closes = {} THEN Wrote(At("MalformedPlaceholder", i - 1, <<>>), <<>>)
        ELSE IF name \notin DOMAIN Environment THEN Wrote(At("MissingEnvVar", 0, name), <<>>)
        ELSE Prefixed(Environment[name], m[Len(s) - Min(closes)])

Meanings(s) == LET m[k \in 0 .. Len(s)] == MeaningOf(s, m, k) IN m
Meaning(s) == Meanings(s)[Len(s)]

\* Every placeholder is replaced once, by its variable's value as it is, even if the
\* value holds a placeholder itself; the first one that cannot be replaced is the one
\* reported, and `at` is its place in the file (config.rs:112-134).
InterpolationExact ==
    /\ loaded.kind = "expanded" => Wrote(loaded, out) = Meaning(text)
    /\ loaded.kind \in {"MissingEnvVar", "MalformedPlaceholder"} =>
          Wrote(loaded, <<>>) = Meaning(text)

\* A placeholder that is opened at i and not closed, or closed by the "}" at j.
OpenAt(i) == i \in Opens(text) /\ \A k \in i + 2 .. Len(text) : k \notin Closes(text)

NamedBetween(name, i, j) ==
    /\ i \in Opens(text) /\ j \in Closes(text) /\ i + 2 <= j
    /\ name = SubSeq(text, i + 2, j - 1)
    /\ \A k \in i + 2 .. j - 1 : k \notin Closes(text)

\* An error points into the file it is about, however much of it was replaced before:
\* what is reported as not closed stands there with no "}" behind it, and a name that is
\* reported as missing stands between "${" and the next "}" (config.rs:112-134).
ErrorsPointIntoFile ==
    /\ loaded.kind = "MalformedPlaceholder" => OpenAt(loaded.at + 1)
    /\ loaded.kind = "MissingEnvVar" =>
          /\ loaded.name \notin DOMAIN Environment
          /\ \E i, j \in 1 .. Len(text) : NamedBetween(loaded.name, i, j)

=============================================================================

----------------------------- MODULE OptionValues -----------------------------
(***************************************************************************)
(* The options the program declares (ConfigParser.cpp:17-44) and what      *)
(* cxxopts makes of the text given for one of them (cxxopts.hpp:765-1105). *)
(*                                                                         *)
(* A text is split where the parsers split it: it is a sequence of pieces  *)
(* between commas, a piece a sequence of words between blanks.  How a word *)
(* reads as a number is a parameter: SizeText by integer_parser(), which   *)
(* knows no sign for a size_t and takes 0x, StoulText by std::stoul(),     *)
(* which takes a sign and stops at the first character that is no digit,   *)
(* DoubleText by operator>>.                                               *)
(***************************************************************************)
EXTENDS Integers, Sequences

CONSTANTS
  Words,
  SizeMax,                        \* the greatest size_t
  SizeText, StoulText, DoubleText \* functions from words to numbers

ASSUME OptionValuesAssumption ==
  /\ SizeMax \in Nat
  /\ \A w \in DOMAIN SizeText : SizeText[w] \in Nat
  /\ \A w \in DOMAIN StoulText : StoulText[w] \in Int

SizeMod == SizeMax + 1

Word(w) == << <<w>> >>
EmptyPiece == <<"">>

SizeOptions == {"buffer-size", "running-time", "sample-rate", "num-tiers",
                "hot-threshold", "cold-threshold", "hot-count", "cold-count",
                "scan-interval"}
DoubleOptions == {"zipfs", "ratio", "recency-weight", "frequency-weight"}
TextOptions == {"output", "periodic-output", "policy-type"}
TextListOptions == {"client-tier-sizes", "patterns"}
SizeListOptions == {"mem-sizes"}
FlagOptions == {"cache-ring", "help"}
ListOptions == TextListOptions \cup SizeListOptions
Options == SizeOptions \cup DoubleOptions \cup TextOptions \cup ListOptions
             \cup FlagOptions

\* The names of one letter.
ShortName == [b |-> "buffer-size", c |-> "client-tier-sizes", o |-> "output",
              p |-> "patterns", r |-> "ratio", s |-> "mem-sizes",
              t |-> "num-tiers", h |-> "help"]

\* default_value(); a flag has one without saying so.  There is none for the
\* running time and for the lists.
DefaultWord(o) ==
  CASE o \in {"buffer-size", "sample-rate", "hot-count"} -> "10"
    [] o = "num-tiers" -> "3"
    [] o = "cold-count" -> "2"
    [] o = "scan-interval" -> "30"
    [] o = "hot-threshold" -> "100"
    [] o = "cold-threshold" -> "1000"
    [] o \in {"zipfs", "ratio"} -> "1.0"
    [] o \in {"recency-weight", "frequency-weight"} -> "0.5"
    [] o = "policy-type" -> "lru"
    [] o = "output" -> "result/latency.csv"
    [] o = "periodic-output" -> "result/periodic_metrics.csv"
    [] OTHER -> "false"
Default == [o \in Options \ (ListOptions \cup {"running-time"}) |-> Word(DefaultWord(o))]

Pieces == Seq(Words) \ {<<>>}
Texts == Seq(Pieces) \ {<<>>}

\* has_implicit(), get_implicit_value(): a flag needs no text.
HasImplicit(o) == o \in FlagOptions
ImplicitText == Word("true")

\* std::getline() until the stream ends: what follows the last delimiter is an
\* item only if it is not empty.
Items(s, empty) == IF s[Len(s)] = empty THEN SubSeq(s, 1, Len(s) - 1) ELSE s

\* The elements of a list.
Elements(text) == IF text = <<EmptyPiece>> THEN text ELSE Items(text, EmptyPiece)

TrueTexts == {Word("t"), Word("T"), Word("true"), Word("True"), Word("1")}
FalseTexts == {Word("f"), Word("F"), Word("false"), Word("False"), Word("0")}

IsInteger(piece) == Len(piece) = 1 /\ piece[1] \in DOMAIN SizeText
ReadsSize(piece) == IsInteger(piece) /\ SizeText[piece[1]] <= SizeMax

\* operator>> skips blanks and reads one word.
DoubleWord(text) == SelectSeq(text[1], LAMBDA w : w # "")

\* parse_value() does not throw.
Reads(o, text) ==
  CASE o \in SizeOptions -> Len(text) = 1 /\ ReadsSize(text[1])
    [] o \in DoubleOptions -> DoubleWord(text) # <<>> /\ DoubleWord(text)[1] \in DOMAIN DoubleText
    [] o \in FlagOptions -> text \in TrueTexts \cup FalseTexts
    [] o \in SizeListOptions -> \A i \in DOMAIN Elements(text) : ReadsSize(Elements(text)[i])
    [] OTHER -> TRUE

\* The program can read its own defaults.
ASSUME DefaultsAssumption ==
  /\ {"", "true"} \subseteq Words
  /\ \A o \in DOMAIN Default : DefaultWord(o) \in Words /\ Reads(o, Default[o])

\* The value after parse_value(): a list grows, any other value is replaced.
Value(o, old, text) ==
  CASE o \in SizeOptions -> SizeText[text[1][1]]
    [] o \in DoubleOptions -> DoubleText[DoubleWord(text)[1]]
    [] o \in FlagOptions -> text \in TrueTexts
    [] o \in TextOptions -> text
    [] o \in TextListOptions -> old \o Elements(text)
    [] o \in SizeListOptions ->
         old \o [i \in DOMAIN Elements(text) |-> SizeText[Elements(text)[i][1]]]

\* std::stoul(), which wraps a negative number.
StoulReads(w) == w \in DOMAIN StoulText /\ StoulText[w] \in -SizeMax .. SizeMax

\* Mutant: the sign is kept.
StoulSigned(w) == StoulText[w]

Stoul(w) == StoulText[w] % SizeMod

=============================================================================

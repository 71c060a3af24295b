----------------------------- MODULE CommandLine -----------------------------
(***************************************************************************)
(* OptionParser::parse() of cxxopts (cxxopts.hpp:2360-2688) on the options *)
(* of OptionValues: one step for an element of argv, or for a letter of a  *)
(* group of them.                                                          *)
(*                                                                         *)
(* An element of argv is what ParseArgument() makes of it: "long" is       *)
(* --name or --name=value, "group" is -letters, where rest[i] is the text  *)
(* behind the i-th letter, "dashdash" is --, "malformed" begins with a     *)
(* dash and is none of these, "plain" is anything else.  text is the whole *)
(* element, for when it is taken as the value of the option before it.     *)
(***************************************************************************)
EXTENDS OptionValues

Lists == INSTANCE SequencesExt

CONSTANTS
  Spellings,  \* command lines as sequences of settings, see Spelled
  OtherArgvs  \* and as they come

VARIABLES
  argv,      \* without the program's name
  current,   \* the next element
  letter,    \* the next letter of the group
  stored,    \* m_parsed: the values of the options that have one
  count,     \* how often each option was given
  unmatched,
  stage      \* how far the program has come

parserVars == <<argv, current, letter, stored, count, unmatched>>

NoText == <<>>
Element(kind, name, value, letters, rest, text) ==
  [kind |-> kind, name |-> name, value |-> value, letters |-> letters,
   rest |-> rest, text |-> text]
Long(name, value) == Element("long", name, value, <<>>, <<>>, Word("--" \o name))
Group(letters, rest) == Element("group", "", NoText, letters, rest, Word("-x"))
Plain(text) == Element("plain", "", NoText, <<>>, <<>>, text)
Malformed == Element("malformed", "", NoText, <<>>, <<>>, Word("--x"))
DashDash == Element("dashdash", "", NoText, <<>>, <<>>, Word("--"))

\* The ways to give an option a text; flag is --name without one.  A letter
\* stands for some options only, and a flag takes no text but behind a =.
Settings ==
  {s \in [option : Options, style : {"equals", "next", "short", "rest", "flag"}, text : Texts] :
     /\ s.style \in {"short", "rest"} => \E l \in DOMAIN ShortName : ShortName[l] = s.option
     /\ s.style \in {"next", "short", "rest"} => ~HasImplicit(s.option)
     /\ s.style = "flag" => HasImplicit(s.option) /\ s.text = ImplicitText}

Spell(setting) ==
  LET letterOf == CHOOSE l \in DOMAIN ShortName : ShortName[l] = setting.option
  IN  CASE setting.style = "equals" -> <<Long(setting.option, setting.text)>>
        [] setting.style = "next" -> <<Long(setting.option, NoText), Plain(setting.text)>>
        [] setting.style = "short" -> <<Group(<<letterOf>>, <<>>), Plain(setting.text)>>
        [] setting.style = "rest" -> <<Group(<<letterOf, "x">>, <<setting.text>>)>>
        [] OTHER -> <<Long(setting.option, NoText)>>

Spelled(settings) ==
  Lists!FlattenSeq([i \in DOMAIN settings |-> Spell(settings[i])])

ArgElements ==
  {e \in [kind : {"long", "group", "dashdash", "malformed", "plain"}, name : Words,
          value : Texts \cup {NoText}, letters : Seq(Words), rest : Seq(Texts),
          text : Texts] :
     e.kind = "group" => Len(e.letters) > 0 /\ Len(e.rest) = Len(e.letters) - 1}

Argvs == {Spelled(s) : s \in Spellings} \cup OtherArgvs

ASSUME CommandLineAssumption ==
  Spellings \subseteq Seq(Settings) /\ Argvs \subseteq Seq(ArgElements)

ParserInit ==
  /\ argv \in Argvs
  /\ current = 1 /\ letter = 1
  /\ stored = [o \in {} |-> <<>>]
  /\ count = [o \in Options |-> 0]
  /\ unmatched = <<>>
  /\ stage = "args"

Arg == argv[current]
ArgIs(kind) == stage = "args" /\ current <= Len(argv) /\ Arg.kind = kind

\* m_options knows an option by its long and its short name.
Known(name) == name \in Options \cup DOMAIN ShortName
OptionOf(name) == IF name \in Options THEN name ELSE ShortName[name]

\* An exception that nobody catches.
Throw == stage' = "threw" /\ UNCHANGED parserVars

Old(o) == IF o \in DOMAIN stored THEN stored[o] ELSE <<>>
Put(o, value) == [x \in DOMAIN stored \cup {o} |-> IF x = o THEN value ELSE stored[x]]

ParseOption(o, text, nextArg, nextLetter) ==
  IF ~Reads(o, text) THEN Throw
  ELSE /\ stored' = Put(o, Value(o, Old(o), text))
       /\ count' = [count EXCEPT ![o] = @ + 1]
       /\ current' = nextArg /\ letter' = nextLetter
       /\ UNCHANGED <<argv, unmatched, stage>>

\* Mutant: the element that was taken as a value is read again.
CheckedRereading(o) ==
  IF HasImplicit(o) THEN ParseOption(o, ImplicitText, current + 1, 1)
  ELSE IF current = Len(argv) THEN Throw
  ELSE ParseOption(o, argv[current + 1].text, current + 1, 1)

\* checked_parse_arg(): the next element is the value, whatever it looks like,
\* but never that of a flag.
CheckedParseArg(o) ==
  IF HasImplicit(o) THEN ParseOption(o, ImplicitText, current + 1, 1)
  ELSE IF current = Len(argv) THEN Throw
  ELSE ParseOption(o, argv[current + 1].text, current + 2, 1)

LongOption ==
  /\ ArgIs("long")
  /\ IF ~Known(Arg.name) THEN Throw
     ELSE IF Arg.value # NoText
     THEN ParseOption(OptionOf(Arg.name), Arg.value, current + 1, 1)
     ELSE CheckedParseArg(OptionOf(Arg.name))

\* A letter in the middle of a group is a flag, or takes the rest as its value.
GroupLetter ==
  /\ ArgIs("group")
  /\ IF ~Known(Arg.letters[letter]) THEN Throw
     ELSE LET o == OptionOf(Arg.letters[letter])
          IN  IF letter = Len(Arg.letters) THEN CheckedParseArg(o)
              ELSE IF HasImplicit(o) THEN ParseOption(o, ImplicitText, current, letter + 1)
              ELSE ParseOption(o, Arg.rest[letter], current + 1, 1)

\* The program has no positional options: consume_positional() takes nothing.
PlainArgument ==
  /\ ArgIs("plain")
  /\ unmatched' = Append(unmatched, Arg.text)
  /\ current' = current + 1
  /\ UNCHANGED <<argv, letter, stored, count, stage>>

MalformedArgument == ArgIs("malformed") /\ Throw

EndOfOptions ==
  /\ ArgIs("dashdash")
  /\ unmatched' = unmatched \o [i \in 1 .. Len(argv) - current |-> argv[current + i].text]
  /\ current' = Len(argv) + 1
  /\ UNCHANGED <<argv, letter, stored, count, stage>>

\* parse_default() for the options that were not given.
ParseDefaults ==
  /\ stage = "args" /\ current > Len(argv)
  /\ stored' = [o \in DOMAIN stored \cup DOMAIN Default |->
                  IF o \in DOMAIN stored THEN stored[o] ELSE Value(o, <<>>, Default[o])]
  /\ stage' = "parsed"
  /\ UNCHANGED <<argv, current, letter, count, unmatched>>

ParserNext ==
  LongOption \/ GroupLetter \/ PlainArgument \/ MalformedArgument \/ EndOfOptions
    \/ ParseDefaults

-----------------------------------------------------------------------------
(* Properties                                                              *)

\* What the settings mean: an option has the text it was given last, a list the
\* elements of all its texts, and the default stands in where nothing was given.
LastText(settings, o) ==
  settings[Lists!Max({i \in DOMAIN settings : settings[i].option = o})].text
Joined(settings, o) ==
  Lists!FlattenSeq([i \in DOMAIN settings |->
                      IF settings[i].option = o THEN Value(o, <<>>, settings[i].text) ELSE <<>>])
OptionsIn(settings) == {settings[i].option : i \in DOMAIN settings}
Meaning(settings) ==
  [o \in OptionsIn(settings) \cup DOMAIN Default |->
     IF o \notin OptionsIn(settings) THEN Value(o, <<>>, Default[o])
     ELSE IF o \in ListOptions THEN Joined(settings, o)
     ELSE Value(o, <<>>, LastText(settings, o))]

\* However the settings are spelled, the options mean the same, and nothing is
\* thrown if every text can be read (cxxopts.hpp:2378-2428, 2503-2671).
SpellingIrrelevant ==
  \A settings \in Spellings :
    argv = Spelled(settings) =>
      /\ stage = "parsed" => stored = Meaning(settings) /\ unmatched = <<>>
      /\ stage = "threw" /\ current <= Len(argv) =>
           \E i \in DOMAIN settings : ~Reads(settings[i].option, settings[i].text)

=============================================================================

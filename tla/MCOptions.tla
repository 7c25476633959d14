------------------------------ MODULE MCOptions ------------------------------
(***************************************************************************)
(* The option parser on command lines and on files, and the completion of  *)
(* command lines, on one set of options: a flag, one with an argument, one *)
(* with an optional argument, each short and long, and another flag whose  *)
(* name begins like the first one's.                                       *)
(***************************************************************************)
EXTENDS ParseFile

VARIABLE call  \* what is called: parse_file, or parse_argv and complete_args

optionsVars == <<fileVars, argVars, call>>

NoText == /\ doc = <<>> /\ text = <<>> /\ pos = 1 /\ optarg = <<>> /\ escape = FALSE
          /\ last_escaped = FALSE /\ read = <<>> /\ errline = 0 /\ filepc = "done"
NoArgs == line = <<>> /\ todo = <<>> /\ applied = <<>> /\ printed = {} /\ argpc = "none"

OptionsInit == \/ call = "parse_file" /\ FileInit /\ NoArgs
               \/ call = "parse_argv" /\ ArgInit /\ NoText
OptionsNext == \/ call = "parse_file" /\ FileNext /\ UNCHANGED <<argVars, call>>
               \/ call = "parse_argv" /\ ArgNext /\ UNCHANGED <<fileVars, call>>
OptionsSpec == OptionsInit /\ [][OptionsNext]_optionsVars

-----------------------------------------------------------------------------
MCHasArg ==
  [o \in {<<"-", "a">>, <<"-", "-", "a">>, <<"-", "-", "a", "b">>,
          <<"-", "b">>, <<"-", "-", "b">>, <<"-", "c">>, <<"-", "-", "c">>} |->
     CASE Last(o) = "c" -> "opt"
       [] Last(o) = "b" /\ o # <<"-", "-", "a", "b">> -> "arg"
       [] OTHER -> "no"]

\* Files: one option with each argument of two tokens and each layout, and
\* two entries of all kinds.
Tokens == {"x", "t", " ", "\\", "\n", "$", "#", "ref"}
Eols == {<<"\n">>, <<"\r", "\n">>}
Option(name, given, val, sep, cont, indent, trail) ==
  [kind |-> "option", name |-> name, given |-> given, val |-> val, sep |-> sep,
   cont |-> cont, indent |-> indent, trail |-> trail, manual |-> FALSE]
\* Blanks after an argument that ends in an escaped blank would take that
\* with them (options.cc:63-65).
Writable(e) ==
  /\ e.cont <= Len(e.val)
  /\ e.trail # <<>> /\ e.val # <<>> /\ e.cont < Len(e.val) => Last(e.val) \notin wsnl
  /\ e.val = <<>> => e.sep = <<"=">>
OneOption ==
  {e \in {Option(<<"b">>, TRUE, val, sep, cont, <<>>, trail) :
            val \in BoundedSeq(Tokens, 2), sep \in {<<"=">>, <<" ">>, <<"\t", "=">>},
            cont \in 0 .. 2, trail \in {<<>>, <<" ", "\t">>}} : Writable(e)}
Simple ==
  {Option(name, FALSE, <<>>, <<>>, 0, indent, trail) :
     name \in {<<"a">>, <<"a", "b">>, <<"b">>, <<"c">>, <<"z">>},
     indent \in {<<>>, <<" ">>}, trail \in {<<>>, <<" ">>}}
  \cup {Option(name, TRUE, <<"x">>, <<" ">>, cont, <<>>, <<>>) :
          name \in {<<"a">>, <<"b">>, <<"c">>, <<"z">>}, cont \in 0 .. 1}
  \cup {Option(<<>>, TRUE, <<"x">>, <<"=">>, 0, <<>>, <<>>)}  \* a line that begins with =
Others == {[kind |-> "blank", chars |-> chars] : chars \in {<<>>, <<" ">>}}
            \cup {[kind |-> "comment", chars |-> <<"#", "b", " ", "x", "\\">>]}
Ended(e, eol) == [eol |-> eol] @@ e
MCDocs ==
  {<<Ended(e, eol)>> : e \in OneOption, eol \in Eols \cup {<<>>}}
  \cup {<<Ended(e, eol1), Ended(f, eol2)>> :
          e \in Simple \cup Others, f \in Simple \cup Others,
          eol1 \in Eols, eol2 \in Eols \cup {<<>>}}
\* Files whose author goes by the manual page.
ManualDocs ==
  {<<[Ended(Option(<<"b">>, TRUE, val, <<" ">>, 0, <<>>, <<>>), <<"\n">>) EXCEPT !.manual = TRUE]>> :
     val \in {<<"x">>, <<"ref">>, <<"\\">>, <<"\\", "x">>, <<"$">>, <<"$", "{", "V", "}">>}}
NoLines == {}
MCEnviron == [v \in {<<"V">>} |-> <<"$", "{", "V", "}", "\\">>]

\* Command lines: two spelled options, and the rest.
Spelled(words, opts, mistake) == [words |-> words, opts |-> opts, mistake |-> mistake]
a == <<"-", "a">>
aa == <<"-", "-", "a">>
Arguments == {<<"x">>, <<"-", "a">>, <<"-", "-">>, <<"=">>, <<>>}
Spellings ==
  {Spelled(<<a>>, <<<<a, <<>>>>>>, FALSE), Spelled(<<aa>>, <<<<aa, <<>>>>>>, FALSE),
   Spelled(<<a \o <<"a">>>>, <<<<a, <<>>>>, <<a, <<>>>>>>, FALSE),
   Spelled(<<a \o <<"z">>>>, <<<<a, <<>>>>>>, TRUE), Spelled(<<aa \o <<"=">>>>, <<>>, TRUE),
   Spelled(<<Dashes \o <<"z">>>>, <<>>, TRUE)}
  \cup {Spelled(<<o>>, <<<<o, <<>>>>>>, FALSE) : o \in {<<"-", "c">>, Dashes \o <<"c">>}}
  \cup {Spelled(<<o \o <<"=">> \o v>>, <<<<o, v>>>>, FALSE) :
          o \in {Dashes \o <<"b">>, Dashes \o <<"c">>}, v \in Arguments}
  \cup {Spelled(<<o \o v>>, <<<<o, v>>>>, FALSE) :
          o \in {<<"-", "b">>, <<"-", "c">>}, v \in Arguments \ {<<>>}}
  \cup {Spelled(<<o, v>>, <<<<o, v>>>>, FALSE) :
          o \in {<<"-", "b">>, Dashes \o <<"b">>}, v \in Arguments}
  \cup {Spelled(<<a \o <<"b">>, v>>, <<<<a, <<>>>>, <<<<"-", "b">>, v>>>>, FALSE) : v \in Arguments}
Rests ==
  {[words |-> <<>>, rest |-> <<>>], [words |-> <<Dashes>>, rest |-> <<>>],
   [words |-> <<Dashes, a>>, rest |-> <<a>>]}
  \cup {[words |-> w, rest |-> w] : w \in {<<<<"x">>>>, <<Dash>>, <<<<>>>>, <<<<"x">>, a>>}}
MCArgLines ==
  {[words |-> s.words \o t.words \o r.words,
    opts |-> s.opts \o IF s.mistake THEN <<>> ELSE t.opts,
    mistake |-> s.mistake \/ t.mistake,
    rest |-> r.rest] : s \in Spellings, t \in Spellings, r \in Rests}
  \cup {[words |-> <<a, o>>, opts |-> <<<<a, <<>>>>>>, mistake |-> TRUE, rest |-> <<>>] :
          o \in {<<"-", "b">>, Dashes \o <<"b">>}}

\* Lines to complete: every last word of three characters after up to two
\* others.
Letters == {"-", "=", "a", "b", "c", "z"}
Before == {a, aa, <<"-", "b">>, <<"-", "c">>, Dashes \o <<"b">>, Dashes, Dash, <<"x">>, <<"-", "z">>}
LastWords == BoundedSeq(Letters, 3)
               \cup {Dashes \o w : w \in {<<"a", "b">>, <<"a", "=">>, <<"b", "=">>, <<"c", "=">>,
                                          <<"b", "=", "a">>, <<"c", "=", "a">>, <<"z", "=">>}}
MCTypedLines ==
  {[words |-> Append(before, w)] : before \in BoundedSeq(Before, 2), w \in LastWords}
MCCandidates ==
  [o \in DOMAIN MCHasArg |->
     IF MCHasArg[o] = "no" THEN {}
     ELSE {[word |-> <<"a">>, end |-> " "], [word |-> <<"a", "b">>, end |-> "/"],
           [word |-> <<"-", "a">>, end |-> " "], [word |-> <<"=">>, end |-> "="]}]
MCMore == BoundedSeq(Letters, 2)
=============================================================================

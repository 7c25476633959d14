------------------------------ MODULE ParseFile ------------------------------
(***************************************************************************)
(* The option parser on configuration files: Options::parse_file           *)
(* (options.cc), and var_expand (jai.h).  A text is a sequence of          *)
(* characters.                                                             *)
(***************************************************************************)
EXTENDS Options

CONSTANTS
  Docs,    \* files, as sequences of entries (see Written)
  Environ, \* from the names of variables to their values
  npos     \* what a search returns that finds nothing: the largest size_t

VARIABLES
  doc,        \* the file as its author thinks of it
  text,       \* the file as it is on disk
  pos,        \* how far it is parsed
  optarg,     \* the option that is being read
  escape, last_escaped,
  read,       \* the options acted on, with their arguments
  errline,    \* the line that an error names
  filepc

fileVars == <<doc, text, pos, optarg, escape, last_escaped, read, errline, filepc>>

ws == {" ", "\t", "\r"}
wsnl == ws \cup {"\n"}

\* find_first_not_of and find_first_of.
FirstNotOf(S, from) ==
  LET i == SelectInSubSeq(text, from, Len(text), LAMBDA c : c \notin S)
  IN IF i = 0 THEN npos ELSE i
FirstOf(S, from) ==
  LET i == SelectInSubSeq(text, from, Len(text), LAMBDA c : c \in S)
  IN IF i = 0 THEN npos ELSE i
AtEnd(p) == p > Len(text)
End == Len(text) + 1

clamp_Dropped(p) == p
clamp(p) == IF p < End THEN p ELSE End
\* substr, from one position to before another: never beyond the end.
substr(from, to) == SubSeq(text, from, IF to < End THEN to - 1 ELSE Len(text))

-----------------------------------------------------------------------------
(***************************************************************************)
(* The outer loop: blank space and comments, then the name of an option.   *)
(***************************************************************************)
EndOfText ==
  /\ filepc = "line" /\ AtEnd(FirstNotOf(wsnl, pos))
  /\ pos' = IF AtEnd(pos) THEN pos ELSE npos
  /\ filepc' = "done"
  /\ UNCHANGED <<doc, text, optarg, escape, last_escaped, read, errline>>

Comment_FromStart ==
  LET p == FirstNotOf(wsnl, pos)
  IN /\ filepc = "line" /\ ~AtEnd(p) /\ text[p] = "#"
     /\ pos' = FirstOf({"\n"}, 1)
     /\ UNCHANGED <<doc, text, optarg, escape, last_escaped, read, errline, filepc>>

Comment ==
  LET p == FirstNotOf(wsnl, pos)
  IN /\ filepc = "line" /\ ~AtEnd(p) /\ text[p] = "#"
     /\ pos' = FirstOf({"\n"}, p)
     /\ UNCHANGED <<doc, text, optarg, escape, last_escaped, read, errline, filepc>>

Name ==
  LET p == FirstNotOf(wsnl, pos)
      optend == clamp(FirstOf(wsnl \cup {"="}, p))
      q == FirstNotOf(ws, optend)
      bare == AtEnd(q) \/ text[q] = "\n"
  IN /\ filepc = "line" /\ ~AtEnd(p) /\ text[p] # "#"
     /\ optarg' = Dashes \o substr(p, optend)
                    \o IF bare \/ text[q] = "=" THEN <<>> ELSE <<"=">>
     /\ pos' = q
     /\ escape' = FALSE /\ last_escaped' = FALSE
     /\ filepc' = IF bare THEN "parse" ELSE "value"
     /\ UNCHANGED <<doc, text, read, errline>>

-----------------------------------------------------------------------------
(***************************************************************************)
(* The inner loop: the argument, up to a newline that is not escaped.      *)
(***************************************************************************)
InValue == filepc = "value" /\ ~AtEnd(pos) /\ (escape \/ text[pos] # "\n")

CarriageReturn ==
  /\ InValue /\ text[pos] = "\r"
  /\ pos' = pos + 1
  /\ UNCHANGED <<doc, text, optarg, escape, last_escaped, read, errline, filepc>>

Plain ==
  /\ InValue /\ ~escape /\ text[pos] # "\r"
  /\ last_escaped' = FALSE
  /\ escape' = (text[pos] = "\\")
  /\ optarg' = IF text[pos] = "\\" THEN optarg ELSE Append(optarg, text[pos])
  /\ pos' = pos + 1
  /\ UNCHANGED <<doc, text, read, errline, filepc>>

Unescaped(c) ==
  CASE c = "t" -> "\t"
    [] c = "r" -> "\r"
    [] c = "n" -> "\n"
    [] c \notin {"t", "r", "n"} -> c

Escaped ==
  /\ InValue /\ escape /\ text[pos] \notin {"\r", "\n"}
  /\ escape' = FALSE /\ last_escaped' = TRUE
  /\ optarg' = Append(optarg, Unescaped(text[pos]))
  /\ pos' = pos + 1
  /\ UNCHANGED <<doc, text, read, errline, filepc>>

\* The indentation of the line that continues this one is skipped, and the
\* loop goes on behind that: two positions after a text that ends there.
Continuation ==
  /\ InValue /\ escape /\ text[pos] = "\n"
  /\ escape' = FALSE /\ last_escaped' = TRUE
  /\ pos' = clamp(FirstNotOf(ws, pos + 1) - 1) + 1
  /\ UNCHANGED <<doc, text, optarg, read, errline, filepc>>

Trimmed(s) == SubSeq(s, 1, SelectLastInSeq(s, LAMBDA c : c \notin wsnl))

EndOfValue ==
  /\ filepc = "value" /\ ~InValue
  /\ optarg' = IF last_escaped THEN optarg ELSE Trimmed(optarg)
  /\ filepc' = "parse"
  /\ UNCHANGED <<doc, text, pos, escape, last_escaped, read, errline>>

-----------------------------------------------------------------------------
(***************************************************************************)
(* parse_argspan with optarg as its only word.  The option's action may    *)
(* refuse the argument.                                                    *)
(***************************************************************************)
OptionRead == Last(scan_args(<<optarg>>).scan)

ParseOption ==
  /\ filepc = "parse" /\ OptionRead.kind \in {"option", "option_arg"}
  /\ read' = Append(read, <<OptionRead.opt, OptionRead.arg>>)
  /\ filepc' = "line"
  /\ UNCHANGED <<doc, text, pos, optarg, escape, last_escaped, errline>>

\* std::count from the beginning up to a position: what is behind the end
\* may hold any number of newlines.
newlines(to) ==
  LET n == Cardinality({i \in 1 .. Len(text) : i < to /\ text[i] = "\n"})
  IN IF to <= End THEN {n} ELSE n .. n + to - End

FileError ==
  /\ filepc = "parse"
  /\ \E nnl \in newlines(clamp(pos)) : errline' = nnl + 1
  /\ filepc' = "failed"
  /\ UNCHANGED <<doc, text, pos, optarg, escape, last_escaped, read>>

-----------------------------------------------------------------------------
(***************************************************************************)
(* var_expand: ${NAME} stands for a variable, and a backslash takes the    *)
(* meaning from the character after it.                                    *)
(***************************************************************************)
env_or_empty(var) == IF var \in DOMAIN Environ THEN Environ[var] ELSE <<>>

var_expand(in) ==
  LET close(i) == FirstFrom(in, i + 2, LAMBDA c : c = "}")
      IsRef(i) == in[i] = "$" /\ i < Len(in) /\ in[i + 1] = "{" /\ close(i) <= Len(in)
      expanded[i \in 1 .. Len(in) + 1] ==
        IF i > Len(in) THEN <<>>
        ELSE IF in[i] = "\\" /\ i < Len(in) THEN <<in[i + 1]>> \o expanded[i + 2]
        ELSE IF IsRef(i)
             THEN env_or_empty(SubSeq(in, i + 2, close(i) - 1)) \o expanded[close(i) + 1]
        ELSE <<in[i]>> \o expanded[i + 1]
  IN expanded[1]

-----------------------------------------------------------------------------
(***************************************************************************)
(* What an author means and writes.  An entry is a blank line, a comment   *)
(* or an option; the argument of an option is a sequence of characters and *)
(* references to the variable V, and is written with a backslash before    *)
(* each character that means something to var_expand, and again before     *)
(* each that means something to parse_file; or, where an author goes by    *)
(* jai.1.md:171, with one backslash before a dollar sign or a backslash.   *)
(***************************************************************************)
Ref == <<"$", "{", "V", "}">>
ForExpand(c) == IF c \in {"$", "\\"} THEN <<"\\", c>> ELSE <<c>>
ForFile(c) ==
  CASE c = "\t" -> <<"\\", "t">>
    [] c = "\r" -> <<"\\", "r">>
    [] c = "\n" -> <<"\\", "n">>
    [] c \in {" ", "\\", "="} -> <<"\\", c>>
    [] OTHER    -> <<c>>
Token(t, manual) ==
  IF t = "ref" THEN Ref
  ELSE IF manual /\ t \in {"$", "\\"} THEN <<"\\", t>>
  ELSE FlattenSeq([i \in 1 .. Len(ForExpand(t)) |-> ForFile(ForExpand(t)[i])])
Meant(t) == IF t = "ref" THEN env_or_empty(<<"V">>) ELSE <<t>>

\* After the cont-th token the entry goes on on a new line.
Body(e) ==
  FlattenSeq([i \in 1 .. Len(e.val) |->
                Token(e.val[i], e.manual) \o IF i = e.cont THEN <<"\\", "\n", " ">> ELSE <<>>])
Written(e) ==
  IF e.kind = "option"
  THEN e.indent \o e.name \o (IF e.given THEN e.sep \o Body(e) ELSE <<>>) \o e.trail
  ELSE e.chars
WrittenFile(d) == FlattenSeq([i \in 1 .. Len(d) |-> Written(d[i]) \o d[i].eol])
\* A file comes to an end, and is shorter than a string can be.
ASSUME DocsAssumption ==
  npos \in Nat /\ \A d \in Docs : Len(WrittenFile(d)) \in Nat /\ Len(WrittenFile(d)) + 2 < npos

OptionsOf(d) == SelectSeq(d, LAMBDA e : e.kind = "option")
Mistaken(e) ==
  LET has == Action(Dashes \o e.name)
  IN has = "unknown" \/ (has = "no" /\ e.given) \/ (has = "arg" /\ ~e.given)
LineOf(d, k) ==
  LET last == CHOOSE i \in 1 .. Len(d) : Len(OptionsOf(SubSeq(d, 1, i))) = k /\ d[i].kind = "option"
      before == WrittenFile(SubSeq(d, 1, last - 1)) \o Written(d[last])
  IN 1 + Cardinality({i \in 1 .. Len(before) : before[i] = "\n"})

-----------------------------------------------------------------------------
FileInit ==
  /\ doc \in Docs
  /\ text = WrittenFile(doc) /\ pos = 1
  /\ optarg = <<>> /\ escape = FALSE /\ last_escaped = FALSE
  /\ read = <<>> /\ errline = 0
  /\ filepc = "line"

FileNext ==
  \/ EndOfText \/ Comment \/ Name
  \/ CarriageReturn \/ Plain \/ Escaped \/ Continuation \/ EndOfValue
  \/ ParseOption \/ FileError

-----------------------------------------------------------------------------
\* The k-th option acted on is the k-th in the file, with the argument that
\* its author means.
GetsMeant(k) ==
  LET e == OptionsOf(doc)[k]
  IN /\ read[k][1] = Dashes \o e.name
     /\ var_expand(read[k][2])
          = IF e.given THEN FlattenSeq([i \in 1 .. Len(e.val) |-> Meant(e.val[i])]) ELSE <<>>

(***************************************************************************)
(* What an author writes down with the escapes that parse_file and         *)
(* var_expand know is what the actions of the options get, to the last     *)
(* space, backslash and newline, with either kind of line ending, and over *)
(* continued lines; the argument is one word for parse_argspan, never a    *)
(* positional one, which is std::unreachable there (options.h:338-340); a  *)
(* mistake in the file is never passed over, and the error names the line  *)
(* on which the offending option ends, though pos may be behind the end of *)
(* the text, or npos, by then (options.cc:12-73, jai.h:25-40).             *)
(***************************************************************************)
ReadsAsMeant ==
  /\ \A k \in 1 .. Len(read) :
       ~Mistaken(OptionsOf(doc)[k]) /\ (~OptionsOf(doc)[k].manual => GetsMeant(k))
  /\ filepc = "parse" => Len(optarg) > 2 /\ scan_args(<<optarg>>).positional = 1
  /\ filepc = "done" => Len(read) = Len(OptionsOf(doc))
  /\ filepc = "failed" => errline = LineOf(doc, Len(read) + 1)

(***************************************************************************)
(* "You can quote a literal `$` or `\` by preceding it with a backslash"   *)
(* (jai.1.md:171): an author who does so in a file gets what he means.     *)
(***************************************************************************)
QuotedByOne ==
  \A k \in 1 .. Len(read) : OptionsOf(doc)[k].manual => GetsMeant(k)

(***************************************************************************)
(* The loops come to an end: each of their steps takes the parser further  *)
(* into the text or, without going back, nearer to the next line; a line   *)
(* that begins with = has a name to lose first (options.cc:12-73).         *)
(***************************************************************************)
Distance ==
  IF filepc = "line" /\ ~AtEnd(pos) /\ text[pos] = "=" THEN 4
  ELSE [value |-> 3, parse |-> 2, line |-> 1, done |-> 0, failed |-> 0][filepc]
ParseProgresses ==
  [][pos' > pos \/ (pos' = pos /\ Distance' < Distance)]_fileVars

(***************************************************************************)
(* What ParseProgresses depends on: an option is acted on at the end of    *)
(* its line.                                                               *)
(***************************************************************************)
ProgressInv ==
  /\ Len(text) \in Nat /\ npos \in Nat /\ Len(text) + 2 < npos
  /\ pos \in 1 .. Len(text) + 2 \cup {npos}
  /\ filepc \in {"line", "value", "parse", "done", "failed"}
  /\ filepc = "parse" => AtEnd(pos) \/ text[pos] = "\n"
=============================================================================

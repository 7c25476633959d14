------------------------------- MODULE Options -------------------------------
(***************************************************************************)
(* The option parser on command lines (options.h, options.cc) and the      *)
(* completion of command lines (complete_args, Config::complete).  A word  *)
(* is a sequence of characters.                                            *)
(***************************************************************************)
EXTENDS Naturals, SequencesExt

CONSTANTS
  HasArg,     \* actions_: from the names of the options to "no", "arg", "opt"
  ArgLines,   \* command lines: their words, and what the user means by them
  TypedLines, \* command lines to complete, of one word or more
  Candidates, \* from options to the arguments that there are to offer
  More        \* what may still be typed after a word

VARIABLES
  line,     \* the member of ArgLines or TypedLines at hand
  todo,     \* the items that parse_argspan has still to act on
  applied,  \* the options whose actions have run
  argpc,
  printed   \* the completions put out

argVars == <<line, todo, applied, argpc, printed>>

ASSUME HasArgAssumption == \A o \in DOMAIN HasArg : HasArg[o] \in {"no", "arg", "opt"}

Optind == 2  \* jai and --complete come before the line to complete
Dash == <<"-">>
Dashes == <<"-", "-">>

\* find_first_of and its like; the position after the end if there is none.
FirstFrom(s, from, Test(_)) ==
  LET i == SelectInSubSeq(s, from, Len(s), Test) IN IF i = 0 THEN Len(s) + 1 ELSE i
From(s, i) == SubSeq(s, i, Len(s))

\* get_action_ptr, and has_arg of what it returns.
Action(o) == IF o \in DOMAIN HasArg THEN HasArg[o] ELSE "unknown"

-----------------------------------------------------------------------------
(***************************************************************************)
(* scan_arg: what a word is made of.                                       *)
(***************************************************************************)
Item(kind, opt, arg) == [kind |-> kind, opt |-> opt, arg |-> arg]
Bad == {"unknown", "unexpected"}

Kind(has, given) ==
  CASE has = "unknown"                   -> "unknown"
    [] has = "no" /\ given               -> "unexpected"
    [] has \in {"arg", "opt"} /\ given   -> "option_arg"
    [] has = "arg" /\ ~given             -> "need"
    [] has \in {"no", "opt"} /\ ~given   -> "option"

ScanLong(w) ==
  LET n == FirstFrom(w, 1, LAMBDA c : c = "=")
      opt == SubSeq(w, 1, n - 1)
  IN <<Item(Kind(Action(opt), n <= Len(w)), opt, From(w, n + 1))>>

\* The first letter that is not a flag: the rest of the word is its argument.
Short(w, j) == <<"-", w[j]>>
NonFlag(w) == FirstFrom(w, 2, LAMBDA c : Action(<<"-", c>>) # "no")

ScanShort(w) ==
  LET j == NonFlag(w)
  IN [k \in 1 .. j - 2 |-> Item("option", Short(w, k + 1), <<>>)]
       \o IF j > Len(w) THEN <<>>
          ELSE <<Item(Kind(Action(Short(w, j)), j < Len(w)), Short(w, j), From(w, j + 1))>>

Optionlike(w) == Len(w) >= 2 /\ w[1] = "-"

scan_arg(w) ==
  CASE w = Dashes                        -> <<Item("positional_next", <<>>, <<>>)>>
    [] ~Optionlike(w)                    -> <<Item("positional_here", <<>>, <<>>)>>
    [] Optionlike(w) /\ w[2] # "-"       -> ScanShort(w)
    [] Optionlike(w) /\ w[2] = "-" /\ w # Dashes -> ScanLong(w)

-----------------------------------------------------------------------------
(***************************************************************************)
(* scan_args: the items of all words up to the first that is no option or  *)
(* cannot be one.  A word after an option that needs an argument is the    *)
(* argument, whatever it looks like.                                       *)
(***************************************************************************)
Needs(r) == r.scan # <<>> /\ Last(r.scan).kind = "need"

ScanWord_Looks(r, w) ==
  LET items == scan_arg(w)
      end == Last(items).kind
      here == [positional_here |-> r.i, positional_next |-> r.i + 1]
  IN CASE r.stop -> r
       [] ~r.stop /\ Needs(r) /\ ~Optionlike(w) ->
            [r EXCEPT !.scan = Append(Front(@), Item("option_arg", Last(@).opt, w)), !.i = @ + 1]
       [] ~r.stop /\ ~(Needs(r) /\ ~Optionlike(w)) /\ end \in DOMAIN here ->
            [r EXCEPT !.positional = here[end], !.stop = TRUE]
       [] ~r.stop /\ ~(Needs(r) /\ ~Optionlike(w)) /\ end \notin DOMAIN here ->
            [r EXCEPT !.scan = @ \o items, !.i = @ + 1, !.stop = end \in Bad]

ScanWord(r, w) ==
  LET items == scan_arg(w)
      end == Last(items).kind
      here == [positional_here |-> r.i, positional_next |-> r.i + 1]
  IN CASE r.stop -> r
       [] ~r.stop /\ Needs(r) ->
            [r EXCEPT !.scan = Append(Front(@), Item("option_arg", Last(@).opt, w)), !.i = @ + 1]
       [] ~r.stop /\ ~Needs(r) /\ end \in DOMAIN here ->
            [r EXCEPT !.positional = here[end], !.stop = TRUE]
       [] ~r.stop /\ ~Needs(r) /\ end \notin DOMAIN here ->
            [r EXCEPT !.scan = @ \o items, !.i = @ + 1, !.stop = end \in Bad]

scan_args(ws) ==
  FoldLeft(ScanWord, [scan |-> <<>>, i |-> 0, positional |-> Len(ws), stop |-> FALSE], ws)

-----------------------------------------------------------------------------
(***************************************************************************)
(* parse_argspan: the line is scanned as a whole, then each option's       *)
(* action runs in turn; it may refuse its argument.                        *)
(***************************************************************************)
Scan ==
  /\ argpc = "parse"
  /\ todo' = scan_args(line.words).scan
  /\ argpc' = "apply"
  /\ UNCHANGED <<line, applied, printed>>

ArgActs == argpc = "apply" /\ todo # <<>> /\ Head(todo).kind \in {"option", "option_arg"}

Apply ==
  /\ ArgActs
  /\ applied' = Append(applied, <<Head(todo).opt, Head(todo).arg>>)
  /\ todo' = Tail(todo)
  /\ UNCHANGED <<line, argpc, printed>>

Refuse ==
  /\ ArgActs
  /\ argpc' = "refused"
  /\ UNCHANGED <<line, todo, applied, printed>>

ParseError ==
  /\ argpc = "apply" /\ todo # <<>> /\ ~ArgActs
  /\ argpc' = "error"
  /\ UNCHANGED <<line, todo, applied, printed>>

ReturnRest ==
  /\ argpc = "apply" /\ todo = <<>>
  /\ argpc' = "done"
  /\ UNCHANGED <<line, todo, applied, printed>>
Rest == From(line.words, scan_args(line.words).positional + 1)

-----------------------------------------------------------------------------
(***************************************************************************)
(* complete_args: completions of the last word of a line.  A completion is *)
(* a word and what is to follow it.                                        *)
(***************************************************************************)
Positional(at) == [kind |-> "positional", at |-> at]
Raw(vals) == [kind |-> "raw", vals |-> vals]
Arg(opt, arg, prepend) == [kind |-> "arg", opt |-> opt, arg |-> arg, prepend |-> prepend]
NoCompletions == [kind |-> "none"]

Offer(prefix) ==
  Raw({[word |-> o, end |-> IF HasArg[o] # "opt" THEN " " ELSE IF Len(o) > 2 THEN "=" ELSE ""]
         : o \in {o \in DOMAIN HasArg : IsPrefix(prefix, o)}})

CompleteLong(w) ==
  LET n == FirstFrom(w, 1, LAMBDA c : c = "=")
      opt == SubSeq(w, 1, n - 1)
  IN IF n > Len(w) THEN Offer(w)
     ELSE IF Action(opt) \in {"unknown", "no"} THEN NoCompletions
     ELSE Arg(opt, From(w, n + 1), SubSeq(w, 1, n))

CompleteShort(w) ==
  LET j == NonFlag(w)
  IN IF j > Len(w) \/ (j = Len(w) /\ Action(Short(w, j)) = "arg") THEN Raw({[word |-> w, end |-> " "]})
     ELSE IF Action(Short(w, j)) = "unknown" THEN NoCompletions
     ELSE Arg(Short(w, j), From(w, j + 1), SubSeq(w, 1, j))

CompleteWord(w, index) ==
  CASE w \in {Dash, Dashes}              -> Offer(w)
    [] w # Dash /\ ~Optionlike(w)        -> Positional(index)
    [] Optionlike(w) /\ w[2] # "-"       -> CompleteShort(w)
    [] Optionlike(w) /\ w[2] = "-" /\ w # Dashes -> CompleteLong(w)

complete_args_Unshifted(ws) ==
  LET before == scan_args(Front(ws))
  IN IF before.positional # Len(ws) - 1 THEN Positional(before.positional)
     ELSE IF Needs(before) THEN Arg(Last(before.scan).opt, Last(ws), <<>>)
     ELSE IF before.scan # <<>> /\ Last(before.scan).kind \in Bad THEN NoCompletions
     ELSE CompleteWord(Last(ws), Optind + Len(ws) - 1)

complete_args(ws) ==
  LET before == scan_args(Front(ws))
  IN IF before.positional # Len(ws) - 1 THEN Positional(Optind + before.positional)
     ELSE IF Needs(before) THEN Arg(Last(before.scan).opt, Last(ws), <<>>)
     ELSE IF before.scan # <<>> /\ Last(before.scan).kind \in Bad THEN NoCompletions
     ELSE CompleteWord(Last(ws), Optind + Len(ws) - 1)

\* Config::complete: the index of the first word that is not jai's own, or
\* the completions that begin with what was typed.
complete(c) ==
  CASE c.kind = "positional" -> {[offset |-> c.at - 1]}
    [] c.kind = "none"       -> {}
    [] c.kind = "raw"        -> c.vals
    [] c.kind = "arg"        -> {[word |-> c.prepend \o a.word, end |-> a.end]
                                   : a \in {a \in Candidates[c.opt] : IsPrefix(c.arg, a.word)}}

Complete ==
  /\ argpc = "complete"
  /\ printed' = complete(complete_args(line.words))
  /\ argpc' = "printed"
  /\ UNCHANGED <<line, todo, applied>>

-----------------------------------------------------------------------------
ArgInit ==
  /\ \/ argpc = "parse" /\ line \in ArgLines
     \/ argpc = "complete" /\ line \in TypedLines
  /\ todo = <<>> /\ applied = <<>> /\ printed = {}

ArgNext == Scan \/ Apply \/ Refuse \/ ParseError \/ ReturnRest \/ Complete

-----------------------------------------------------------------------------
(***************************************************************************)
(* Whichever way the options are spelled (short or long, joined, with the  *)
(* argument in the same word or the next), each is acted on in order with  *)
(* its own argument, nothing after the first mistake is, and what follows  *)
(* the options is left whole (parse_argspan, options.h:318-344).           *)
(***************************************************************************)
ArgsAsMeant ==
  argpc \in {"apply", "refused", "error", "done"} =>
    /\ IsPrefix(applied, line.opts)
    /\ argpc = "error" => applied = line.opts /\ line.mistake
    /\ argpc = "done" => applied = line.opts /\ ~line.mistake /\ Rest = line.rest

Typed == Last(line.words)
Completed == complete_args(line.words)
AllOptions == scan_args(line.words).positional = Len(line.words)

\* The line with another last word, as the parser scans it.
Scanned(w) == scan_args(Append(Front(line.words), w)).scan
Wrong(scan) == \E x \in Range(scan) : x.kind \in Bad

(***************************************************************************)
(* complete_args scans the words before the last one as the parser does,   *)
(* and has rules of its own for the last.  It sends the shell to the first *)
(* word that is not jai's own if parse_argv would end the options there,   *)
(* and only then.  (A last word that begins with a dash counts as an       *)
(* option in any case, directly after a "--" too, where options.h:202      *)
(* promises the position after the "--".)                                  *)
(***************************************************************************)
PositionalAgrees ==
  LET at == scan_args(line.words).positional
      last == Len(line.words) - 1
      dash == Typed # <<>> /\ Typed[1] = "-"
  IN IF at < last \/ (at = last /\ ~dash)
     THEN printed = {[offset |-> 1 + at]}
     ELSE \A p \in printed : "word" \in DOMAIN p

(***************************************************************************)
(* Taking a completion never makes the line wrong: what was typed is a     *)
(* prefix of it, the parser has no objection, and when it completes an     *)
(* argument the parser hands that argument to that option.                 *)
(***************************************************************************)
CompletionsParse ==
  \A p \in {p \in printed : "word" \in DOMAIN p} :
    /\ IsPrefix(Typed, p.word)
    /\ ~Wrong(Scanned(p.word))
    /\ Completed.kind = "arg" /\ AllOptions =>
         Last(Scanned(p.word))
           = Item("option_arg", Completed.opt, From(p.word, Len(Completed.prepend) + 1))

(***************************************************************************)
(* complete_args gives up (kNoCompletions, "nothing can be completed",     *)
(* options.h:205) only on lines that the parser refuses however their last *)
(* word goes on.                                                           *)
(***************************************************************************)
NothingHidden ==
  Completed.kind = "none" /\ AllOptions =>
    \A m \in More : Wrong(Scanned(Typed \o m))

(***************************************************************************)
(* Completion and parser agree on every line (complete_args and            *)
(* parse_argspan): on the first word that is no option, on each completion *)
(* that is offered, and on the lines that have none.                       *)
(***************************************************************************)
CompletionAgrees ==
  argpc = "printed" => PositionalAgrees /\ CompletionsParse /\ NothingHidden
=============================================================================

---------------------------- MODULE ConfigProofs ----------------------------
(***************************************************************************)
(* Theorems about Config, for all files and command lines: the loop check  *)
(* of parse_config_file, and parsing_config_file_.                         *)
(***************************************************************************)
EXTENDS Config, TLAPS

LEMMA SeqOfItself == ASSUME NEW S, NEW s \in Seq(S) PROVE IsSeq(s)
  BY DEF IsSeq

LEMMA ConfigInitInv == Init => ConfigInv
<1> SUFFICES ASSUME Init PROVE ConfigInv
  OBVIOUS
<1>1. IsSeq(stack) /\ DOMAIN stack = {}
  <2>1. stack = <<>>
    BY DEF Init
  <2>2. <<>> \in Seq({}) /\ DOMAIN <<>> = {}
    OBVIOUS
  <2>3. IsSeq(stack)
    BY <2>1, <2>2, SeqOfItself
  <2> QED
    BY <2>1, <2>2, <2>3
<1>2. "argv" \notin DOMAIN files
  BY SuitesAssumption DEF Init
<1> QED
  BY <1>1, <1>2 DEF Init, ConfigInv, FramesOK, LoopCheck, OfFile

-----------------------------------------------------------------------------
(* A call of parse_file that begins, one that reads a line, and one that   *)
(* returns.                                                                *)

LEMMA Pushed ==
  ASSUME NEW s, IsSeq(s), NEW f, NEW t, t = Cons(f, s)
  PROVE  /\ IsSeq(t)
         /\ DOMAIN t = 1 .. Len(s) + 1 /\ DOMAIN s = 1 .. Len(s) /\ Len(s) \in Nat
         /\ t[1] = f
         /\ \A i \in DOMAIN s : t[i + 1] = s[i]
<1> DEFINE S == {f} \cup {s[i] : i \in DOMAIN s}
<1>1. s \in Seq(S) /\ <<f>> \in Seq(S)
  BY DEF IsSeq
<1>2. t \in Seq(S)
  BY <1>1 DEF Cons
<1>3. IsSeq(t)
  BY <1>2, SeqOfItself
<1> QED
  BY <1>1, <1>3 DEF Cons

LEMMA Popped ==
  ASSUME NEW s, IsSeq(s), s # <<>>
  PROVE  LET t == Tail(s)
         IN /\ IsSeq(t)
            /\ DOMAIN t = 1 .. Len(t) /\ Len(t) = Len(s) - 1 /\ DOMAIN s = 1 .. Len(s) /\ Len(s) \in Nat \ {0}
            /\ Head(s) = s[1]
            /\ \A i \in DOMAIN t : t[i] = s[i + 1]
<1> DEFINE S == {s[i] : i \in DOMAIN s}
<1>1. s \in Seq(S) /\ Tail(s) \in Seq(S)
  BY DEF IsSeq
<1>2. IsSeq(Tail(s))
  BY <1>1, SeqOfItself
<1> QED
  BY <1>1, <1>2

\* The same calls of parse_file, wherever they have got to.
SameCalls(s) ==
  /\ IsSeq(s) /\ DOMAIN s = DOMAIN stack
  /\ \A i \in DOMAIN s :
       s[i] = [file |-> stack[i].file, text |-> s[i].text,
               dotjail |-> s[i].dotjail, saved |-> stack[i].saved]

LEMMA RestOf ==
  ASSUME NEW s, IsSeq(s), s # <<>>, NEW g, NEW r, r = Cons(g, Tail(s))
  PROVE  /\ IsSeq(r) /\ DOMAIN r = DOMAIN s
         /\ 1 \in DOMAIN s /\ r[1] = g /\ Head(s) = s[1]
         /\ \A i \in DOMAIN s : i # 1 => r[i] = s[i]
<1>1. PICK u : u = Tail(s)
  OBVIOUS
<1>2. /\ IsSeq(u) /\ DOMAIN u = 1 .. Len(u) /\ Len(u) = Len(s) - 1
      /\ DOMAIN s = 1 .. Len(s)
      /\ Len(s) \in Nat \ {0} /\ Head(s) = s[1]
      /\ \A i \in DOMAIN u : u[i] = s[i + 1]
  BY <1>1, Popped
<1>3. r = Cons(g, u)
  BY <1>1
<1>4. /\ IsSeq(r) /\ DOMAIN r = 1 .. Len(u) + 1
      /\ r[1] = g /\ \A i \in DOMAIN u : r[i + 1] = u[i]
  <2>1. IsSeq(u)
    BY <1>2
  <2> QED
    BY <1>3, <2>1, Pushed
<1>5. ASSUME NEW i \in DOMAIN s, i # 1
      PROVE  r[i] = s[i]
  <2>1. i - 1 \in DOMAIN u /\ (i - 1) + 1 = i
    BY <1>2, <1>5
  <2> QED
    BY <1>2, <1>4, <2>1
<1> QED
  BY <1>2, <1>4, <1>5

LEMMA FrameText ==
  ASSUME NEW a, NEW b, NEW c, NEW d, NEW e, NEW g,
         g = [file |-> a, text |-> b, dotjail |-> c, saved |-> d]
  PROVE  [g EXCEPT !.text = e] = [file |-> a, text |-> e, dotjail |-> c, saved |-> d]
  OBVIOUS

\* All that reading a line changes in the stack.
LEMMA RestIs ==
  ASSUME FramesOK, stack # <<>>
  PROVE  /\ IsSeq(Rest) /\ DOMAIN Rest = DOMAIN stack /\ 1 \in DOMAIN stack
         /\ Head(stack) = stack[1]
         /\ Rest[1] = [file |-> stack[1].file, text |-> Tail(stack[1].text),
                       dotjail |-> stack[1].dotjail, saved |-> stack[1].saved]
         /\ \A i \in DOMAIN stack : i # 1 => Rest[i] = stack[i]
<1>1. PICK g : g = [Head(stack) EXCEPT !.text = Tail(Head(stack).text)]
  OBVIOUS
<1>2. PICK r : r = Cons(g, Tail(stack))
  OBVIOUS
<1>3. Rest = r
  BY <1>1, <1>2 DEF Rest, Cons
<1>4. /\ IsSeq(r) /\ DOMAIN r = DOMAIN stack
      /\ 1 \in DOMAIN stack /\ r[1] = g /\ Head(stack) = stack[1]
      /\ \A i \in DOMAIN stack : i # 1 => r[i] = stack[i]
  <2>1. IsSeq(stack)
    BY DEF FramesOK
  <2> QED
    BY <1>2, <2>1, RestOf
<1>5. PICK e : e = Tail(stack[1].text)
  OBVIOUS
<1>6. stack[1] = [file |-> stack[1].file, text |-> stack[1].text,
                  dotjail |-> stack[1].dotjail, saved |-> stack[1].saved]
  BY <1>4 DEF FramesOK
<1>7. g = [stack[1] EXCEPT !.text = e]
  BY <1>1, <1>4, <1>5
<1>8. g = [file |-> stack[1].file, text |-> e,
           dotjail |-> stack[1].dotjail, saved |-> stack[1].saved]
  BY <1>6, <1>7, FrameText
<1> QED
  BY <1>3, <1>4, <1>5, <1>8

LEMMA RestIsSame == ASSUME FramesOK, stack # <<>> PROVE SameCalls(Rest)
<1>1. PICK r : r = Rest
  OBVIOUS
<1>2. /\ IsSeq(r) /\ DOMAIN r = DOMAIN stack
      /\ r[1] = [file |-> stack[1].file, text |-> Tail(stack[1].text),
                 dotjail |-> stack[1].dotjail, saved |-> stack[1].saved]
      /\ \A i \in DOMAIN stack : i # 1 => r[i] = stack[i]
  BY <1>1, RestIs
<1>3. ASSUME NEW i \in DOMAIN r
      PROVE  r[i] = [file |-> stack[i].file, text |-> r[i].text,
                     dotjail |-> r[i].dotjail, saved |-> stack[i].saved]
  <2>1. CASE i = 1
    BY <1>2, <2>1
  <2>2. CASE i # 1
    BY <1>2, <1>3, <2>2 DEF FramesOK
  <2> QED
    BY <2>1, <2>2
<1> QED
  BY <1>1, <1>2, <1>3 DEF SameCalls

\* A step that reads a line, or none.
LEMMA CallsStay ==
  ASSUME ConfigInv, SameCalls(stack'), "argv" \notin DOMAIN files', phase' # "loop",
         UNCHANGED <<parsing_config_file, loop_detect>>
  PROVE  ConfigInv'
<1>1. \A i \in DOMAIN stack : stack'[i].file = stack[i].file
                              /\ stack'[i].saved = stack[i].saved
  BY DEF SameCalls
<1>2. DOMAIN stack' = DOMAIN stack
  BY DEF SameCalls
<1>3. \A i : OfFile(i)' <=> OfFile(i)
  BY <1>1, <1>2 DEF OfFile
<1>4. FramesOK'
  BY <1>1, <1>2, <1>3 DEF ConfigInv, FramesOK, SameCalls
<1>5. LoopCheck'
  BY <1>1, <1>2 DEF ConfigInv, LoopCheck
<1> QED
  BY <1>4, <1>5 DEF ConfigInv

LEMMA ArgvAlone == ASSUME NEW f PROVE <<f>> = <<f>> \o <<>>
<1>1. <<f>> \in Seq({f}) /\ <<>> \in Seq({f})
  OBVIOUS
<1> QED
  BY <1>1

LEMMA StackIsSame == ASSUME FramesOK PROVE SameCalls(stack)
  BY DEF FramesOK, SameCalls

\* A step that begins to parse a file, or the command line.
LEMMA CallBegins ==
  ASSUME ConfigInv, NEW file, NEW text, NEW jailopts, NEW outer, SameCalls(outer),
         stack' = <<Frame(file, text, jailopts)>> \o outer,
         \/ /\ file # "argv" /\ file \notin loop_detect
            /\ loop_detect' = loop_detect \cup {file} /\ parsing_config_file' = TRUE
         \/ /\ file = "argv" /\ stack = <<>>
            /\ UNCHANGED <<parsing_config_file, loop_detect>>,
         "argv" \notin DOMAIN files', phase' # "loop"
  PROVE  ConfigInv'
<1>1. PICK f : /\ f = Frame(file, text, jailopts)
              /\ f.file = file /\ f.saved = parsing_config_file
              /\ f = [file |-> f.file, text |-> f.text,
                      dotjail |-> f.dotjail, saved |-> f.saved]
  BY DEF Frame
<1>2. PICK t : t = stack' /\ t = Cons(f, outer)
  BY <1>1 DEF Cons
<1>3. /\ IsSeq(stack') /\ DOMAIN stack' = 1 .. Len(outer) + 1
      /\ DOMAIN outer = 1 .. Len(outer) /\ Len(outer) \in Nat
      /\ stack'[1] = f /\ \A i \in DOMAIN outer : stack'[i + 1] = outer[i]
  <2>1. IsSeq(outer)
    BY DEF SameCalls
  <2>2. t = Cons(f, outer)
    BY <1>2
  <2>3. /\ IsSeq(t) /\ DOMAIN t = 1 .. Len(outer) + 1
        /\ t[1] = f /\ \A i \in DOMAIN outer : t[i + 1] = outer[i]
    BY <2>1, <2>2, Pushed
  <2>4. DOMAIN outer = 1 .. Len(outer) /\ Len(outer) \in Nat
    BY <2>1 DEF IsSeq
  <2> QED
    BY <1>2, <2>3, <2>4
<1>4. DOMAIN stack = 1 .. Len(outer)
  BY <1>3 DEF SameCalls
<1>5. \A i \in DOMAIN stack :
        /\ stack'[i + 1].file = stack[i].file /\ stack'[i + 1].saved = stack[i].saved
        /\ stack'[i + 1] = [file |-> stack'[i + 1].file, text |-> stack'[i + 1].text,
                            dotjail |-> stack'[i + 1].dotjail,
                            saved |-> stack'[i + 1].saved]
  BY <1>3 DEF SameCalls
<1>6. \A i \in DOMAIN stack' : i = 1 \/ \E k \in DOMAIN stack : i = k + 1
  <2>1. \A i \in DOMAIN stack' : i = 1 \/ (i - 1 \in DOMAIN stack /\ i = (i - 1) + 1)
    BY <1>3, <1>4
  <2> QED
    BY <2>1
<1>7. \A i \in DOMAIN stack : i + 1 \in DOMAIN stack' /\ i + 1 # 1 /\ i \in Nat
  BY <1>3, <1>4
<1>8. stack = <<>> => DOMAIN stack = {}
  OBVIOUS
<1>9. FramesOK'
  <2>1. parsing_config_file' \in BOOLEAN /\ (parsing_config_file' <=> OfFile(1)')
    <3>1. OfFile(1)' <=> file # "argv"
      <4>1. 1 \in DOMAIN stack' /\ stack'[1].file = file
        BY <1>1, <1>3
      <4> QED
        BY <4>1 DEF OfFile
    <3>2. CASE parsing_config_file' = TRUE /\ file # "argv"
      BY <3>1, <3>2
    <3>3. CASE file = "argv" /\ stack = <<>> /\ UNCHANGED parsing_config_file
      <4>1. parsing_config_file = FALSE
        BY <1>8, <3>3 DEF ConfigInv, FramesOK, OfFile
      <4> QED
        BY <3>1, <3>3, <4>1
    <3> QED
      BY <3>2, <3>3
  <2>2. \A i \in DOMAIN stack : OfFile(i + 1)' <=> OfFile(i)
    BY <1>5, <1>7 DEF OfFile
  <2>3. ASSUME NEW i \in DOMAIN stack'
        PROVE  /\ stack'[i] = [file |-> stack'[i].file, text |-> stack'[i].text,
                               dotjail |-> stack'[i].dotjail, saved |-> stack'[i].saved]
               /\ stack'[i].saved \in BOOLEAN /\ (stack'[i].saved <=> OfFile(i + 1)')
    <3>1. CASE i = 1
      <4>1. OfFile(2)' <=> OfFile(1)
        <5>1. 1 \in DOMAIN stack => (OfFile(1 + 1)' <=> OfFile(1))
          BY <2>2
        <5>2. 1 \notin DOMAIN stack => 2 \notin DOMAIN stack'
          BY <1>3, <1>4
        <5> QED
          BY <5>1, <5>2 DEF OfFile
      <4> QED
        BY <1>1, <1>3, <3>1, <4>1 DEF ConfigInv, FramesOK
    <3>2. CASE i # 1
      <4>1. PICK k \in DOMAIN stack : i = k + 1
        BY <1>6, <3>2
      <4>2. OfFile(k + 2)' <=> OfFile(k + 1)
        <5>1. k + 1 \in DOMAIN stack => (OfFile((k + 1) + 1)' <=> OfFile(k + 1))
          BY <2>2
        <5>2. k + 1 \notin DOMAIN stack => k + 2 \notin DOMAIN stack'
          BY <1>3, <1>4, <4>1
        <5>3. (k + 1) + 1 = k + 2
          BY <1>7
        <5> QED
          BY <5>1, <5>2, <5>3 DEF OfFile
      <4>3. stack'[i].saved \in BOOLEAN /\ (stack'[i].saved <=> OfFile(k + 1))
        BY <1>5, <4>1 DEF ConfigInv, FramesOK
      <4>4. i + 1 = k + 2
        BY <1>7, <4>1
      <4> QED
        BY <1>5, <4>1, <4>2, <4>3, <4>4
    <3> QED
      BY <3>1, <3>2
  <2> QED
    BY <1>3, <2>1, <2>3 DEF FramesOK
<1>10. LoopCheck'
  <2>1. {stack'[i].file : i \in DOMAIN stack'}
          = {file} \cup {stack[i].file : i \in DOMAIN stack}
    <3>1. stack'[1].file = file /\ 1 \in DOMAIN stack'
      BY <1>1, <1>3
    <3>2. ASSUME NEW i \in DOMAIN stack'
          PROVE  stack'[i].file \in {file} \cup {stack[k].file : k \in DOMAIN stack}
      <4>1. CASE i = 1
        BY <3>1, <4>1
      <4>2. ASSUME NEW k \in DOMAIN stack, i = k + 1
            PROVE  stack'[i].file = stack[k].file
        BY <1>5, <4>2
      <4> QED
        BY <1>6, <4>1, <4>2
    <3>3. ASSUME NEW i \in DOMAIN stack
          PROVE  stack[i].file \in {stack'[k].file : k \in DOMAIN stack'}
      BY <1>5, <1>7
    <3> DEFINE A == {stack'[k].file : k \in DOMAIN stack'}
               B == {file} \cup {stack[k].file : k \in DOMAIN stack}
    <3>4. A \subseteq B
      BY <3>2
    <3>5. B \subseteq A
      BY <3>1, <3>3
    <3> QED
      BY <3>4, <3>5
  <2>2. loop_detect' = {stack'[i].file : i \in DOMAIN stack'} \ {"argv"}
    BY <2>1, <1>8 DEF ConfigInv, LoopCheck
  <2>3. \A i \in DOMAIN stack : stack[i].file # file
    BY <1>8 DEF ConfigInv, LoopCheck
  <2>4. ASSUME NEW i \in DOMAIN stack', NEW j \in DOMAIN stack', i # j
        PROVE  stack'[i].file # stack'[j].file
    <3>1. i = 1 \/ \E k \in DOMAIN stack : i = k + 1
      BY <1>6
    <3>2. j = 1 \/ \E k \in DOMAIN stack : j = k + 1
      BY <1>6
    <3>3. stack'[1].file = file
      BY <1>1, <1>3
    <3>4. CASE i = 1
      <4>1. PICK l \in DOMAIN stack : j = l + 1
        BY <2>4, <3>2, <3>4
      <4> QED
        <5>1. stack'[j].file = stack[l].file
          BY <1>5, <4>1
        <5> QED
          BY <2>3, <3>3, <3>4, <5>1
    <3>5. CASE j = 1
      <4>1. PICK k \in DOMAIN stack : i = k + 1
        BY <2>4, <3>1, <3>5
      <4> QED
        <5>1. stack'[i].file = stack[k].file
          BY <1>5, <4>1
        <5> QED
          BY <2>3, <3>3, <3>5, <5>1
    <3>6. CASE i # 1 /\ j # 1
      <4>1. PICK k \in DOMAIN stack : i = k + 1
        BY <3>1, <3>6
      <4>2. PICK l \in DOMAIN stack : j = l + 1
        BY <3>2, <3>6
      <4>3. stack[k].file # stack[l].file
        BY <2>4, <4>1, <4>2 DEF ConfigInv, LoopCheck
      <4> QED
        BY <1>5, <4>1, <4>2, <4>3
    <3> QED
      BY <3>4, <3>5, <3>6
  <2> QED
    BY <2>2, <2>4 DEF LoopCheck
<1> QED
  BY <1>9, <1>10 DEF ConfigInv

\* A step that returns from parse_file.
LEMMA CallReturns ==
  ASSUME ConfigInv, stack # <<>>, stack' = Tail(stack),
         loop_detect' = loop_detect \ {Head(stack).file},
         parsing_config_file' = Head(stack).saved,
         UNCHANGED files, phase' # "loop"
  PROVE  ConfigInv'
<1>1. IsSeq(stack)
  BY DEF ConfigInv, FramesOK
<1>2. /\ IsSeq(stack')
      /\ DOMAIN stack' = 1 .. Len(stack') /\ Len(stack') = Len(stack) - 1
      /\ DOMAIN stack = 1 .. Len(stack) /\ Len(stack) \in Nat \ {0}
      /\ Head(stack) = stack[1]
      /\ \A i \in DOMAIN stack' : stack'[i] = stack[i + 1]
  BY <1>1, Popped
<1>3. DOMAIN stack' = 1 .. Len(stack) - 1
  BY <1>2
<1>4. \A i \in DOMAIN stack' : i + 1 \in DOMAIN stack /\ i + 1 # 1 /\ i \in Nat
  BY <1>2, <1>3
<1>5. 1 \in DOMAIN stack
  BY <1>2
<1>6. \A i \in DOMAIN stack : i = 1 \/ \E k \in DOMAIN stack' : i = k + 1
  <2>1. \A i \in DOMAIN stack : i = 1 \/ (i - 1 \in DOMAIN stack' /\ i = (i - 1) + 1)
    BY <1>2, <1>3
  <2> QED
    BY <2>1
<1>7. \A i \in Nat \ {0} : OfFile(i)' <=> OfFile(i + 1)
  <2>1. \A i \in Nat \ {0} : i \in DOMAIN stack' <=> i + 1 \in DOMAIN stack
    BY <1>2, <1>3
  <2> QED
    BY <1>2, <2>1 DEF OfFile
<1>8. FramesOK'
  <2>1. parsing_config_file' \in BOOLEAN /\ (parsing_config_file' <=> OfFile(1)')
    <3>1. stack[1].saved \in BOOLEAN /\ (stack[1].saved <=> OfFile(1 + 1))
      BY <1>5 DEF ConfigInv, FramesOK
    <3>2. OfFile(1)' <=> OfFile(1 + 1)
      BY <1>7
    <3> QED
      BY <1>2, <3>1, <3>2
  <2>2. ASSUME NEW i \in DOMAIN stack'
        PROVE  /\ stack'[i] = [file |-> stack'[i].file, text |-> stack'[i].text,
                               dotjail |-> stack'[i].dotjail, saved |-> stack'[i].saved]
               /\ stack'[i].saved \in BOOLEAN /\ (stack'[i].saved <=> OfFile(i + 1)')
    <3>1. i + 1 \in DOMAIN stack /\ i + 1 \in Nat \ {0} /\ stack'[i] = stack[i + 1]
      BY <1>2, <1>4
    <3>2. stack[i + 1].saved \in BOOLEAN /\ (stack[i + 1].saved <=> OfFile((i + 1) + 1))
      BY <3>1 DEF ConfigInv, FramesOK
    <3>3. OfFile(i + 1)' <=> OfFile((i + 1) + 1)
      BY <1>7, <3>1
    <3>4. stack[i + 1] = [file |-> stack[i + 1].file, text |-> stack[i + 1].text,
                          dotjail |-> stack[i + 1].dotjail, saved |-> stack[i + 1].saved]
      BY <3>1 DEF ConfigInv, FramesOK
    <3> QED
      BY <3>1, <3>2, <3>3, <3>4
  <2> QED
    BY <1>2, <2>1, <2>2 DEF ConfigInv, FramesOK
<1>9. LoopCheck'
  <2>1. \A i \in DOMAIN stack' : stack'[i].file # stack[1].file
    BY <1>2, <1>4, <1>5 DEF ConfigInv, LoopCheck
  <2> DEFINE A == {stack'[i].file : i \in DOMAIN stack'}
             B == {stack[i].file : i \in DOMAIN stack}
  <2>2. A \subseteq B \ {stack[1].file}
    BY <1>2, <1>4, <2>1
  <2>3. B \subseteq A \cup {stack[1].file}
    <3>1. SUFFICES ASSUME NEW i \in DOMAIN stack
                   PROVE  stack[i].file \in A \cup {stack[1].file}
      OBVIOUS
    <3>2. ASSUME NEW k \in DOMAIN stack', i = k + 1
          PROVE  stack[i].file = stack'[k].file
      BY <1>2, <3>2
    <3> QED
      BY <1>6, <3>2
  <2>4. A = B \ {stack[1].file}
    BY <2>2, <2>3
  <2>5. loop_detect' = A \ {"argv"}
    <3>1. loop_detect = B \ {"argv"}
      BY DEF ConfigInv, LoopCheck
    <3> QED
      BY <1>2, <2>4, <3>1
  <2>6. ASSUME NEW i \in DOMAIN stack', NEW j \in DOMAIN stack', i # j
        PROVE  stack'[i].file # stack'[j].file
    <3>1. i + 1 # j + 1
      BY <1>4, <2>6
    <3>2. stack[i + 1].file # stack[j + 1].file
      BY <1>4, <3>1 DEF ConfigInv, LoopCheck
    <3> QED
      BY <1>2, <3>2
  <2> QED
    BY <2>5, <2>6 DEF LoopCheck
<1> QED
  BY <1>8, <1>9 DEF ConfigInv

-----------------------------------------------------------------------------
(* The steps of do_main and of the parser.                                 *)

LEMMA ConfigNextInv == ConfigInv /\ [Next]_vars => ConfigInv'
<1> SUFFICES ASSUME ConfigInv, [Next]_vars PROVE ConfigInv'
  OBVIOUS
<1>a. FramesOK /\ SameCalls(stack) /\ "argv" \notin DOMAIN files
  BY StackIsSame DEF ConfigInv, FramesOK
<1>b. ASSUME UNCHANGED <<stack, files, parsing_config_file, loop_detect>>, phase' # "loop"
      PROVE  ConfigInv'
  <2>1. SameCalls(stack')
    BY <1>a, <1>b
  <2> QED
    BY <1>a, <1>b, <2>1, CallsStay
<1>c. ASSUME NEW from, NEW to, to # "loop", ParseArgv(from, to)
      PROVE  ConfigInv'
  <2>1. /\ stack' = <<Frame("argv", cli, FALSE)>> \o stack
        /\ stack = <<>> /\ phase' = to
        /\ UNCHANGED <<files, parsing_config_file, loop_detect>>
    BY <1>c, ArgvAlone DEF ParseArgv, disk
  <2> QED
    BY <1>a, <1>c, <2>1, CallBegins
<1>1. CASE FirstParse
  BY <1>1, <1>c DEF FirstParse
<1>2. CASE ReparseAfterConf
  BY <1>2, <1>c DEF ReparseAfterConf
<1>3. CASE ReparseAfterJail
  BY <1>3, <1>c DEF ReparseAfterJail
<1>4. CASE ParseLine \/ ParseCliOnly
  <2>1. /\ stack # <<>> /\ phase \in DOMAIN After /\ stack' = Rest
        /\ UNCHANGED <<files, phase, parsing_config_file, loop_detect>>
    BY <1>4 DEF ParseLine, ParseCliOnly, Parsing, disk
  <2>2. SameCalls(stack')
    BY <1>a, <2>1, RestIsSame
  <2> QED
    BY <1>a, <2>1, <2>2, CallsStay DEF After
<1>5. CASE ParseError \/ CanonicalThrows
  BY <1>5, <1>b DEF ParseError, CanonicalThrows, Fail, disk
<1>6. CASE Include
  <2> DEFINE name == Head(Head(stack).text).name
             text == files[name]
             jailopts == Head(stack).dotjail
  <2>1. /\ stack # <<>> /\ phase \in DOMAIN After /\ name \in DOMAIN files
        /\ EnterConfig(name, text, jailopts, Rest)
        /\ UNCHANGED <<files, phase>>
    BY <1>6 DEF Include, Parsing, disk
  <2>2. SameCalls(Rest)
    BY <1>a, <2>1, RestIsSame
  <2>3. /\ stack' = <<Frame(name, text, jailopts)>> \o Rest
        /\ name \notin loop_detect /\ loop_detect' = loop_detect \cup {name}
        /\ parsing_config_file' = TRUE
    BY <2>1 DEF EnterConfig
  <2>4. name # "argv" /\ "argv" \notin DOMAIN files' /\ phase' # "loop"
    BY <1>a, <2>1 DEF After
  <2> HIDE DEF name, text, jailopts
  <2> QED
    BY <2>2, <2>3, <2>4, CallBegins
<1>7. CASE IncludeError
  <2>1. CASE Fail("not found")
    BY <2>1, <1>b DEF Fail, disk
  <2>2. CASE Head(Head(stack).text).name \in loop_detect /\ Fail("loop")
    <3>1. \E i \in DOMAIN stack : stack[i].file = Head(Head(stack).text).name
      BY <2>2 DEF ConfigInv, LoopCheck
    <3>2. UNCHANGED <<stack, files, parsing_config_file, loop_detect>>
      BY <2>2 DEF Fail, disk
    <3> QED
      BY <3>1, <3>2 DEF ConfigInv, LoopCheck, FramesOK, OfFile, IsSeq
  <2> QED
    BY <1>7, <2>1, <2>2 DEF IncludeError
<1>8. CASE Leave
  <2>1. /\ stack # <<>> /\ stack' = Tail(stack)
        /\ loop_detect' = loop_detect \ {Head(stack).file}
        /\ parsing_config_file' = Head(stack).saved
        /\ UNCHANGED files /\ phase' # "loop"
    BY <1>8 DEF Leave, Parsing, disk, After
  <2> QED
    BY <2>1, CallReturns
<1>9. CASE EnsureFiles
  <2>1. "argv" \notin DOMAIN files' /\ phase' # "loop"
        /\ UNCHANGED <<stack, parsing_config_file, loop_detect>>
    BY <1>a, <1>9 DEF EnsureFiles
  <2>2. SameCalls(stack')
    BY <1>a, <2>1
  <2> QED
    BY <2>1, <2>2, CallsStay
<1>10. CASE InitConfig \/ Unmount
  BY <1>10, <1>b DEF InitConfig, Unmount, disk
<1>11. CASE ChooseConf
  <2>1. CASE Fail("not found")
    BY <2>1, <1>b DEF Fail, disk
  <2>2. CASE /\ ConfFile \in DOMAIN files
             /\ EnterConfig(ConfFile, files[ConfFile], FALSE, stack)
             /\ phase' = "conf" /\ UNCHANGED files
    <3>1. /\ stack' = <<Frame(ConfFile, files[ConfFile], FALSE)>> \o stack
          /\ ConfFile \notin loop_detect /\ loop_detect' = loop_detect \cup {ConfFile}
          /\ parsing_config_file' = TRUE
      BY <2>2 DEF EnterConfig
    <3>2. ConfFile # "argv" /\ "argv" \notin DOMAIN files' /\ phase' # "loop"
      BY <1>a, <2>2
    <3> QED
      BY <1>a, <3>1, <3>2, CallBegins
  <2> QED
    BY <1>11, <2>1, <2>2 DEF ChooseConf, disk
<1>12. CASE OpenJail
  <2>1. PICK key : /\ EnterConfig(".jail", jails'[key], TRUE, <<>>)
                   /\ stack = <<>> /\ phase' = "dotjail" /\ UNCHANGED files
    BY <1>12 DEF OpenJail
  <2>2. /\ stack' = <<Frame(".jail", jails'[key], TRUE)>> \o stack
        /\ ".jail" \notin loop_detect /\ loop_detect' = loop_detect \cup {".jail"}
        /\ parsing_config_file' = TRUE
    BY <2>1 DEF EnterConfig
  <2> QED
    BY <1>a, <2>1, <2>2, CallBegins
<1>13. CASE UNCHANGED vars
  BY <1>13 DEF vars, ConfigInv, LoopCheck, FramesOK, OfFile, IsSeq
<1> QED
  BY <1>1, <1>2, <1>3, <1>4, <1>5, <1>6, <1>7, <1>8, <1>9, <1>10, <1>11, <1>12, <1>13
     DEF Next

(***************************************************************************)
(* The inductive invariant holds in every reachable state.                 *)
(***************************************************************************)
THEOREM ConfigInvariant == Spec => []ConfigInv
<1> QED
  BY ConfigInitInv, ConfigNextInv, PTL DEF Spec

(***************************************************************************)
(* However the files include each other: none is parsed inside itself, and *)
(* a loop is reported only for a file that is being parsed.                *)
(***************************************************************************)
THEOREM NoFileInItself == Spec => []LoopCheck
<1>1. ConfigInv => LoopCheck
  BY DEF ConfigInv
<1> QED
  BY <1>1, ConfigInvariant, PTL

(***************************************************************************)
(* parsing_config_file_ is set exactly while a file is parsed, after an    *)
(* include has returned as before it.                                      *)
(***************************************************************************)
THEOREM FlagIsRight == Spec => []FlagTellsConfig
<1>1. ConfigInv => FlagTellsConfig
  <2> SUFFICES ASSUME ConfigInv, Parsing
               PROVE  parsing_config_file <=> Head(stack).file # "argv"
    BY DEF FlagTellsConfig
  <2>1. IsSeq(stack) /\ stack # <<>>
    BY DEF ConfigInv, FramesOK, Parsing
  <2>2. 1 \in DOMAIN stack /\ Head(stack) = stack[1]
    BY <2>1, Popped
  <2> QED
    BY <2>2 DEF ConfigInv, FramesOK, OfFile
<1> QED
  BY <1>1, ConfigInvariant, PTL

-----------------------------------------------------------------------------
(* What one line of the command line does to the configuration, and to the *)
(* last lines of each kind among those that have been read.                *)

\* The variables that make_env keeps or makes.
EnvVars(c) ==
  DOMAIN c.setenv \cup {x \in Environ : ~ \E p \in c.filter : Glob(p, x)}

CfgOf(c) ==
  [mode |-> c.mode, dirs |-> c.dirs, grant_cwd |-> c.grant_cwd,
   sandbox_name |-> c.sandbox_name, mask |-> c.mask, shellcmd |-> c.shellcmd,
   storagedir |-> c.storagedir, filter |-> c.filter, setenv |-> c.setenv]

\* What the option has nothing to do with keeps its value.
Kept(c, d, o, x) ==
  \A v \in DOMAIN c.setenv :
    ~ (o \in SetOpts \cup {"unsetenv"} /\ Glob(x, v)) =>
      v \in DOMAIN d.setenv /\ d.setenv[v] = c.setenv[v]

\* The configuration d is c with an option o and its argument x in force, a
\* path of which is relative to base.
Applied(c, d, o, x, base) ==
  /\ d.mode = IF o = "mode" THEN x ELSE c.mode
  /\ d.sandbox_name = IF o = "jail" THEN x ELSE c.sandbox_name
  /\ d.shellcmd = IF o = "command" THEN x ELSE c.shellcmd
  /\ d.storagedir = IF o = "storage" THEN Join(base, x) ELSE c.storagedir
  /\ d.dirs = (IF o = "dir" THEN c.dirs \cup {Join(base, x)}
               ELSE IF o = "xdir" THEN c.dirs \ {Join(base, x)} ELSE c.dirs)
  /\ d.grant_cwd = IF o = "nocwd" THEN FALSE ELSE c.grant_cwd
  /\ d.mask = (IF o = "mask" THEN c.mask \cup {x}
               ELSE IF o = "unmask" THEN c.mask \ {x} ELSE c.mask)
  /\ \A v \in EnvVars(d) :
       \/ v \in EnvVars(c) /\ ~ (o = "unsetenv" /\ Glob(x, v))
       \/ o \in SetOpts /\ Glob(x, v)
  /\ Kept(c, d, o, x)

LEMMA GlobSelf == ASSUME NEW v PROVE Glob(v, v)
  BY DEF Glob

LEMMA UnsetenvApplied ==
  ASSUME NEW c, c = CfgOf(c), NEW x, NEW base
  PROVE  /\ Unsetenv(c, x) = CfgOf(Unsetenv(c, x))
         /\ Applied(c, Unsetenv(c, x), "unsetenv", x, base)
<1>1. PICK f : f = Without(c.setenv, {v \in DOMAIN c.setenv : Glob(x, v)})
  OBVIOUS
<1>2. DOMAIN f = {v \in DOMAIN c.setenv : ~ Glob(x, v)}
  BY <1>1 DEF Without
<1>3. PICK d : d = Unsetenv(c, x)
  OBVIOUS
<1>4. d = [c EXCEPT !.setenv = f, !.filter = c.filter \cup {x}]
  BY <1>1, <1>3 DEF Unsetenv
<1>5. d = [mode |-> c.mode, dirs |-> c.dirs, grant_cwd |-> c.grant_cwd,
           sandbox_name |-> c.sandbox_name, mask |-> c.mask, shellcmd |-> c.shellcmd,
           storagedir |-> c.storagedir, filter |-> c.filter \cup {x}, setenv |-> f]
  BY <1>4 DEF CfgOf
<1>6. d = CfgOf(d)
  BY <1>5 DEF CfgOf
<1>7. ASSUME NEW v \in EnvVars(d)
      PROVE  v \in EnvVars(c) /\ ~ Glob(x, v)
  <2>1. d.setenv = f /\ d.filter = c.filter \cup {x}
    BY <1>5
  <2> QED
    BY <1>2, <1>7, <2>1 DEF EnvVars
<1>8. Applied(c, d, "unsetenv", x, base)
  <2>1. Kept(c, d, "unsetenv", x)
    BY <1>1, <1>2, <1>5 DEF Kept, Without
  <2> QED
    BY <1>5, <1>7, <2>1 DEF Applied
<1> QED
  BY <1>3, <1>6, <1>8

LEMMA SetenvApplied ==
  ASSUME NEW c, c = CfgOf(c), NEW x, NEW base
  PROVE  /\ Setenv(c, x) = CfgOf(Setenv(c, x))
         /\ Applied(c, Setenv(c, x), "setenv", x, base)
<1>1. PICK d : d = Setenv(c, x)
  OBVIOUS
<1>2. CASE x \in c.filter
  <2>1. d = [c EXCEPT !.filter = c.filter \ {x}]
    BY <1>1, <1>2 DEF Setenv
  <2>2. d = [mode |-> c.mode, dirs |-> c.dirs, grant_cwd |-> c.grant_cwd,
             sandbox_name |-> c.sandbox_name, mask |-> c.mask, shellcmd |-> c.shellcmd,
             storagedir |-> c.storagedir, filter |-> c.filter \ {x}, setenv |-> c.setenv]
    BY <2>1 DEF CfgOf
  <2>3. ASSUME NEW v \in EnvVars(d)
        PROVE  v \in EnvVars(c) \/ Glob(x, v)
    <3>1. d.setenv = c.setenv /\ d.filter = c.filter \ {x}
      BY <2>2
    <3> QED
      BY <2>3, <3>1 DEF EnvVars
  <2>4. d = CfgOf(d)
    BY <2>2 DEF CfgOf
  <2>5. Applied(c, d, "setenv", x, base)
    BY <2>2, <2>3 DEF Applied, Kept, SetOpts
  <2> QED
    BY <1>1, <2>4, <2>5
<1>3. CASE x \notin c.filter /\ x \in Environ /\ \E p \in c.filter : Glob(p, x)
  <2>1. PICK f : f = With(c.setenv, x, "outer")
    OBVIOUS
  <2>2. DOMAIN f = DOMAIN c.setenv \cup {x}
    BY <2>1 DEF With
  <2>3. d = [c EXCEPT !.setenv = f]
    BY <1>1, <1>3, <2>1 DEF Setenv
  <2>4. d = [mode |-> c.mode, dirs |-> c.dirs, grant_cwd |-> c.grant_cwd,
             sandbox_name |-> c.sandbox_name, mask |-> c.mask, shellcmd |-> c.shellcmd,
             storagedir |-> c.storagedir, filter |-> c.filter, setenv |-> f]
    BY <2>3 DEF CfgOf
  <2>5. ASSUME NEW v \in EnvVars(d)
        PROVE  v \in EnvVars(c) \/ Glob(x, v)
    <3>1. d.setenv = f /\ d.filter = c.filter
      BY <2>4
    <3> QED
      BY <2>2, <2>5, <3>1, GlobSelf DEF EnvVars
  <2>6. d = CfgOf(d)
    BY <2>4 DEF CfgOf
  <2>7. Kept(c, d, "setenv", x)
    BY <2>1, <2>2, <2>4, GlobSelf DEF Kept, With, SetOpts
  <2>8. Applied(c, d, "setenv", x, base)
    BY <2>4, <2>5, <2>7 DEF Applied, SetOpts
  <2> QED
    BY <1>1, <2>6, <2>8
<1>4. CASE x \notin c.filter /\ ~ (x \in Environ /\ \E p \in c.filter : Glob(p, x))
  <2>1. d = c
    BY <1>1, <1>4 DEF Setenv
  <2> QED
    BY <1>1, <2>1 DEF Applied, Kept
<1> QED
  BY <1>2, <1>3, <1>4

LEMMA AssignApplied ==
  ASSUME NEW c, c = CfgOf(c), NEW x, NEW e, NEW base, NEW o \in {"assign", "assignref"},
         NEW d, d = [c EXCEPT !.setenv = With(c.setenv, x, e)]
  PROVE  d = CfgOf(d) /\ Applied(c, d, o, x, base)
<1>1. PICK f : f = With(c.setenv, x, e)
  OBVIOUS
<1>2. DOMAIN f = DOMAIN c.setenv \cup {x}
  BY <1>1 DEF With
<1>3. d = [c EXCEPT !.setenv = f]
  BY <1>1
<1>4. d = [mode |-> c.mode, dirs |-> c.dirs, grant_cwd |-> c.grant_cwd,
           sandbox_name |-> c.sandbox_name, mask |-> c.mask, shellcmd |-> c.shellcmd,
           storagedir |-> c.storagedir, filter |-> c.filter, setenv |-> f]
  BY <1>3 DEF CfgOf
<1>5. ASSUME NEW v \in EnvVars(d)
      PROVE  v \in EnvVars(c) \/ Glob(x, v)
  <2>1. d.setenv = f /\ d.filter = c.filter
    BY <1>4
  <2> QED
    BY <1>2, <1>5, <2>1, GlobSelf DEF EnvVars
<1>6. d = CfgOf(d)
  BY <1>4 DEF CfgOf
<1>7. Kept(c, d, o, x)
  BY <1>1, <1>2, <1>4, GlobSelf DEF Kept, With, SetOpts
<1>8. Applied(c, d, o, x, base)
  BY <1>4, <1>5, <1>7 DEF Applied, SetOpts
<1> QED
  BY <1>6, <1>8

\* The variable of an assignment has its value.
Assigned(c, line) ==
  line.name \in DOMAIN c.setenv /\ c.setenv[line.name] = line.val

\* The options of opt_parser.
LEMMA EffectApplied ==
  ASSUME NEW c, c = CfgOf(c), NEW line, line.opt \in FileOpts \ {"conf"}, NEW inConfig
  PROVE  /\ Effect(c, line, inConfig) = CfgOf(Effect(c, line, inConfig))
         /\ Applied(c, Effect(c, line, inConfig), line.opt, line.name, Base(inConfig))
         /\ line.opt = "assign" => Assigned(Effect(c, line, inConfig), line)
<1>1. PICK d : d = Effect(c, line, inConfig)
  OBVIOUS
<1>2. PICK x, o, b : x = line.name /\ o = line.opt /\ b = Base(inConfig)
  OBVIOUS
<1>3. CASE o = "unsetenv"
  <2>1. d = Unsetenv(c, x)
    BY <1>1, <1>2, <1>3 DEF Effect
  <2> QED
    BY <1>1, <1>2, <1>3, <2>1, UnsetenvApplied
<1>4. CASE o = "setenv"
  <2>1. d = Setenv(c, x)
    BY <1>1, <1>2, <1>4 DEF Effect
  <2> QED
    BY <1>1, <1>2, <1>4, <2>1, SetenvApplied
<1>5. CASE o \in {"assign", "assignref"}
  <2>1. PICK e : d = [c EXCEPT !.setenv = With(c.setenv, x, e)]
    BY <1>1, <1>2, <1>5 DEF Effect
  <2>2. d = CfgOf(d) /\ Applied(c, d, o, x, b)
    BY <1>5, <2>1, AssignApplied
  <2>3. o = "assign" => Assigned(d, line)
    <3>1. SUFFICES ASSUME o = "assign" PROVE Assigned(d, line)
      OBVIOUS
    <3>2. PICK val : val = line.val
      OBVIOUS
    <3>3. d = [c EXCEPT !.setenv = With(c.setenv, x, val)]
      BY <1>1, <1>2, <3>1, <3>2 DEF Effect
    <3>4. PICK f : f = With(c.setenv, x, val)
      OBVIOUS
    <3>5. x \in DOMAIN f /\ f[x] = val
      BY <3>4 DEF With
    <3>6. d = [c EXCEPT !.setenv = f]
      BY <3>3, <3>4
    <3>7. "setenv" \in DOMAIN c
      BY DEF CfgOf
    <3>8. d.setenv = f
      BY <3>6, <3>7
    <3> QED
      BY <1>2, <3>2, <3>5, <3>8 DEF Assigned
  <2> QED
    BY <1>1, <1>2, <2>2, <2>3
<1>6. CASE o \in {"mode", "jail", "command", "storage", "dir", "xdir", "nocwd", "mask", "unmask"}
  <2>1. d = [mode |-> IF o = "mode" THEN x ELSE c.mode,
             dirs |-> IF o = "dir" THEN c.dirs \cup {Join(b, x)}
                      ELSE IF o = "xdir" THEN c.dirs \ {Join(b, x)} ELSE c.dirs,
             grant_cwd |-> IF o = "nocwd" THEN FALSE ELSE c.grant_cwd,
             sandbox_name |-> IF o = "jail" THEN x ELSE c.sandbox_name,
             mask |-> IF o = "mask" THEN c.mask \cup {x}
                      ELSE IF o = "unmask" THEN c.mask \ {x} ELSE c.mask,
             shellcmd |-> IF o = "command" THEN x ELSE c.shellcmd,
             storagedir |-> IF o = "storage" THEN Join(b, x) ELSE c.storagedir,
             filter |-> c.filter, setenv |-> c.setenv]
    <3>1. CASE o = "mode"
      BY <1>1, <1>2, <3>1 DEF Effect, CfgOf
    <3>2. CASE o = "jail"
      BY <1>1, <1>2, <3>2 DEF Effect, CfgOf
    <3>3. CASE o = "command"
      BY <1>1, <1>2, <3>3 DEF Effect, CfgOf
    <3>4. CASE o = "storage"
      BY <1>1, <1>2, <3>4 DEF Effect, CfgOf
    <3>5. CASE o = "dir"
      BY <1>1, <1>2, <3>5 DEF Effect, CfgOf
    <3>6. CASE o = "xdir"
      BY <1>1, <1>2, <3>6 DEF Effect, CfgOf
    <3>7. CASE o = "nocwd"
      BY <1>1, <1>2, <3>7 DEF Effect, CfgOf
    <3>8. CASE o = "mask"
      BY <1>1, <1>2, <3>8 DEF Effect, CfgOf
    <3>9. CASE o = "unmask"
      BY <1>1, <1>2, <3>9 DEF Effect, CfgOf
    <3> QED
      BY <1>6, <3>1, <3>2, <3>3, <3>4, <3>5, <3>6, <3>7, <3>8, <3>9
  <2>2. d = CfgOf(d)
    BY <2>1 DEF CfgOf
  <2>3. EnvVars(d) = EnvVars(c)
    BY <2>1 DEF EnvVars
  <2>4. Applied(c, d, o, x, b)
    BY <1>6, <2>1, <2>3 DEF Applied, Kept
  <2> QED
    BY <1>1, <1>2, <1>6, <2>2, <2>4
<1> QED
  BY <1>2, <1>3, <1>4, <1>5, <1>6 DEF FileOpts

LEMMA CliOnlyApplied ==
  ASSUME NEW c, NEW o \in CliOnly, NEW x, NEW base
  PROVE  Applied(c, c, o, x, base)
  BY DEF Applied, Kept, CliOnly

LEMMA AppendOne ==
  ASSUME NEW S, NEW s \in Seq(S), NEW x \in S
  PROVE  Len(Append(s, x)) = Len(s) + 1 /\ Append(s, x)[Len(s) + 1] = x
  OBVIOUS

LEMMA JoinApart ==
  ASSUME NEW a, NEW b, Join(Cwd, a) = Join(Cwd, b)
  PROVE  a = b
<1>1. ASSUME NEW x
      PROVE  /\ Len(Append(Cwd, x)) = 2 /\ Append(Cwd, x)[2] = x
             /\ Append(Cwd, x) # <<"/abs">> /\ Append(Cwd, x) # Cwd
  <2>1. PICK S : S = {"cwd", x}
    OBVIOUS
  <2>2. Cwd \in Seq(S) /\ x \in S /\ Len(Cwd) = 1
    BY <2>1 DEF Cwd
  <2>3. Len(<<"/abs">>) = 1
    OBVIOUS
  <2>4. Len(Append(Cwd, x)) = 1 + 1 /\ Append(Cwd, x)[1 + 1] = x
    BY <2>2, AppendOne
  <2> QED
    BY <2>2, <2>3, <2>4
<1>2. <<"/abs">> # Cwd
  BY DEF Cwd
<1> QED
  BY <1>1, <1>2 DEF Join

LEMMA EnvDomain == DOMAIN Env = EnvVars(cfg)
  BY DEF Env, EnvVars

\* The last lines among the first n + 1: line n + 1, or one before it.
LEMMA LastOfMore ==
  ASSUME NEW n \in Nat, NEW i \in 1 .. n + 1, NEW options, LastOf(i, n + 1, options)
  PROVE  \/ i = n + 1 /\ cli[n + 1].opt \in options
         \/ i \in 1 .. n /\ LastOf(i, n, options) /\ cli[n + 1].opt \notin options
<1>1. CASE i = n + 1
  BY <1>1 DEF LastOf
<1>2. CASE i # n + 1
  <2>1. i \in 1 .. n /\ n + 1 \in i + 1 .. n + 1 /\ \A j \in i + 1 .. n : j \in i + 1 .. n + 1
    BY <1>2
  <2> QED
    BY <2>1 DEF LastOf
<1> QED
  BY <1>1, <1>2

LEMMA LineInForce ==
  ASSUME NEW n \in Nat, InForce(n), UNCHANGED cli,
         Applied(cfg, cfg', cli[n + 1].opt, cli[n + 1].name, Cwd),
         cli[n + 1].opt = "assign" => Assigned(cfg', cli[n + 1])
  PROVE  InForce(n + 1)'
<1>1. PICK o, x : o = cli[n + 1].opt /\ x = cli[n + 1].name
  OBVIOUS
<1>2. ASSUME NEW i \in 1 .. n + 1, NEW options, LastOf(i, n + 1, options)
      PROVE  \/ i = n + 1 /\ o \in options
             \/ i \in 1 .. n /\ LastOf(i, n, options) /\ o \notin options
  BY <1>1, <1>2, LastOfMore
<1>3. \A i, m, options : LastOf(i, m, options)' <=> LastOf(i, m, options)
  BY DEF LastOf
<1>4. ASSUME NEW i \in 1 .. n + 1
      PROVE  /\ LastOf(i, n + 1, {"mode"}) => cfg'.mode = cli[i].name
             /\ LastOf(i, n + 1, {"jail"}) => cfg'.sandbox_name = cli[i].name
             /\ LastOf(i, n + 1, {"command"}) => cfg'.shellcmd = cli[i].name
  <2>1. /\ cfg'.mode = IF o = "mode" THEN x ELSE cfg.mode
        /\ cfg'.sandbox_name = IF o = "jail" THEN x ELSE cfg.sandbox_name
        /\ cfg'.shellcmd = IF o = "command" THEN x ELSE cfg.shellcmd
    BY <1>1 DEF Applied
  <2>2. ASSUME i \in 1 .. n
        PROVE  /\ LastOf(i, n, {"mode"}) => cfg.mode = cli[i].name
               /\ LastOf(i, n, {"jail"}) => cfg.sandbox_name = cli[i].name
               /\ LastOf(i, n, {"command"}) => cfg.shellcmd = cli[i].name
    BY <2>2 DEF InForce
  <2> QED
    BY <1>1, <1>2, <2>1, <2>2
<1>4a. ASSUME NEW i \in 1 .. n + 1, i # n + 1
       PROVE  i \in 1 .. n /\ n + 1 \in i + 1 .. n + 1 /\ \A j \in i + 1 .. n : j \in i + 1 .. n + 1
  BY <1>4a
<1>4b. ASSUME NEW i \in 1 .. n + 1, NEW options, LastOn(i, n + 1, options)
       PROVE  \/ i = n + 1 /\ o \in options
              \/ /\ i \in 1 .. n /\ LastOn(i, n, options)
                 /\ o \in options => x # cli[i].name
  BY <1>1, <1>4a, <1>4b DEF LastOn
<1>4c. ASSUME NEW i \in 1 .. n + 1, cli[i].opt = "nocwd"
       PROVE  ~ cfg'.grant_cwd
  <2>1. cfg'.grant_cwd = IF o = "nocwd" THEN FALSE ELSE cfg.grant_cwd
    BY <1>1 DEF Applied
  <2>2. i # n + 1 => ~ cfg.grant_cwd
    BY <1>4a, <1>4c DEF InForce
  <2> QED
    BY <1>1, <1>4c, <2>1, <2>2
<1>4d. ASSUME NEW i \in 1 .. n + 1, LastOn(i, n + 1, {"mask", "unmask"})
       PROVE  cli[i].name \in cfg'.mask <=> cli[i].opt = "mask"
  <2>1. cfg'.mask = IF o = "mask" THEN cfg.mask \cup {x}
                    ELSE IF o = "unmask" THEN cfg.mask \ {x} ELSE cfg.mask
    BY <1>1 DEF Applied
  <2>2. i # n + 1 => (cli[i].name \in cfg.mask <=> cli[i].opt = "mask")
    BY <1>4b, <1>4d DEF InForce
  <2> QED
    BY <1>1, <1>4b, <1>4d, <2>1, <2>2
<1>4e. ASSUME NEW i \in 1 .. n + 1, cli[i].opt = "assign",
              \A j \in i + 1 .. n + 1 : ~ About(j, cli[i].name)
       PROVE  Assigned(cfg', cli[i])
  <2>1. CASE i = n + 1
    BY <1>4e, <2>1
  <2>2. CASE i # n + 1
    <3>1. i \in 1 .. n /\ (\A j \in i + 1 .. n : ~ About(j, cli[i].name)) /\ ~ About(n + 1, cli[i].name)
      BY <1>4a, <1>4e, <2>2
    <3>2. Assigned(cfg, cli[i])
      BY <1>4e, <3>1 DEF InForce, Assigned
    <3>3. Kept(cfg, cfg', o, x)
      BY <1>1 DEF Applied
    <3> QED
      BY <1>1, <3>1, <3>2, <3>3 DEF Assigned, Kept, About
  <2> QED
    BY <2>1, <2>2
<1>5. ASSUME NEW i \in 1 .. n + 1, LastOn(i, n + 1, {"dir", "xdir"})
      PROVE  Join(Cwd, cli[i].name) \in cfg'.dirs <=> cli[i].opt = "dir"
  <2>1. cfg'.dirs = IF o = "dir" THEN cfg.dirs \cup {Join(Cwd, x)}
                    ELSE IF o = "xdir" THEN cfg.dirs \ {Join(Cwd, x)} ELSE cfg.dirs
    BY <1>1 DEF Applied
  <2>2. CASE i = n + 1
    BY <1>1, <1>5, <2>1, <2>2 DEF LastOn
  <2>3. CASE i # n + 1
    <3>2. i \in 1 .. n /\ LastOn(i, n, {"dir", "xdir"}) /\ (o \in {"dir", "xdir"} => x # cli[i].name)
      BY <1>4b, <1>5, <2>3
    <3>3. Join(Cwd, cli[i].name) \in cfg.dirs <=> cli[i].opt = "dir"
      BY <3>2 DEF InForce
    <3>4. o \in {"dir", "xdir"} => Join(Cwd, x) # Join(Cwd, cli[i].name)
      BY <3>2, JoinApart
    <3> QED
      BY <2>1, <3>3, <3>4
  <2> QED
    BY <2>2, <2>3
<1>6. ASSUME NEW i \in 1 .. n + 1, NEW v \in EnvVars(cfg'),
             cli[i].opt = "unsetenv", Glob(cli[i].name, v)
      PROVE  \E j \in i + 1 .. n + 1 :
               cli[j].opt \in SetOpts /\ Glob(cli[j].name, v)
  <2>1. \/ v \in EnvVars(cfg) /\ ~ (o = "unsetenv" /\ Glob(x, v))
        \/ o \in SetOpts /\ Glob(x, v)
    BY <1>1 DEF Applied
  <2>2. i # n + 1
    BY <1>1, <1>6, <2>1 DEF SetOpts
  <2>3. i \in 1 .. n /\ n + 1 \in i + 1 .. n + 1 /\ \A j \in i + 1 .. n : j \in i + 1 .. n + 1
    BY <2>2
  <2>4. CASE v \in EnvVars(cfg)
    <3>1. \E j \in i + 1 .. n :
            cli[j].opt \in SetOpts /\ Glob(cli[j].name, v)
      BY <1>6, <2>3, <2>4, EnvDomain DEF InForce
    <3> QED
      BY <2>3, <3>1
  <2>5. CASE o \in SetOpts /\ Glob(x, v)
    BY <1>1, <2>3, <2>5
  <2> QED
    BY <2>1, <2>4, <2>5
<1>7. DOMAIN Env' = EnvVars(cfg')
  BY DEF Env, EnvVars
<1>8. \A i, m, options : LastOn(i, m, options)' <=> LastOn(i, m, options)
  BY DEF LastOn
<1>9. \A j, v : About(j, v)' <=> About(j, v)
  BY DEF About
<1>10. ASSUME NEW i \in 1 .. n + 1
       PROVE  (/\ LastOf(i, n + 1, {"mode"}) => cfg.mode = cli[i].name
               /\ LastOf(i, n + 1, {"jail"}) => cfg.sandbox_name = cli[i].name
               /\ LastOf(i, n + 1, {"command"}) => cfg.shellcmd = cli[i].name
               /\ cli[i].opt = "nocwd" => ~ cfg.grant_cwd
               /\ LastOn(i, n + 1, {"dir", "xdir"}) =>
                    (Join(Cwd, cli[i].name) \in cfg.dirs <=> cli[i].opt = "dir")
               /\ LastOn(i, n + 1, {"mask", "unmask"}) =>
                    (cli[i].name \in cfg.mask <=> cli[i].opt = "mask"))'
  BY <1>3, <1>4, <1>4c, <1>4d, <1>5, <1>8
<1>11. ASSUME NEW i \in 1 .. n + 1
       PROVE  (cli[i].opt = "assign" /\ (\A j \in i + 1 .. n + 1 : ~ About(j, cli[i].name)) =>
                 cli[i].name \in DOMAIN cfg.setenv /\ cfg.setenv[cli[i].name] = cli[i].val)'
  BY <1>4e, <1>9 DEF Assigned
<1> QED
  BY <1>6, <1>7, <1>10, <1>11 DEF InForce

LEMMA StorageMore ==
  ASSUME NEW n \in Nat, NEW dir, NEW dir2, StorageOf(dir, n),
         dir2 = IF cli[n + 1].opt = "storage" THEN Join(Cwd, cli[n + 1].name) ELSE dir
  PROVE  StorageOf(dir2, n + 1)
<1>1. SUFFICES ASSUME NEW i \in 1 .. n + 1, LastOf(i, n + 1, {"storage"})
               PROVE  dir2 = Join(Cwd, cli[i].name)
  BY DEF StorageOf
<1> QED
  BY <1>1, LastOfMore DEF StorageOf

-----------------------------------------------------------------------------
(* The invariant CliInv.                                                   *)

LEMMA SeqDomain ==
  ASSUME NEW s, IsSeq(s)
  PROVE  DOMAIN s = 1 .. Len(s) /\ Len(s) \in Nat /\ (s = <<>> <=> Len(s) = 0)
  BY DEF IsSeq

LEMMA JoinNotEmpty == \A x : Join(Cwd, x) # <<>>
<1>1. ASSUME NEW x PROVE Append(Cwd, x) # <<>>
  <2>1. PICK S : S = {"cwd", x}
    OBVIOUS
  <2>2. Cwd \in Seq(S) /\ x \in S
    BY <2>1 DEF Cwd
  <2>3. Len(Append(Cwd, x)) = Len(Cwd) + 1 /\ Len(Cwd) = 1 /\ Len(<<>>) = 0
    BY <2>2, AppendOne DEF Cwd
  <2> QED
    BY <2>3
<1> QED
  BY <1>1 DEF Join, Cwd

LEMMA CliInitInv == Init => CliInv
<1> SUFFICES ASSUME Init PROVE CliInv
  OBVIOUS
<1>1. CfgShape
  BY DEF Init, CfgShape
<1>2. CliLines
  <2>1. /\ IsSeq(cli)
        /\ \A i \in DOMAIN cli : cli[i].opt # "conf"
    BY SuitesAssumption DEF Init
  <2> QED
    BY <2>1, SeqDomain DEF CliLines
<1> QED
  BY <1>1, <1>2 DEF Init, CliInv, CliFrame, CliStorage, JailChosen

LEMMA SameForce ==
  ASSUME UNCHANGED <<cfg, cli>>, NEW n
  PROVE  InForce(n)' <=> InForce(n)
<1>1. Env' = Env
  BY DEF Env
<1>2. \A i, m, options : LastOf(i, m, options)' <=> LastOf(i, m, options)
  BY DEF LastOf
<1>3. /\ \A i, m, options : LastOn(i, m, options)' <=> LastOn(i, m, options)
      /\ \A j, v : About(j, v)' <=> About(j, v)
  BY DEF LastOn, About
<1> QED
  BY <1>1, <1>2, <1>3 DEF InForce

LEMMA SameStorage ==
  ASSUME UNCHANGED cli, NEW dir, NEW n
  PROVE  StorageOf(dir, n)' <=> StorageOf(dir, n)
  BY DEF StorageOf, LastOf

LEMMA ForceNone == InForce(0) /\ NamesOk(0)
  BY DEF InForce, NamesOk

LEMMA SameNames == ASSUME UNCHANGED cli, NEW n PROVE NamesOk(n)' <=> NamesOk(n)
  BY DEF NamesOk

\* The next line of a command line that is being parsed.
LEMMA NextLine ==
  ASSUME ConfigInv, CliInv, phase \in {"cli1", "cli2", "cli3"}, stack # <<>>,
         Head(stack).text # <<>>
  PROVE  /\ Head(stack) = stack[1]
         /\ LinesRead \in Nat /\ LinesRead + 1 \in 1 .. Len(cli)
         /\ Head(stack[1].text) = cli[LinesRead + 1]
         /\ parsing_config_file = FALSE
<1>1. IsSeq(stack)
  BY DEF ConfigInv, FramesOK
<1>2. 1 \in DOMAIN stack /\ Head(stack) = stack[1]
  BY <1>1, Popped
<1>3. PICK t : t = stack[1].text
  OBVIOUS
<1>4. /\ IsSeq(t) /\ Len(t) <= Len(cli)
      /\ \A i \in 1 .. Len(t) : t[i] = cli[Len(cli) - Len(t) + i]
      /\ stack[1].file = "argv"
  BY <1>3 DEF CliInv, CliFrame, LinesRead
<1>5. t # <<>>
  BY <1>2, <1>3
<1>6. Len(t) \in Nat \ {0} /\ Head(t) = t[1]
  BY <1>4, <1>5, Popped
<1>7. Len(cli) \in Nat
  BY SeqDomain DEF CliInv, CliLines
<1>8. parsing_config_file = FALSE
  BY <1>4 DEF ConfigInv, FramesOK, OfFile
<1>9. LinesRead = Len(cli) - Len(t)
  BY <1>3 DEF LinesRead
<1>10. Len(cli) - Len(t) \in Nat /\ Len(cli) - Len(t) + 1 \in 1 .. Len(cli) /\ 1 \in 1 .. Len(t)
  BY <1>4, <1>6, <1>7
<1>11. t[1] = cli[Len(cli) - Len(t) + 1]
  BY <1>4, <1>10
<1> QED
  BY <1>2, <1>3, <1>6, <1>8, <1>9, <1>10, <1>11

\* A line of the command line is read.
LEMMA CliLineRead ==
  ASSUME ConfigInv, CliInv, phase \in {"cli1", "cli2", "cli3"}, stack # <<>>,
         Head(stack).text # <<>>, stack' = Rest,
         UNCHANGED <<cli, phase, storage_fd, dotjail>>, CfgShape',
         Applied(cfg, cfg', cli[LinesRead + 1].opt, cli[LinesRead + 1].name, Cwd),
         cli[LinesRead + 1].opt = "assign" => Assigned(cfg', cli[LinesRead + 1]),
         cli[LinesRead + 1].opt = "jail" => name_ok(cli[LinesRead + 1].name)
  PROVE  CliInv'
<1>1. PICK n : n = LinesRead
  OBVIOUS
<1>2. n \in Nat /\ n + 1 \in 1 .. Len(cli) /\ Len(cli) \in Nat
  BY <1>1, NextLine, SeqDomain DEF CliInv, CliLines
<1>3. PICK t, u : t = stack[1].text /\ u = Tail(t)
  OBVIOUS
<1>4. Head(stack) = stack[1] /\ t # <<>>
  BY <1>3, NextLine
<1>5. /\ IsSeq(t) /\ \A i \in 1 .. Len(t) : t[i] = cli[n + i]
      /\ n = Len(cli) - Len(t) /\ Len(stack) = 1
      /\ stack[1].file = "argv" /\ ~ stack[1].dotjail
  BY <1>1, <1>3 DEF CliInv, CliFrame, LinesRead
<1>6. /\ IsSeq(u) /\ Len(u) = Len(t) - 1 /\ Len(t) \in Nat \ {0}
      /\ \A i \in 1 .. Len(u) : u[i] = t[i + 1]
  BY <1>3, <1>4, <1>5, Popped
<1>7. /\ stack'[1] = [file |-> stack[1].file, text |-> u,
                     dotjail |-> stack[1].dotjail, saved |-> stack[1].saved]
      /\ IsSeq(stack') /\ DOMAIN stack' = DOMAIN stack
  BY <1>3, RestIs DEF ConfigInv
<1>8. Len(stack') = 1
  <2>1. DOMAIN stack' = 1 .. Len(stack') /\ Len(stack') \in Nat
    BY <1>7, SeqDomain
  <2>2. DOMAIN stack = 1 .. 1
    BY <1>5, SeqDomain DEF ConfigInv, FramesOK
  <2>3. PICK m : m = Len(stack')
    OBVIOUS
  <2>4. m \in Nat /\ 1 .. m = 1 .. 1
    BY <1>7, <2>1, <2>2, <2>3
  <2>5. 1 \in 1 .. 1 /\ (m > 1 => m \in 1 .. m)
    BY <2>4
  <2>6. 1 \in 1 .. m /\ (m > 1 => m \in 1 .. 1)
    BY <2>4, <2>5
  <2>7. m = 1
    BY <2>4, <2>6
  <2> QED
    BY <2>3, <2>7
<1>9. stack'[1].text = u /\ stack'[1].file = "argv" /\ ~ stack'[1].dotjail
  BY <1>5, <1>7
<1>10. LinesRead' = n + 1
  <2>1. LinesRead' = Len(cli) - Len(u)
    BY <1>9 DEF LinesRead
  <2> QED
    BY <1>2, <1>5, <1>6, <2>1
<1>11. Len(u) <= Len(cli) /\ \A i \in 1 .. Len(u) : u[i] = cli[(n + 1) + i]
  <2>1. \A i \in 1 .. Len(u) : i + 1 \in 1 .. Len(t) /\ n + (i + 1) = (n + 1) + i
    BY <1>2, <1>6
  <2> QED
    BY <1>2, <1>5, <1>6, <2>1
<1>12. PICK o, x : o = cli[n + 1].opt /\ x = cli[n + 1].name
  OBVIOUS
<1>13. Applied(cfg, cfg', o, x, Cwd)
  BY <1>1, <1>12
<1>14. InForce(n + 1)'
  <2>1. InForce(n)
    BY <1>1 DEF CliInv, CliFrame
  <2> QED
    BY <1>1, <1>2, <1>12, <1>13, <2>1, LineInForce
<1>15. CliFrame'
  <2>1. InForce(LinesRead)'
    BY <1>10, <1>14
  <2>2. NamesOk(n)
    BY <1>1 DEF CliInv, CliFrame
  <2>3. \A i \in 1 .. n + 1 : cli[i].opt = "jail" => name_ok(cli[i].name)
    <3>1. \A i \in 1 .. n + 1 : i = n + 1 \/ i \in 1 .. n
      BY <1>2
    <3> QED
      BY <1>1, <2>2, <3>1 DEF NamesOk
  <2>4. NamesOk(LinesRead)'
    BY <1>10, <2>3 DEF NamesOk
  <2> QED
    BY <1>8, <1>9, <1>6, <1>10, <1>11, <2>1, <2>4 DEF CliFrame
<1>16. CliStorage'
  <2>2. ASSUME phase = "cli2" PROVE StorageOf(cfg'.storagedir, n + 1)
    <3>1. StorageOf(cfg.storagedir, n)
      BY <1>1, <2>2 DEF CliInv, CliStorage
    <3>2. cfg'.storagedir = IF o = "storage" THEN Join(Cwd, x) ELSE cfg.storagedir
      BY <1>13 DEF Applied
    <3> QED
      BY <1>2, <1>12, <3>1, <3>2, StorageMore
  <2>3. phase = "cli2" => StorageOf(cfg.storagedir, LinesRead)'
    BY <1>10, <2>2 DEF StorageOf, LastOf
  <2>4. phase = "cli3" =>
          /\ storage_fd # <<>> /\ StorageOf(storage_fd, Len(cli))'
          /\ dotjail = <<storage_fd, dotjail[2]>>
          /\ \A i \in 1 .. Len(cli) :
               LastOf(i, Len(cli), {"jail"})' => dotjail[2] = cli[i].name
    BY DEF CliInv, CliStorage, StorageOf, LastOf
  <2> QED
    BY <2>3, <2>4 DEF CliInv, CliStorage
<1>17. JailChosen'
  <2>1. ASSUME phase = "cli3", cfg'.sandbox_name # dotjail[2]
        PROVE  \E j \in (n + 1) + 1 .. Len(cli) : cli[j].opt = "jail"
    <3>1. cfg'.sandbox_name = IF o = "jail" THEN x ELSE cfg.sandbox_name
      BY <1>13 DEF Applied
    <3>2. CASE o = "jail"
      <4>1. SUFFICES ASSUME \A j \in (n + 1) + 1 .. Len(cli) : cli[j].opt # "jail"
                     PROVE  FALSE
        OBVIOUS
      <4>2. LastOf(n + 1, Len(cli), {"jail"})
        BY <1>2, <1>12, <3>2, <4>1 DEF LastOf
      <4>3. dotjail[2] = x
        BY <1>2, <1>12, <2>1, <4>2 DEF CliInv, CliStorage
      <4> QED
        BY <2>1, <3>1, <3>2, <4>3
    <3>3. CASE o # "jail"
      <4>1. PICK j \in n + 1 .. Len(cli) : cli[j].opt = "jail"
        BY <1>1, <2>1, <3>1, <3>3 DEF CliInv, JailChosen
      <4>2. j # n + 1
        BY <1>12, <3>3, <4>1
      <4>3. j \in (n + 1) + 1 .. Len(cli)
        BY <1>2, <4>2
      <4> QED
        BY <4>1, <4>3
    <3> QED
      BY <3>2, <3>3
  <2> QED
    BY <1>10, <2>1 DEF JailChosen
<1>18. CliLines'
  BY DEF CliInv, CliLines
<1> QED
  BY <1>15, <1>16, <1>17, <1>18 DEF CliInv

\* The steps that leave the configuration and the command line alone, and
\* from which nothing more is to follow.
LEMMA CliEnds ==
  ASSUME CliInv, CfgShape', UNCHANGED cli,
         phase' \in {"usage", "refused", "not found", "loop", "inited", "unmounted"}
  PROVE  CliInv'
  BY DEF CliInv, CliLines, CliFrame, CliStorage, JailChosen

LEMMA SameCfg == ASSUME CliInv, UNCHANGED cfg PROVE CfgShape'
  BY DEF CliInv, CfgShape

LEMMA CliFails == ASSUME CliInv, NEW why, Fail(why),
                         why \in {"refused", "not found", "loop"}
                  PROVE  CliInv'
<1>1. UNCHANGED <<cfg, cli>> /\ phase' \in {"usage", "refused", "not found", "loop"}
  BY DEF Fail, input
<1> QED
  BY <1>1, SameCfg, CliEnds

\* A pass over the command line begins.
LEMMA CliPass ==
  ASSUME ConfigInv, CliInv, NEW from, NEW to, ParseArgv(from, to),
         <<from, to>> \in {<<"start", "cli1">>, <<"argv2", "cli2">>, <<"argv3", "cli3">>}
  PROVE  CliInv'
<1>1. /\ phase = from /\ phase' = to
      /\ UNCHANGED <<cli, cfg, storage_fd, dotjail>>
  BY DEF ParseArgv, input
<1>2. PICK f : f = Frame("argv", cli, FALSE)
  OBVIOUS
<1>3. f.file = "argv" /\ f.text = cli /\ ~ f.dotjail
  BY <1>2 DEF Frame
<1>4. stack' = <<f>> /\ Len(stack') = 1 /\ stack'[1] = f
  BY <1>2 DEF ParseArgv
<1>5. IsSeq(cli) /\ Len(cli) \in Nat
  BY SeqDomain DEF CliInv, CliLines
<1>6. LinesRead' = 0
  <2>1. LinesRead' = Len(cli) - Len(cli)
    BY <1>1, <1>3, <1>4 DEF LinesRead
  <2> QED
    BY <1>5, <2>1
<1>7. InForce(LinesRead)' /\ NamesOk(LinesRead)'
  <2>1. InForce(0)' /\ NamesOk(0)'
    BY <1>1, ForceNone, SameForce, SameNames
  <2> QED
    BY <1>6, <2>1
<1>8. CliFrame'
  <2>1. \A i \in 1 .. Len(cli) : cli[0 + i] = cli[i]
    BY <1>5
  <2> QED
    BY <1>1, <1>3, <1>4, <1>5, <1>6, <1>7, <2>1 DEF CliFrame
<1>9. StorageOf(cfg.storagedir, LinesRead)'
  BY <1>6 DEF StorageOf
<1>10. CliStorage'
  BY <1>1, <1>9 DEF CliInv, CliStorage, StorageOf, LastOf
<1>11. JailChosen'
  BY <1>1 DEF CliInv, JailChosen
<1> QED
  BY <1>1, <1>8, <1>10, <1>11, SameCfg DEF CliInv, CliLines

\* A line of any file is read, the command line among them.
LEMMA CliReadsLine ==
  ASSUME ConfigInv, CliInv, ParseLine \/ ParseCliOnly
  PROVE  CliInv'
<1>1. /\ phase \in {"cli1", "conf", "cli2", "dotjail", "cli3"} /\ stack # <<>>
      /\ Head(stack).text # <<>> /\ stack' = Rest
      /\ UNCHANGED <<cli, phase, storage_fd, dotjail>>
      /\ ~ Refused(Head(stack), Head(Head(stack).text))
  BY DEF ParseLine, ParseCliOnly, Parsing, After, input
<1>2. PICK line : line = Head(Head(stack).text)
  OBVIOUS
<1>3. cfg = CfgOf(cfg)
  BY DEF CliInv, CfgShape, CfgOf
<1>4. /\ cfg' = CfgOf(cfg')
      /\ Applied(cfg, cfg', line.opt, line.name, Base(parsing_config_file))
      /\ line.opt = "assign" => Assigned(cfg', line)
  <2>1. CASE ParseLine
    <3>1. /\ line.opt \in FileOpts \ {"conf"}
          /\ cfg' = Effect(cfg, line, parsing_config_file)
      BY <1>1, <1>2, <2>1 DEF ParseLine, Refused
    <3> QED
      BY <1>3, <3>1, EffectApplied
  <2>2. CASE ParseCliOnly
    <3>1. line.opt \in CliOnly /\ cfg' = cfg
      BY <1>2, <2>2 DEF ParseCliOnly
    <3> QED
      BY <1>3, <3>1, CliOnlyApplied DEF CliOnly
  <2> QED
    BY <2>1, <2>2
<1>5. CfgShape'
  BY <1>4 DEF CfgShape, CfgOf
<1>6. CASE phase \in {"cli1", "cli2", "cli3"}
  <2>1. line = cli[LinesRead + 1] /\ parsing_config_file = FALSE
    BY <1>1, <1>2, <1>6, NextLine
  <2>2. Applied(cfg, cfg', cli[LinesRead + 1].opt, cli[LinesRead + 1].name, Cwd)
    BY <1>4, <2>1 DEF Base
  <2>3. line.opt = "jail" => name_ok(line.name)
    BY <1>1, <1>2 DEF Refused
  <2> QED
    BY <1>1, <1>4, <1>5, <1>6, <2>1, <2>2, <2>3, CliLineRead
<1>7. CASE phase = "conf"
  BY <1>1, <1>5, <1>7 DEF CliInv, CliLines, CliFrame, CliStorage, JailChosen
<1>8. CASE phase = "dotjail"
  <2>1. \A i \in DOMAIN stack : stack[i].dotjail
    BY <1>8 DEF CliInv, JailChosen
  <2>2. /\ DOMAIN stack' = DOMAIN stack /\ 1 \in DOMAIN stack /\ Head(stack) = stack[1]
        /\ stack'[1] = [file |-> stack[1].file, text |-> Tail(stack[1].text),
                       dotjail |-> stack[1].dotjail, saved |-> stack[1].saved]
        /\ \A i \in DOMAIN stack : i # 1 => stack'[i] = stack[i]
    BY <1>1, RestIs DEF ConfigInv
  <2>3. \A i \in DOMAIN stack' : stack'[i].dotjail
    BY <2>1, <2>2
  <2>4. line.opt # "jail"
    BY <1>1, <1>2, <2>1, <2>2 DEF Refused
  <2>5. cfg'.sandbox_name = cfg.sandbox_name
    BY <1>4, <2>4 DEF Applied
  <2>6. JailChosen'
    BY <1>1, <1>8, <2>3, <2>5 DEF CliInv, JailChosen
  <2>7. CliStorage'
    BY <1>1, <1>8 DEF CliInv, CliStorage, StorageOf, LastOf
  <2> QED
    BY <1>1, <1>5, <1>8, <2>6, <2>7 DEF CliInv, CliLines, CliFrame
<1> QED
  BY <1>1, <1>6, <1>7, <1>8

LEMMA CliIncludes ==
  ASSUME ConfigInv, CliInv, Include
  PROVE  CliInv'
<1>1. PICK file, text : EnterConfig(file, text, Head(stack).dotjail, Rest)
  BY DEF Include
<1>2. /\ phase \in {"cli1", "conf", "cli2", "dotjail", "cli3"} /\ stack # <<>>
      /\ Head(stack).text # <<>> /\ Head(Head(stack).text).opt = "conf"
      /\ UNCHANGED <<cli, cfg, phase, storage_fd, dotjail>>
  BY DEF Include, Parsing, After, input
<1>3. phase \notin {"cli1", "cli2", "cli3"}
  <2>1. SUFFICES ASSUME phase \in {"cli1", "cli2", "cli3"} PROVE FALSE
    OBVIOUS
  <2>2. /\ LinesRead + 1 \in 1 .. Len(cli) /\ Head(stack) = stack[1]
        /\ Head(stack[1].text) = cli[LinesRead + 1]
    BY <1>2, <2>1, NextLine
  <2> QED
    BY <1>2, <2>2 DEF CliInv, CliLines
<1>4. JailChosen'
  <2>1. CASE phase = "dotjail"
    <3>1. \A i \in DOMAIN stack : stack[i].dotjail
      BY <2>1 DEF CliInv, JailChosen
    <3>2. PICK r : r = Rest
      OBVIOUS
    <3>3. /\ IsSeq(r) /\ DOMAIN r = DOMAIN stack /\ 1 \in DOMAIN stack
          /\ Head(stack) = stack[1]
          /\ r[1] = [file |-> stack[1].file, text |-> Tail(stack[1].text),
                     dotjail |-> stack[1].dotjail, saved |-> stack[1].saved]
          /\ \A i \in DOMAIN stack : i # 1 => r[i] = stack[i]
      BY <1>2, <3>2, RestIs DEF ConfigInv
    <3>4. \A i \in DOMAIN r : r[i].dotjail
      BY <3>1, <3>3
    <3>5. PICK f : f = Frame(file, text, Head(stack).dotjail)
      OBVIOUS
    <3>6. f.dotjail
      BY <3>1, <3>3, <3>5 DEF Frame
    <3>7. PICK t : t = stack' /\ t = Cons(f, r)
      BY <1>1, <3>2, <3>5 DEF EnterConfig, Cons
    <3>8. /\ DOMAIN t = 1 .. Len(r) + 1 /\ DOMAIN r = 1 .. Len(r) /\ Len(r) \in Nat
          /\ t[1] = f /\ \A i \in DOMAIN r : t[i + 1] = r[i]
      BY <3>3, <3>7, Pushed
    <3>9. \A i \in DOMAIN t : i = 1 \/ (i - 1 \in DOMAIN r /\ i = (i - 1) + 1)
      BY <3>8
    <3>10. ASSUME NEW i \in DOMAIN t
           PROVE  t[i].dotjail
      <4>1. CASE i = 1
        BY <3>6, <3>8, <4>1
      <4>2. CASE i # 1
        BY <3>4, <3>8, <3>9, <4>2
      <4> QED
        BY <4>1, <4>2
    <3> QED
      BY <1>2, <2>1, <3>7, <3>10 DEF CliInv, JailChosen
  <2>2. CASE phase # "dotjail"
    BY <1>2, <1>3, <2>2 DEF JailChosen
  <2> QED
    BY <2>1, <2>2
<1>5. CliStorage'
  BY <1>2, <1>3 DEF CliInv, CliStorage, StorageOf, LastOf
<1> QED
  BY <1>2, <1>3, <1>4, <1>5, SameCfg DEF CliInv, CliLines, CliFrame

\* A file, or the command line, has been read.
LEMMA CliLeaves ==
  ASSUME ConfigInv, CliInv, Leave
  PROVE  CliInv'
<1>1. /\ phase \in {"cli1", "conf", "cli2", "dotjail", "cli3"} /\ stack # <<>>
      /\ Head(stack).text = <<>> /\ stack' = Tail(stack)
      /\ phase' = IF Len(stack) = 1 THEN After[phase] ELSE phase
      /\ UNCHANGED <<cli, cfg, storage_fd, dotjail>>
  BY DEF Leave, Parsing, After, input
<1>2. After = [cli1 |-> "files", conf |-> "argv2", cli2 |-> "jail",
               dotjail |-> "argv3", cli3 |-> "run"]
  BY DEF After
<1>3. IsSeq(stack)
  BY DEF ConfigInv, FramesOK
<1>4. CASE phase \in {"cli1", "cli2", "cli3"}
  <2>1. Len(stack) = 1 /\ InForce(LinesRead) /\ NamesOk(LinesRead)
    BY <1>4 DEF CliInv, CliFrame
  <2>2. LinesRead = Len(cli)
    <3>1. Head(stack) = stack[1]
      BY <1>1, <1>3, Popped
    <3>2. LinesRead = Len(cli) - 0
      BY <1>1, <3>1 DEF LinesRead
    <3>3. Len(cli) \in Nat
      BY SeqDomain DEF CliInv, CliLines
    <3> QED
      BY <3>2, <3>3
  <2>3. InForce(Len(cli))' /\ NamesOk(Len(cli))'
    <3>1. PICK n : n = Len(cli)
      OBVIOUS
    <3>2. InForce(n)' /\ NamesOk(n)'
      BY <1>1, <2>1, <2>2, <3>1, SameForce, SameNames
    <3> QED
      BY <1>1, <3>1, <3>2
  <2>4. phase' \in {"files", "jail", "run"}
        /\ (phase = "cli1" <=> phase' = "files") /\ (phase = "cli2" <=> phase' = "jail")
        /\ (phase = "cli3" <=> phase' = "run")
    BY <1>1, <1>2, <1>4, <2>1
  <2>5. CliStorage'
    BY <1>1, <1>4, <2>2, <2>4 DEF CliInv, CliStorage, StorageOf, LastOf
  <2>6. JailChosen'
    <3>1. phase = "cli3" => cfg.sandbox_name = dotjail[2]
      <4>1. Len(cli) \in Nat
        BY SeqDomain DEF CliInv, CliLines
      <4>2. \A j : j \notin Len(cli) + 1 .. Len(cli)
        BY <4>1
      <4> QED
        BY <2>2, <4>2 DEF CliInv, JailChosen
    <3> QED
      BY <1>1, <2>4, <3>1 DEF JailChosen
  <2> QED
    BY <1>1, <2>3, <2>4, <2>5, <2>6, SameCfg DEF CliInv, CliLines, CliFrame
<1>5. CASE phase = "conf"
  <2>1. phase' \in {"conf", "argv2"}
    BY <1>1, <1>2, <1>5
  <2> QED
    BY <1>1, <1>5, <2>1, SameCfg DEF CliInv, CliLines, CliFrame, CliStorage, JailChosen
<1>6. CASE phase = "dotjail"
  <2>1. phase' \in {"dotjail", "argv3"}
    BY <1>1, <1>2, <1>6
  <2>2. \A i \in DOMAIN stack' : stack'[i].dotjail
    <3>1. PICK t : t = stack' /\ t = Tail(stack)
      BY <1>1
    <3>2. /\ DOMAIN t = 1 .. Len(t) /\ Len(t) = Len(stack) - 1
          /\ DOMAIN stack = 1 .. Len(stack) /\ Len(stack) \in Nat \ {0}
          /\ \A i \in DOMAIN t : t[i] = stack[i + 1]
      BY <1>1, <1>3, <3>1, Popped
    <3>3. \A i \in DOMAIN t : i + 1 \in DOMAIN stack
      BY <3>2
    <3> QED
      BY <1>6, <3>1, <3>2, <3>3 DEF CliInv, JailChosen
  <2>3. JailChosen'
    BY <1>1, <1>6, <2>1, <2>2 DEF CliInv, JailChosen
  <2>4. CliStorage'
    BY <1>1, <1>6, <2>1 DEF CliInv, CliStorage, StorageOf, LastOf
  <2> QED
    BY <1>1, <2>1, <2>3, <2>4, SameCfg DEF CliInv, CliLines, CliFrame
<1> QED
  BY <1>1, <1>4, <1>5, <1>6

\* The .jail file is opened.
LEMMA CliOpensJail ==
  ASSUME ConfigInv, CliInv, OpenJail
  PROVE  CliInv'
<1>1. PICK name : /\ name = IF cfg.sandbox_name = "" THEN "default" ELSE cfg.sandbox_name
                  /\ dotjail' = <<Storage, name>>
                  /\ cfg' = [cfg EXCEPT !.sandbox_name = name,
                              !.storagedir = IF storage_fd = <<>> THEN Storage ELSE @]
  BY DEF OpenJail
<1>2. /\ phase = "jail" /\ phase' = "dotjail" /\ storage_fd' = Storage
      /\ UNCHANGED cli
  BY DEF OpenJail, input
<1>3. storage_fd = <<>>
  BY <1>2 DEF CliInv, CliStorage
<1>4. PICK dir : dir = Storage
  OBVIOUS
<1>5. dir = IF cfg.storagedir = <<>> THEN HomeJai ELSE cfg.storagedir
  BY <1>3, <1>4 DEF Storage
<1>6. dir # <<>>
  BY <1>5 DEF HomeJai
<1>7. StorageOf(dir, Len(cli))
  <2>1. StorageOf(cfg.storagedir, Len(cli))
    BY <1>2 DEF CliInv, CliStorage
  <2> QED
    BY <1>5, <2>1, JoinNotEmpty DEF StorageOf
<1>8. /\ CfgShape' /\ cfg'.sandbox_name = name
  <2>1. cfg' = [cfg EXCEPT !.sandbox_name = name, !.storagedir = dir]
    BY <1>1, <1>3, <1>4
  <2> QED
    BY <2>1 DEF CliInv, CfgShape
<1>9. dotjail' = <<dir, name>> /\ dotjail'[2] = name
  BY <1>1, <1>4
<1>10. ASSUME NEW i \in 1 .. Len(cli), LastOf(i, Len(cli), {"jail"})
       PROVE  name = cli[i].name
  <2>1. cfg.sandbox_name = cli[i].name
    BY <1>2, <1>10 DEF CliInv, InForce
  <2>2. cli[i].name # ""
    BY <1>2, <1>10 DEF CliInv, NamesOk, LastOf, name_ok
  <2> QED
    BY <1>1, <2>1, <2>2
<1>11. CliStorage'
  BY <1>2, <1>4, <1>6, <1>7, <1>9, <1>10 DEF CliStorage, StorageOf, LastOf
<1>12. JailChosen'
  <2>1. PICK text : EnterConfig(".jail", text, TRUE, <<>>)
    BY DEF OpenJail
  <2>2. PICK f : f = Frame(".jail", text, TRUE)
    OBVIOUS
  <2>3. f.dotjail
    BY <2>2 DEF Frame
  <2>4. stack' = <<f>>
    BY <2>1, <2>2, ArgvAlone DEF EnterConfig
  <2>5. \A i \in DOMAIN stack' : stack'[i].dotjail
    BY <2>3, <2>4
  <2> QED
    BY <1>2, <1>8, <1>9, <2>5 DEF JailChosen
<1> QED
  BY <1>2, <1>8, <1>11, <1>12 DEF CliInv, CliLines, CliFrame

LEMMA CliNextInv == ConfigInv /\ CliInv /\ [Next]_vars => CliInv'
<1> SUFFICES ASSUME ConfigInv, CliInv, [Next]_vars PROVE CliInv'
  OBVIOUS
<1>1. CASE FirstParse
  BY <1>1, CliPass DEF FirstParse
<1>2. CASE ReparseAfterConf
  BY <1>2, CliPass DEF ReparseAfterConf
<1>3. CASE ReparseAfterJail
  BY <1>3, CliPass DEF ReparseAfterJail
<1>4. CASE ParseLine \/ ParseCliOnly
  BY <1>4, CliReadsLine
<1>5. CASE ParseError \/ IncludeError
  <2>1. PICK why \in {"refused", "not found", "loop"} : Fail(why)
    BY <1>5 DEF ParseError, IncludeError
  <2> QED
    BY <2>1, CliFails
<1>5a. CASE CanonicalThrows
  <2>1. phase' = "refused" /\ UNCHANGED <<cfg, cli>>
    BY <1>5a DEF CanonicalThrows, input
  <2> QED
    BY <2>1, SameCfg, CliEnds
<1>6. CASE Include
  BY <1>6, CliIncludes
<1>7. CASE Leave
  BY <1>7, CliLeaves
<1>8. CASE EnsureFiles
  <2>1. phase = "files" /\ phase' = "choose" /\ UNCHANGED <<cfg, cli, storage_fd>>
    BY <1>8 DEF EnsureFiles, input
  <2> QED
    BY <2>1, SameCfg DEF CliInv, CliLines, CliFrame, CliStorage, JailChosen
<1>9. CASE InitConfig \/ Unmount
  <2>1. phase' \in {"usage", "inited", "unmounted"} /\ UNCHANGED cli
    BY <1>9 DEF InitConfig, Unmount, input
  <2>2. cfg' = cfg \/ \E dir : cfg' = [cfg EXCEPT !.storagedir = dir]
    BY <1>9 DEF InitConfig, Unmount, OpenStorage
  <2>3. CfgShape'
    BY <2>2 DEF CliInv, CfgShape
  <2> QED
    BY <2>1, <2>3, CliEnds
<1>10. CASE ChooseConf
  <2>1. CASE Fail("not found")
    BY <2>1, CliFails
  <2>2. CASE ~ Fail("not found")
    <3>1. phase = "choose" /\ phase' = "conf" /\ UNCHANGED <<cfg, cli, storage_fd>>
      BY <1>10, <2>2 DEF ChooseConf, input
    <3> QED
      BY <3>1, SameCfg DEF CliInv, CliLines, CliFrame, CliStorage, JailChosen
  <2> QED
    BY <2>1, <2>2
<1>11. CASE OpenJail
  BY <1>11, CliOpensJail
<1>12. CASE UNCHANGED vars
  <2>1. UNCHANGED <<cfg, cli, phase, stack, storage_fd, dotjail>>
    BY <1>12 DEF vars
  <2>2. \A n : (InForce(n)' <=> InForce(n)) /\ (NamesOk(n)' <=> NamesOk(n))
    BY <2>1, SameForce, SameNames
  <2>3. LinesRead' = LinesRead
    BY <2>1 DEF LinesRead
  <2>4. CliFrame'
    <3>1. ASSUME phase \in {"cli1", "cli2", "cli3"}
          PROVE  InForce(LinesRead)' /\ NamesOk(LinesRead)'
      <4>1. PICK n : n = LinesRead
        OBVIOUS
      <4>2. InForce(n)' /\ NamesOk(n)'
        BY <2>2, <3>1, <4>1 DEF CliInv, CliFrame
      <4> QED
        BY <2>3, <4>1, <4>2
    <3> QED
      BY <2>1, <2>3, <3>1 DEF CliInv, CliFrame
  <2>5. phase \in {"jail", "run"} => InForce(Len(cli))' /\ NamesOk(Len(cli))'
    <3>1. PICK n : n = Len(cli)
      OBVIOUS
    <3> QED
      BY <2>1, <2>2, <3>1 DEF CliInv
  <2>6. CliStorage'
    BY <2>1, <2>3 DEF CliInv, CliStorage, StorageOf, LastOf
  <2>7. JailChosen'
    BY <2>1, <2>3 DEF CliInv, JailChosen
  <2> QED
    BY <2>1, <2>4, <2>5, <2>6, <2>7, SameCfg DEF CliInv, CliLines
<1> QED
  BY <1>1, <1>2, <1>3, <1>4, <1>5, <1>5a, <1>6, <1>7, <1>8, <1>9, <1>10, <1>11,
     <1>12
     DEF Next

(***************************************************************************)
(* In each pass over the command line the lines read so far are in force;  *)
(* holds in every reachable state.                                         *)
(***************************************************************************)
THEOREM CliInvariant == Spec => []CliInv
<1> QED
  BY ConfigInitInv, ConfigNextInv, CliInitInv, CliNextInv, PTL DEF Spec

(***************************************************************************)
(* Whatever the .conf and .jail files say: when the program is to run, the *)
(* last of the command line's options of each kind is in force, and what   *)
(* the command line unsets and does not set again is not in the jail.      *)
(***************************************************************************)
THEOREM CliAlwaysWins == Spec => []CliWins
<1>1. CliInv => CliWins
  <2> SUFFICES ASSUME CliInv, phase = "run"
               PROVE  InForce(Len(cli)) /\ StorageOf(Storage, Len(cli))
    BY DEF CliWins
  <2>1. Storage = storage_fd
    BY DEF CliInv, CliStorage, Storage
  <2> QED
    BY <2>1 DEF CliInv, CliStorage
<1> QED
  BY <1>1, CliInvariant, PTL

(***************************************************************************)
(* The .jail file that was read is the one of the jail that runs, in the   *)
(* storage directory that is in use: nothing parsed later changes either.  *)
(***************************************************************************)
THEOREM JailIsOfRun == Spec => []JailOfRun
<1>1. CliInv => JailOfRun
  <2> SUFFICES ASSUME CliInv, phase = "run"
               PROVE  dotjail = <<Storage, cfg.sandbox_name>>
    BY DEF JailOfRun
  <2>1. Storage = storage_fd
    BY DEF CliInv, CliStorage, Storage
  <2> QED
    BY <2>1 DEF CliInv, CliStorage, JailChosen
<1> QED
  BY <1>1, CliInvariant, PTL

(***************************************************************************)
(* A .jail file made for a new jail other than the default one records the *)
(* command line's mode, if that has one, and not the .conf file's.         *)
(***************************************************************************)
THEOREM NewJailRecordsCli == Spec => RecordsCliMode
<1>1. ASSUME CliInv, [Next]_vars, phase = "jail",
             DOMAIN jails' # DOMAIN jails, dotjail'[2] # "default",
             NEW i \in 1 .. Len(cli), LastOf(i, Len(cli), {"mode"})
      PROVE  jails'[dotjail'] = JailText(cli[i].name)
  <2>1. OpenJail
    <3>1. phase \notin DOMAIN After
      BY <1>1 DEF After
    <3>2. jails' # jails
      BY <1>1
    <3> QED
      BY <1>1, <3>1, <3>2
         DEF Next, vars, FirstParse, ReparseAfterConf, ReparseAfterJail, ParseArgv,
             ParseLine, ParseCliOnly, ParseError, CanonicalThrows, Include,
             IncludeError, Leave,
             Parsing, EnsureFiles, InitConfig, Unmount, ChooseConf
  <2>2. PICK name, key, mode :
          /\ mode = IF name = "default" THEN "casual" ELSE cfg.mode
          /\ key = <<Storage, name>> /\ dotjail' = key
          /\ jails' = IF key \in DOMAIN jails THEN jails
                      ELSE With(jails, key, JailText(mode))
    BY <2>1 DEF OpenJail
  <2>3. mode = cfg.mode
    BY <1>1, <2>2
  <2>4. jails' = With(jails, key, JailText(mode))
    BY <1>1, <2>2
  <2>5. jails'[key] = JailText(mode)
    BY <2>4 DEF With
  <2>6. cfg.mode = cli[i].name
    BY <1>1 DEF CliInv, InForce
  <2> QED
    BY <2>2, <2>3, <2>5, <2>6
<1>2. CliInv /\ [Next]_vars =>
        [phase = "jail" /\ DOMAIN jails' # DOMAIN jails /\ dotjail'[2] # "default" =>
           \A i \in 1 .. Len(cli) : LastOf(i, Len(cli), {"mode"}) =>
             jails'[dotjail'] = JailText(cli[i].name)]_vars
  BY <1>1
<1> QED
  BY <1>2, CliInvariant, PTL DEF Spec, RecordsCliMode
=============================================================================

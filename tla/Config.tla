------------------------------- MODULE Config -------------------------------
(***************************************************************************)
(* do_main up to make_mnt_ns (jai.cc): the command line, the .conf file    *)
(* with the files it includes, and the .jail file of the jail they choose, *)
(* all parsed by one option parser into one configuration; the command     *)
(* line is parsed again after each of the files, so that it wins.          *)
(*                                                                         *)
(* A file is a sequence of lines, a line an option with its argument.      *)
(* Paths are sequences of names, free of symbolic links.                   *)
(***************************************************************************)
EXTENDS Integers, SequencesExt

CONSTANTS
  Suites,      \* sets of inputs that go together: command lines (cli), the
               \* commands after them (cmd: <<>> or <<"prog">>), what
               \* $HOME/.jai may hold (files: functions from names to texts)
               \* and what a .jail file may hold when there is one (jail)
  Environ,     \* the names of the variables in jai's own environment
  Matches      \* glob: the pairs of a pattern and another name it matches

\* Files have names other than the one that stands for the command line.  On
\* a command line --conf is another name of -C, never an include.
IsSeq(s) == s \in Seq({s[i] : i \in DOMAIN s})
ASSUME SuitesAssumption ==
  \A suite \in Suites :
    /\ \A f \in suite.files : "argv" \notin DOMAIN f
    /\ \A c \in suite.cli : IsSeq(c) /\ \A i \in DOMAIN c : c[i].opt # "conf"

VARIABLES
  cli, cmd, files, jails,  \* argv, and the .conf and .jail files on disk
  cfg,                     \* the fields of Config that options set
  opts,                    \* opt_C, opt_u and opt_init of do_main
  phase,                   \* where do_main is
  stack,                   \* the calls of parse_file, the innermost first
  parsing_config_file,
  loop_detect,             \* config_loop_detect_
  storage_fd,              \* where storage_fd_ is open, <<>> when it is not
  dotjail                  \* the .jail file that do_main opened, <<>> before

vars == <<cli, cmd, files, jails, cfg, opts, phase, stack,
          parsing_config_file, loop_detect, storage_fd, dotjail>>

input == <<cli, cmd>>
disk == <<files, jails>>

Home == <<"home">>
Cwd == <<"cwd">>
HomeJai == <<"home", ".jai">>
Modes == {"casual", "bare", "strict"}

\* The files that jai makes: .defaults (one line of each kind in it),
\* default.conf, and NAME.jail.
Defaults == <<[opt |-> "mask", name |-> ".jai", val |-> ""],
              [opt |-> "unsetenv", name |-> "*_TOKEN", val |-> ""],
              [opt |-> "assignref", name |-> "USER", val |-> "JAI_USER"]>>
ConfText == <<[opt |-> "conf", name |-> ".defaults", val |-> ""]>>
JailText(m) == <<[opt |-> "mode", name |-> m, val |-> ""]>>

\* base / name of std::filesystem, by which an empty name changes nothing
\* and an absolute one stands for itself.
Join(base, name) ==
  CASE name = ""     -> base
    [] name = "/abs" -> <<name>>
    [] OTHER         -> Append(base, name)

\* What relative paths are relative to.
Base(inConfig) == IF inConfig THEN Home ELSE Cwd

Glob(pattern, var) == pattern = var \/ <<pattern, var>> \in Matches

Without(f, S) == [x \in DOMAIN f \ S |-> f[x]]
With(f, x, v) == [y \in DOMAIN f \cup {x} |-> IF y = x THEN v ELSE f[y]]

\* env_lookup: setenv_ first, then jai's own environment.
env_lookup(c, var) ==
  IF var \in DOMAIN c.setenv THEN c.setenv[var]
  ELSE IF var \in Environ THEN "outer" ELSE ""

\* expand: only configuration files have their ${...} substituted.
expand(c, var, inConfig) ==
  IF inConfig THEN env_lookup(c, var) ELSE "unexpanded"

-----------------------------------------------------------------------------
(***************************************************************************)
(* The options of opt_parser.                                              *)
(***************************************************************************)
Unsetenv(c, pattern) ==
  [c EXCEPT !.setenv = Without(@, {v \in DOMAIN @ : Glob(pattern, v)}),
            !.filter = @ \cup {pattern}]

\* --setenv=VAR takes VAR out of the filter; when it is some other pattern
\* that keeps VAR out, VAR is set to the value it has outside.
Setenv(c, var) ==
  IF var \in c.filter THEN [c EXCEPT !.filter = @ \ {var}]
  ELSE IF var \in Environ /\ \E p \in c.filter : Glob(p, var)
    THEN [c EXCEPT !.setenv = With(@, var, "outer")]
  ELSE c

\* The effect of one option; inConfig is parsing_config_file_.
Effect(c, line, inConfig) ==
  CASE line.opt = "mode"     -> [c EXCEPT !.mode = line.name]
    [] line.opt = "dir"      -> [c EXCEPT !.dirs = @ \cup {Join(Base(inConfig), line.name)}]
    [] line.opt = "xdir"     -> [c EXCEPT !.dirs = @ \ {Join(Base(inConfig), line.name)}]
    [] line.opt = "nocwd"    -> [c EXCEPT !.grant_cwd = FALSE]
    [] line.opt = "jail"     -> [c EXCEPT !.sandbox_name = line.name]
    [] line.opt = "mask"     -> [c EXCEPT !.mask = @ \cup {line.name}]
    [] line.opt = "unmask"   -> [c EXCEPT !.mask = @ \ {line.name}]
    [] line.opt = "command"  -> [c EXCEPT !.shellcmd = line.name]
    [] line.opt = "storage"  -> [c EXCEPT !.storagedir = Join(Base(inConfig), line.name)]
    [] line.opt = "unsetenv" -> Unsetenv(c, line.name)
    [] line.opt = "setenv"   -> Setenv(c, line.name)
    [] line.opt = "assign"   -> [c EXCEPT !.setenv = With(@, line.name, line.val)]
    [] line.opt = "assignref" ->
         [c EXCEPT !.setenv = With(@, line.name, expand(c, line.val, inConfig))]

\* The options that files have, and those of the command line alone.
FileOpts == {"mode", "dir", "xdir", "nocwd", "jail", "mask", "unmask",
             "command", "storage", "unsetenv", "setenv", "assign", "assignref",
             "conf"}
CliOnly == {"-C", "-u", "--init"}

\* A jail's name is one relative name.
name_ok(name) == name \notin {"", "/abs"}

\* Lines that the parser of the file refuses: options it does not have,
\* arguments that an option does not take (an unknown mode, an absolute path,
\* a variable with a space in its name), and jail in a .jail file or in a
\* file that one includes, which is parsed by the same Options.
Refused(frame, line) ==
  \/ line.opt \notin FileOpts \cup CliOnly
  \/ line.opt \in CliOnly /\ frame.file # "argv"
  \/ line.opt = "jail" /\ (frame.dotjail \/ ~ name_ok(line.name))
  \/ line.opt = "mode" /\ line.name \notin Modes
  \/ line.opt = "mask" /\ line.name = "/abs"
  \/ line.opt = "setenv" /\ line.name = "A B" /\ line.name \notin cfg.filter

\* canonical throws, which is not an error of the option parser, when the
\* directory does not exist.
NoSuchDir(line) == line.opt \in {"dir", "xdir"} /\ line.name = "missing"

Init ==
  /\ \E suite \in Suites :
       /\ cli \in suite.cli
       /\ cmd \in suite.cmd
       /\ files \in suite.files
       /\ \/ jails = [x \in {} |-> <<>>]
          \/ \E name \in {"default", "named"}, dir \in {HomeJai, Append(Home, "st")},
                text \in suite.jail :
               jails = [x \in {<<dir, name>>} |-> text]
  /\ cfg = [mode |-> "strict", dirs |-> {}, grant_cwd |-> TRUE,
            sandbox_name |-> "", mask |-> {}, shellcmd |-> "",
            storagedir |-> <<>>, filter |-> {}, setenv |-> [x \in {} |-> ""]]
  /\ opts = [C |-> "", u |-> FALSE, init |-> FALSE]
  /\ phase = "start"
  /\ stack = <<>>
  /\ parsing_config_file = FALSE
  /\ loop_detect = {}
  /\ storage_fd = <<>>
  /\ dotjail = <<>>

-----------------------------------------------------------------------------
(***************************************************************************)
(* Files and command lines being parsed.                                   *)
(***************************************************************************)
\* What follows the file that is parsed last in each phase.
After == [cli1 |-> "files", conf |-> "argv2", cli2 |-> "jail",
          dotjail |-> "argv3", cli3 |-> "run"]

Parsing == phase \in DOMAIN After /\ stack # <<>>

Frame(file, text, jailopts) ==
  [file |-> file, text |-> text, dotjail |-> jailopts,
   saved |-> parsing_config_file]

\* err: the command line's own errors print the usage, the first time it is
\* parsed; all others leave through main's handler.
Fail(why) ==
  /\ phase' = IF phase = "cli1" THEN "usage" ELSE why
  /\ UNCHANGED <<input, disk, cfg, opts, stack, parsing_config_file,
                 loop_detect, storage_fd, dotjail>>

EnterConfig(file, text, jailopts, outer) ==
  /\ file \notin loop_detect
  /\ loop_detect' = loop_detect \cup {file}
  /\ parsing_config_file' = TRUE
  /\ stack' = <<Frame(file, text, jailopts)>> \o outer

\* The frames below, once the first line of the innermost one is read.
Rest == <<[Head(stack) EXCEPT !.text = Tail(@)]>> \o Tail(stack)

\* parse_argspan with one option of opt_parser.
ParseLine ==
  /\ Parsing /\ Head(stack).text # <<>>
  /\ LET line == Head(Head(stack).text) IN
       /\ ~ Refused(Head(stack), line) /\ ~ NoSuchDir(line)
       /\ line.opt \notin CliOnly \cup {"conf"}
       /\ cfg' = Effect(cfg, line, parsing_config_file)
  /\ stack' = Rest
  /\ UNCHANGED <<input, disk, opts, phase, parsing_config_file, loop_detect,
                 storage_fd, dotjail>>

\* The options that do_main adds for the command line.
ParseCliOnly ==
  /\ Parsing /\ Head(stack).text # <<>>
  /\ LET line == Head(Head(stack).text) IN
       /\ ~ Refused(Head(stack), line)
       /\ line.opt \in CliOnly
       /\ opts' = CASE line.opt = "-C" -> [opts EXCEPT !.C = line.name]
                    [] line.opt = "-u" -> [opts EXCEPT !.u = TRUE]
                    [] line.opt = "--init" -> [opts EXCEPT !.init = TRUE]
  /\ stack' = Rest
  /\ UNCHANGED <<input, disk, cfg, phase, parsing_config_file, loop_detect,
                 storage_fd, dotjail>>

ParseError ==
  /\ Parsing /\ Head(stack).text # <<>>
  /\ Refused(Head(stack), Head(Head(stack).text))
  /\ Fail("refused")

CanonicalThrows ==
  /\ Parsing /\ Head(stack).text # <<>>
  /\ NoSuchDir(Head(Head(stack).text))
  /\ phase' = "refused"
  /\ UNCHANGED <<input, disk, cfg, opts, stack, parsing_config_file,
                 loop_detect, storage_fd, dotjail>>

\* The conf option in a file: parse_config_file with the Options in use.
Include ==
  /\ Parsing /\ Head(stack).text # <<>>
  /\ LET line == Head(Head(stack).text) IN
       /\ line.opt = "conf"
       /\ line.name \in DOMAIN files
       /\ EnterConfig(line.name, files[line.name], Head(stack).dotjail, Rest)
  /\ UNCHANGED <<input, disk, cfg, opts, phase, storage_fd, dotjail>>

IncludeError ==
  /\ Parsing /\ Head(stack).text # <<>>
  /\ LET line == Head(Head(stack).text) IN
       /\ line.opt = "conf"
       /\ \/ line.name \notin DOMAIN files /\ Fail("not found")
          \/ line.name \in loop_detect /\ Fail("loop")

\* parse_config_fd returns: the Defer takes the file off the loop check and
\* restores the flag.
Leave_KeepsLoop ==
  /\ Parsing /\ Head(stack).text = <<>>
  /\ stack' = Tail(stack)
  /\ loop_detect' = loop_detect
  /\ parsing_config_file' = Head(stack).saved
  /\ phase' = IF Len(stack) = 1 THEN After[phase] ELSE phase
  /\ UNCHANGED <<input, disk, cfg, opts, storage_fd, dotjail>>

Leave_ClearsFlag ==
  /\ Parsing /\ Head(stack).text = <<>>
  /\ stack' = Tail(stack)
  /\ loop_detect' = loop_detect \ {Head(stack).file}
  /\ parsing_config_file' = FALSE
  /\ phase' = IF Len(stack) = 1 THEN After[phase] ELSE phase
  /\ UNCHANGED <<input, disk, cfg, opts, storage_fd, dotjail>>

Leave ==
  /\ Parsing /\ Head(stack).text = <<>>
  /\ stack' = Tail(stack)
  /\ loop_detect' = loop_detect \ {Head(stack).file}
  /\ parsing_config_file' = Head(stack).saved
  /\ phase' = IF Len(stack) = 1 THEN After[phase] ELSE phase
  /\ UNCHANGED <<input, disk, cfg, opts, storage_fd, dotjail>>

-----------------------------------------------------------------------------
(***************************************************************************)
(* do_main.                                                                *)
(***************************************************************************)
\* opts->parse_argv, which has no part in the loop check or the flag.
ParseArgv(from, to) ==
  /\ phase = from /\ stack = <<>>
  /\ phase' = to
  /\ stack' = <<Frame("argv", cli, FALSE)>>
  /\ UNCHANGED <<input, disk, cfg, opts, parsing_config_file, loop_detect,
                 storage_fd, dotjail>>

FirstParse == ParseArgv("start", "cli1")

\* A pass over the command line left out.
ReparseAfterConf_Skipped ==
  /\ phase = "argv2" /\ phase' = "jail"
  /\ UNCHANGED <<input, disk, cfg, opts, stack, parsing_config_file,
                 loop_detect, storage_fd, dotjail>>

ReparseAfterConf == ParseArgv("argv2", "cli2")

ReparseAfterJail_Skipped ==
  /\ phase = "argv3" /\ phase' = "run"
  /\ UNCHANGED <<input, disk, cfg, opts, stack, parsing_config_file,
                 loop_detect, storage_fd, dotjail>>

ReparseAfterJail == ParseArgv("argv3", "cli3")

\* .defaults and default.conf come to exist if they do not.
EnsureFiles ==
  /\ phase = "files"
  /\ files' = [x \in DOMAIN files \cup {".defaults", "default.conf"} |->
                IF x \in DOMAIN files THEN files[x]
                ELSE IF x = ".defaults" THEN Defaults ELSE ConfText]
  /\ phase' = "choose"
  /\ UNCHANGED <<input, jails, cfg, opts, stack, parsing_config_file,
                 loop_detect, storage_fd, dotjail>>

\* storage(): opened once, and the path from then on is where it was opened.
Storage_Uncached ==
  IF cfg.storagedir = <<>> THEN HomeJai ELSE cfg.storagedir

Storage ==
  IF storage_fd # <<>> THEN storage_fd
  ELSE IF cfg.storagedir = <<>> THEN HomeJai ELSE cfg.storagedir

OpenStorage ==
  /\ storage_fd' = Storage
  /\ cfg' = IF storage_fd = <<>> THEN [cfg EXCEPT !.storagedir = Storage] ELSE cfg

\* --init
InitConfig ==
  /\ phase = "choose" /\ opts.init
  /\ OpenStorage
  /\ jails' = IF <<Storage, "default">> \in DOMAIN jails THEN jails
              ELSE With(jails, <<Storage, "default">>, JailText("casual"))
  /\ phase' = "inited"
  /\ UNCHANGED <<input, files, opts, stack, parsing_config_file, loop_detect,
                 dotjail>>

\* -u, up to unmountall, which cleans up in storage().
Unmount ==
  /\ phase = "choose" /\ ~ opts.init /\ opts.u
  /\ IF ~ cfg.grant_cwd \/ cfg.dirs # {} \/ cmd # <<>>
       THEN phase' = "usage" /\ UNCHANGED <<cfg, storage_fd>>
       ELSE phase' = "unmounted" /\ OpenStorage
  /\ UNCHANGED <<input, disk, opts, stack, parsing_config_file, loop_detect,
                 dotjail>>

\* The file that -C names, or CMD.conf, or default.conf.
ConfFile ==
  IF opts.C # "" THEN opts.C
  ELSE IF cmd # <<>> /\ "prog.conf" \in DOMAIN files THEN "prog.conf"
  ELSE "default.conf"

ChooseConf ==
  /\ phase = "choose" /\ ~ opts.init /\ ~ opts.u
  /\ IF ConfFile \in DOMAIN files
       THEN /\ EnterConfig(ConfFile, files[ConfFile], FALSE, stack)
            /\ phase' = "conf"
            /\ UNCHANGED <<input, disk, cfg, opts, storage_fd, dotjail>>
       ELSE Fail("not found")

\* The .jail file, made with the mode of the moment if there is none.
OpenJail ==
  /\ phase = "jail" /\ stack = <<>>
  /\ LET name == IF cfg.sandbox_name = "" THEN "default" ELSE cfg.sandbox_name
         mode == IF name = "default" THEN "casual" ELSE cfg.mode
         key  == <<Storage, name>>
     IN  /\ jails' = IF key \in DOMAIN jails THEN jails
                     ELSE With(jails, key, JailText(mode))
         /\ dotjail' = key
         /\ storage_fd' = Storage
         /\ cfg' = [cfg EXCEPT !.sandbox_name = name,
                     !.storagedir = IF storage_fd = <<>> THEN Storage ELSE @]
         /\ EnterConfig(".jail", jails'[key], TRUE, <<>>)
  /\ phase' = "dotjail"
  /\ UNCHANGED <<input, files, opts>>

Next ==
  \/ FirstParse \/ ParseLine \/ ParseCliOnly \/ ParseError \/ CanonicalThrows
  \/ Include \/ IncludeError \/ Leave
  \/ EnsureFiles \/ InitConfig \/ Unmount \/ ChooseConf
  \/ ReparseAfterConf \/ OpenJail \/ ReparseAfterJail

Spec == Init /\ [][Next]_vars

\* make_env: what setenv set, and of the environment what is not filtered.
Env ==
  [v \in DOMAIN cfg.setenv \cup
         {x \in Environ : ~ \E p \in cfg.filter : Glob(p, x)} |->
     IF v \in DOMAIN cfg.setenv THEN cfg.setenv[v] ELSE "outer"]

-----------------------------------------------------------------------------
(***************************************************************************)
(* Properties.                                                             *)
(***************************************************************************)
\* Of the first n lines of the command line, line i is the last one that has
\* one of these options.
LastOf(i, n, options) ==
  /\ i \in 1 .. n /\ cli[i].opt \in options
  /\ \A j \in i + 1 .. n : cli[j].opt \notin options

\* Line i is among the first n, and none of those behind it has one of these
\* options and the same name.
LastOn(i, n, options) ==
  /\ cli[i].opt \in options
  /\ \A j \in i + 1 .. n : cli[j].opt \in options => cli[j].name # cli[i].name

SetOpts == {"setenv", "assign", "assignref"}
\* Line j has something to do with the variable v.
About(j, v) == cli[j].opt \in SetOpts \cup {"unsetenv"} /\ Glob(cli[j].name, v)

\* Of the first n lines of the command line, the last mode, jail and command,
\* every nocwd, and the last of dir and xdir, of mask and unmask and of the
\* assignments to a variable are in force; and no variable is in the
\* environment that one of them unsets, unless a later one sets it.
InForce(n) ==
  /\ \A i \in 1 .. n :
       /\ LastOf(i, n, {"mode"}) => cfg.mode = cli[i].name
       /\ LastOf(i, n, {"jail"}) => cfg.sandbox_name = cli[i].name
       /\ LastOf(i, n, {"command"}) => cfg.shellcmd = cli[i].name
       /\ cli[i].opt = "nocwd" => ~ cfg.grant_cwd
       /\ LastOn(i, n, {"dir", "xdir"}) =>
            (Join(Cwd, cli[i].name) \in cfg.dirs <=> cli[i].opt = "dir")
       /\ LastOn(i, n, {"mask", "unmask"}) =>
            (cli[i].name \in cfg.mask <=> cli[i].opt = "mask")
       /\ cli[i].opt = "assign" /\ (\A j \in i + 1 .. n : ~ About(j, cli[i].name)) =>
            cli[i].name \in DOMAIN cfg.setenv /\ cfg.setenv[cli[i].name] = cli[i].val
  /\ \A i \in 1 .. n, v \in DOMAIN Env :
       cli[i].opt = "unsetenv" /\ Glob(cli[i].name, v) =>
         \E j \in i + 1 .. n : cli[j].opt \in SetOpts /\ Glob(cli[j].name, v)

\* Where the last storage option of the first n lines puts the storage.
StorageOf(dir, n) ==
  \A i \in 1 .. n : LastOf(i, n, {"storage"}) => dir = Join(Cwd, cli[i].name)

\* Once the program is to run, what the command line says last (InForce, and
\* the storage) is in force, whatever the .conf and .jail files say: do_main
\* parses the command line again after each of them.  And a variable that it
\* unsets, and does not set again, is not in the jail (make_env).  What
\* becomes of setenv without a value is SetenvWins.
CliWins ==
  phase = "run" => InForce(Len(cli)) /\ StorageOf(Storage, Len(cli))

\* No file is parsed inside itself, by way of any number of includes, and a
\* configuration loop is reported only for a file that is still being parsed:
\* a file may be included twice, one inclusion after the other
\* (config_loop_detect_ and the Defer of parse_config_fd).
LoopCheck ==
  /\ loop_detect = {stack[i].file : i \in DOMAIN stack} \ {"argv"}
  /\ \A i, j \in DOMAIN stack : i # j => stack[i].file # stack[j].file
  /\ phase = "loop" =>
       \E i \in DOMAIN stack : stack[i].file = Head(Head(stack).text).name

\* Relative paths are taken from the home directory and ${...} is expanded
\* exactly in configuration files, also after an include has returned:
\* parsing_config_file_ tells what is being parsed.
FlagTellsConfig ==
  Parsing => (parsing_config_file <=> Head(stack).file # "argv")

\* The .jail file that has been read is the one of the jail that runs, in
\* the storage directory that holds its homes: nothing read after it is
\* opened, an include of it and the command line among them, changes the
\* jail's name or the directory (storage() and opt_parser).
JailOfRun ==
  phase = "run" => dotjail = <<Storage, cfg.sandbox_name>>

\* A .jail file made for a new jail records the mode of the command line,
\* if that has one, and not the mode of the .conf file (do_main).
RecordsCliMode ==
  [][phase = "jail" /\ DOMAIN jails' # DOMAIN jails /\ dotjail'[2] # "default" =>
       \A i \in 1 .. Len(cli) : LastOf(i, Len(cli), {"mode"}) =>
         jails'[dotjail'] = JailText(cli[i].name)]_vars

\* "Command-line options override everything" (jai.1.md): a variable that
\* --setenv on the command line asks for, and no later --unsetenv there
\* takes back, is in the jail (the setenv option and make_env).
SetenvWins ==
  phase = "run" =>
    \A i \in DOMAIN cli :
      cli[i].opt = "setenv" /\ cli[i].name \in Environ =>
        \/ cli[i].name \in DOMAIN Env
        \/ \E j \in i + 1 .. Len(cli) :
             cli[j].opt = "unsetenv" /\ Glob(cli[j].name, cli[i].name)

-----------------------------------------------------------------------------
(***************************************************************************)
(* The inductive invariant behind LoopCheck and FlagTellsConfig.  A frame  *)
(* remembers in saved whether the one below it is of a file.               *)
(***************************************************************************)
OfFile(i) == i \in DOMAIN stack /\ stack[i].file # "argv"
FramesOK ==
  /\ IsSeq(stack)
  /\ \A i \in DOMAIN stack :
       /\ stack[i] = [file |-> stack[i].file, text |-> stack[i].text,
                      dotjail |-> stack[i].dotjail, saved |-> stack[i].saved]
       /\ stack[i].saved \in BOOLEAN /\ (stack[i].saved <=> OfFile(i + 1))
  /\ parsing_config_file \in BOOLEAN /\ (parsing_config_file <=> OfFile(1))
  /\ "argv" \notin DOMAIN files
ConfigInv == FramesOK /\ LoopCheck

(***************************************************************************)
(* The inductive invariant behind CliWins, RecordsCliMode and JailOfRun:   *)
(* in each pass over the command line, the lines read so far are in force. *)
(***************************************************************************)
CfgShape ==
  cfg = [mode |-> cfg.mode, dirs |-> cfg.dirs, grant_cwd |-> cfg.grant_cwd,
         sandbox_name |-> cfg.sandbox_name, mask |-> cfg.mask,
         shellcmd |-> cfg.shellcmd, storagedir |-> cfg.storagedir,
         filter |-> cfg.filter, setenv |-> cfg.setenv]

CliLines == IsSeq(cli) /\ \A i \in 1 .. Len(cli) : cli[i].opt # "conf"

NamesOk(n) == \A i \in 1 .. n : cli[i].opt = "jail" => name_ok(cli[i].name)

\* How many lines of the command line have been read in this pass.
LinesRead == Len(cli) - Len(stack[1].text)

CliFrame ==
  phase \in {"cli1", "cli2", "cli3"} =>
    /\ Len(stack) = 1 /\ stack[1].file = "argv" /\ ~ stack[1].dotjail
    /\ IsSeq(stack[1].text) /\ Len(stack[1].text) <= Len(cli)
    /\ \A i \in 1 .. Len(stack[1].text) : stack[1].text[i] = cli[LinesRead + i]
    /\ InForce(LinesRead) /\ NamesOk(LinesRead)

CliStorage ==
  /\ phase \in {"start", "cli1", "files", "choose", "conf", "argv2", "cli2", "jail"} =>
       storage_fd = <<>>
  /\ phase = "cli2" => StorageOf(cfg.storagedir, LinesRead)
  /\ phase = "jail" => StorageOf(cfg.storagedir, Len(cli))
  /\ phase \in {"dotjail", "argv3", "cli3", "run"} =>
       /\ storage_fd # <<>> /\ StorageOf(storage_fd, Len(cli))
       /\ dotjail = <<storage_fd, dotjail[2]>>
       /\ \A i \in 1 .. Len(cli) :
            LastOf(i, Len(cli), {"jail"}) => dotjail[2] = cli[i].name

\* While it is parsed, the .jail file and what it includes leave the jail's
\* name alone; the pass after it may change the name, but ends with the same.
JailChosen ==
  /\ phase = "dotjail" => \A i \in DOMAIN stack : stack[i].dotjail
  /\ phase \in {"dotjail", "argv3", "run"} => cfg.sandbox_name = dotjail[2]
  /\ phase = "cli3" =>
       \/ cfg.sandbox_name = dotjail[2]
       \/ \E j \in LinesRead + 1 .. Len(cli) : cli[j].opt = "jail"

CliInv ==
  /\ CfgShape /\ CliLines /\ CliFrame /\ CliStorage /\ JailChosen
  /\ phase \in {"jail", "run"} => InForce(Len(cli)) /\ NamesOk(Len(cli))
=============================================================================

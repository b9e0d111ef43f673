------------------------------ MODULE CompileHost ------------------------------
(***************************************************************************)
(* Compiler::compile: a host's options become an argument vector, the      *)
(* snapshot reads it and compiles, writing a module to stdout and tagged   *)
(* lines to stderr, and what it did becomes a CompileResult or a           *)
(* CompileError.                                                           *)
(***************************************************************************)
EXTENDS ArgVector, FiniteSets
CONSTANTS OptionSets,     \* the Options hosts use
          Escaping,       \* the object names with ".." or from the root
          MaxDefines, MaxObjArgs,
          Reports,        \* what the compiler may have to say
          MaxReports      \* bound: lines of one compilation

VARIABLES options, stage,
          preopen,        \* the directory granted
          guest,          \* what the snapshot read from its arguments
          stderr,         \* lines, each a sequence of tokens
          said,           \* the reports behind those lines (history)
          stopped,        \* how the snapshot's run ended
          outcome
hostVars == <<options, preopen, guest, stderr, said, stopped, outcome>>
compileVars == <<argVars, hostVars, stage>>

\* Characters that switches are made of; names use other ones.
Dash == 1
Plus == 2
LetterR == 3
LetterS == 4
LetterV == 5
LetterI == 6
LetterD == 7
ProgramName == <<8>>
CPAS == <<9>>
NoDir == "none"

Switch(letter, on) == <<Dash, letter, IF on THEN Plus ELSE Dash>>
Flag(letter, on) == IF on THEN <<<<Dash, letter>>>> ELSE <<>>
\* Options::to_args.  Objects come last and bare.
ToArgs(o) ==
  <<ProgramName, Switch(LetterR, o.range), Switch(LetterS, o.stack)>>
  \o Flag(LetterV, o.verbose) \o Flag(LetterI, o.include # NoDir)
  \o [i \in DOMAIN o.defines |-> <<Dash, LetterD>> \o o.defines[i]]
  \o o.objects
\* Init of the snapshot: what holds before its arguments are read.
Defaults ==
  [range |-> FALSE, stack |-> TRUE, verbose |-> FALSE, includes |-> FALSE, defines |-> {CPAS}, objects |-> <<>>]

CompileInit ==
  /\ options \in OptionSets /\ stage = "host" /\ preopen = NoDir
  /\ ArgsInit(<<>>)
  /\ guest = Defaults /\ stderr = <<>> /\ said = <<>>
  /\ stopped = "running" /\ outcome = "none"

Refuse == outcome' = "Instantiation" /\ stage' = "over" /\ UNCHANGED <<argVars, options, preopen, guest, stderr, said, stopped>>
\* What compile checks before it starts the snapshot: the names of the
\* objects, and that only one directory is asked for.
BadObject(name) == name = <<>> \/ name \in Escaping
TwoDirs(o) == o.unit # NoDir /\ o.include # NoDir /\ o.unit # o.include
Start ==
  /\ stage = "host"
  /\ IF (\E i \in DOMAIN options.objects : BadObject(options.objects[i])) \/ TwoDirs(options) THEN Refuse
     ELSE /\ args' = ToArgs(options)
          /\ preopen' = IF options.unit # NoDir THEN options.unit ELSE options.include
          /\ stage' = "args"
          /\ UNCHANGED <<area, bufAt, step, options, guest, stderr, said, stopped, outcome>>
\* The snapshot's start-up code: args_get, then a slot for each argument.
GetArgs ==
  /\ stage = "args" /\ UNCHANGED hostVars
  /\ IF step < Len(args) THEN PutArg /\ UNCHANGED stage
     ELSE stage' = "copy" /\ step' = 0 /\ UNCHANGED <<args, area, bufAt>>
CopyArgs ==
  /\ stage = "copy" /\ UNCHANGED hostVars
  /\ IF step < Copied THEN CopyArg(step) /\ step' = step + 1 /\ UNCHANGED stage
     ELSE stage' = "parse" /\ step' = 1 /\ UNCHANGED <<args, area, bufAt>>

\* A line on stderr: Error and Warning give a position, Info does not, nor
\* does an error about the command line.
Position(r) == IF r.line = "" THEN <<>> ELSE <<r.line, ":", r.col, ": ">>
Format(r) == <<r.severity, ": ">> \o Position(r) \o r.message
Say(r) == said' = Append(said, r) /\ stderr' = Append(stderr, Format(r))
Exits(status) == stopped' = status /\ stage' = "ended"
Fatal(r) == Say(r) /\ Exits("exit 1") /\ UNCHANGED <<argVars, options, preopen, guest, outcome>>
NoPlace(words) == [severity |-> "Error", line |-> "", col |-> "", message |-> words]

Take(g) == guest' = g /\ step' = step + 1 /\ UNCHANGED <<args, area, bufAt, options, preopen, stderr, said, stopped, outcome, stage>>
StartsDash(s) == s # <<>> /\ s[1] = Dash
\* One turn of the loop over ParamStr(1) .. ParamStr(ParamCount).
ParseArg ==
  /\ stage = "parse" /\ step <= ParamCount
  /\ LET s == ParamStr(step)
         name == SubSeq(s, 3, Len(s))
     IN CASE \E on \in BOOLEAN : s = Switch(LetterR, on) -> Take([guest EXCEPT !.range = (s = Switch(LetterR, TRUE))])
          [] \E on \in BOOLEAN : s = Switch(LetterS, on) -> Take([guest EXCEPT !.stack = (s = Switch(LetterS, TRUE))])
          [] s = <<Dash, LetterV>> -> Take([guest EXCEPT !.verbose = TRUE])
          [] s = <<Dash, LetterI>> -> Take([guest EXCEPT !.includes = TRUE])
          [] Len(s) > 2 /\ SubSeq(s, 1, 2) = <<Dash, LetterD>> ->
               IF name \notin guest.defines /\ Cardinality(guest.defines) >= MaxDefines
               THEN Fatal([NoPlace(<<"too many conditional symbols">>) EXCEPT !.line = "0", !.col = "0"])
               ELSE Take([guest EXCEPT !.defines = @ \cup {name}])
          [] s # <<>> /\ ~StartsDash(s) ->
               IF Len(guest.objects) >= MaxObjArgs THEN Fatal(NoPlace(<<"too many objects on the command line">>))
               ELSE Take([guest EXCEPT !.objects = Append(@, s)])
          [] OTHER -> Fatal(NoPlace(<<"unknown option", ": ", "s">>))
ArgsRead ==
  /\ stage = "parse" /\ step > ParamCount
  /\ stage' = "work" /\ UNCHANGED <<argVars, hostVars>>

\* The compilation itself: lines on the way, and one of four ends.
Report ==
  /\ stage = "work" /\ Len(said) < MaxReports
  /\ \E r \in Reports :
       /\ r.severity # "Error" /\ (r.severity = "Info" => guest.verbose)
       /\ Say(r) /\ UNCHANGED <<argVars, options, preopen, guest, stopped, outcome, stage>>
Reject == stage = "work" /\ \E r \in Reports : r.severity = "Error" /\ Fatal(r)
Stop ==
  /\ stage = "work"
  /\ \E how \in {"returned", "exit 0", "trap"} : Exits(how)
  /\ UNCHANGED <<argVars, options, preopen, guest, stderr, said, outcome>>

\* Diagnostic::parse_line and split_position: the first ": " ends a position
\* if what stands before it is two numbers with a colon between.
Numerals == {"0", "1", "2", "3", "4"}
At(tokens, t) == SelectInSeq(tokens, LAMBDA x : x = t)
(* Mutant of SplitPosition: splits at the first colon, as if a position     *)
(* were always there.                                                       *)
SplitPositionLoose(tokens) ==
  LET end == At(tokens, ": ")
  IN IF end = 0 THEN <<"", "", tokens>> ELSE <<tokens[1], tokens[end - 1], SubSeq(tokens, end + 1, Len(tokens))>>
SplitPosition(tokens) ==
  LET end == At(tokens, ": ")
      head == SubSeq(tokens, 1, end - 1)
  IN IF end = 4 /\ head[1] \in Numerals /\ head[2] = ":" /\ head[3] \in Numerals
     THEN <<head[1], head[3], SubSeq(tokens, 5, Len(tokens))>>
     ELSE <<"", "", tokens>>
\* Names are characters, and what the compiler says it says as Error and
\* Warning do, with a position, or as Info does, without one: there a message
\* is a sentence that does not begin like a position.
Words == UNION {ToSet(r.message) : r \in Reports}
ASSUME CompileConstants ==
  /\ MaxDefines \in Nat /\ MaxObjArgs \in Nat /\ MaxReports \in Nat
  /\ \A o \in OptionSets :
       /\ o.range \in BOOLEAN /\ o.stack \in BOOLEAN /\ o.verbose \in BOOLEAN
       /\ o.defines \in Seq(Seq(Nat)) /\ o.objects \in Seq(Seq(Nat))
  /\ \A r \in Reports :
       /\ r \in [severity : {"Error", "Warning", "Info"}, line : Numerals \cup {""},
                 col : Numerals \cup {""}, message : Seq(Words)]
       /\ IF r.severity = "Info"
          THEN r.line = "" /\ r.col = "" /\ SplitPosition(r.message) = <<"", "", r.message>>
          ELSE r.line # "" /\ r.col # ""
ParseLine(l) ==
  LET split == SplitPosition(SubSeq(l, 3, Len(l)))
  IN [severity |-> l[1], line |-> split[1], col |-> split[2], message |-> split[3]]
Tags == {"Error", "Warning", "Info", "Debug", "Progress"}
Tagged(l) == Len(l) > 1 /\ l[1] \in Tags /\ l[2] = ": "
\* Diagnostic::parse_lines: the lines that have a tag, each read.
Diagnostics ==
  LET read[i \in 0..Len(stderr)] ==
        IF i = 0 THEN <<>>
        ELSE IF Tagged(stderr[i]) THEN Append(read[i - 1], ParseLine(stderr[i])) ELSE read[i - 1]
  IN read[Len(stderr)]
HasError == \E i \in DOMAIN Diagnostics : Diagnostics[i].severity = "Error"
\* compile: an exit with status 0 is success, any other is a rejection if
\* there is an error to show, and a trap is a failure of the compiler.
(* Mutant of ResultOf: any exit counts as success when nothing was said.    *)
ResultOfQuiet ==
  CASE stopped = "trap" -> "Instantiation"
    [] stopped \in {"returned", "exit 0"} -> IF HasError THEN "Rejected" ELSE "Ok"
    [] OTHER -> IF Len(Diagnostics) > 1 THEN "Rejected" ELSE "Exit"
ResultOf ==
  CASE stopped = "trap" -> "Instantiation"
    [] stopped \in {"returned", "exit 0"} -> "Ok"
    [] OTHER -> IF HasError THEN "Rejected" ELSE "Exit"
Conclude ==
  /\ stage = "ended" /\ outcome' = ResultOf /\ stage' = "over"
  /\ UNCHANGED <<argVars, options, preopen, guest, stderr, said, stopped>>

CompileNext == Start \/ GetArgs \/ CopyArgs \/ ParseArg \/ ArgsRead \/ Report \/ Reject \/ Stop \/ Conclude
CompileSpec == CompileInit /\ [][CompileNext]_compileVars
-----------------------------------------------------------------------------
\* What the snapshot's own tables hold, names that do not look like
\* switches, and no NUL in a name, where a C string ends.
Plain(o) ==
  /\ \A i \in DOMAIN o.defines : o.defines[i] # <<>> /\ Nul \notin ToSet(o.defines[i])
  /\ Cardinality({CPAS} \cup ToSet(o.defines)) <= MaxDefines /\ Len(o.objects) <= MaxObjArgs
  /\ \A i \in DOMAIN o.objects : ~StartsDash(o.objects[i]) /\ Nul \notin ToSet(o.objects[i])
\* The cells that the first arguments take, each with its NUL.
CellsOf(vector) ==
  LET sum[i \in 0..Len(vector)] == IF i = 0 THEN 0 ELSE sum[i - 1] + Len(vector[i]) + 1
  IN sum
FitsAreas(vector) ==
  /\ Len(vector) <= MaxArgs /\ CellsOf(vector)[Len(vector)] <= ArgBufCap
  /\ \A i \in DOMAIN vector : Len(vector[i]) < SlotSize
\* When the compilation begins, the snapshot works under the very options
\* the host gave: each crossed as text, through memory the host writes and
\* the guest laid out, up to the last slot and the last cell; and the
\* arguments themselves never stopped it.  Whatever the vector was, no slot
\* is given more than it has room for.
Arrived ==
  /\ stage = "work" =>
       guest = [range |-> options.range, stack |-> options.stack, verbose |-> options.verbose,
                includes |-> options.include # NoDir, defines |-> {CPAS} \cup ToSet(options.defines),
                objects |-> options.objects]
  /\ stage \in {"ended", "over"} => \A i \in DOMAIN said : said[i].severity = "Error" => said[i].line # ""
SlotsHold == stage \in {"parse", "work"} => \A i \in 0..(Copied - 1) : area[Slot(i)] < SlotSize
OptionsArrive == SlotsHold /\ (Plain(options) /\ FitsAreas(args) => Arrived)

\* The result says what happened: a module only if the compiler came to its
\* end, a rejection exactly when it reported an error, which is then the last
\* line and the only error; and the diagnostics a host reads back out of the
\* text on stderr are, one by one, what the compiler reported, wherever
\* colons and numbers stand in a message.
ReportsTrue ==
  stage = "over" /\ stopped # "running" =>
    /\ Diagnostics = said
    /\ outcome = "Ok" <=> stopped \in {"returned", "exit 0"}
    /\ outcome = "Rejected" <=> \E i \in DOMAIN said : said[i].severity = "Error"
    /\ \A i \in DOMAIN said : said[i].severity = "Error" => i = Len(said) /\ stopped = "exit 1"

\* "Naming an object a program never imports costs nothing": however many
\* symbols and objects a host names, up to what the compiler itself takes.
ManyArrive == Plain(options) => Arrived
=============================================================================

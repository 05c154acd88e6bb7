---------------------------- MODULE VMTranslator ----------------------------
(***************************************************************************)
(* The translation of VM commands to Hack assembly of Nand2Tetris/VM(2)     *)
(* (n2t/core/vm_translator), and of the files of a program (n2t/infra/vm.py)*)
(***************************************************************************)
EXTENDS Assembler

\* A VM command: an operation, a segment, label or function, and a number.
Command(op, name, n) == [op |-> op, name |-> name, n |-> n]

\* The translation is for the assembler of nand2tetris's CPU emulator, which VM(2)'s tests
\* load it into: that one takes the sums either way round.
EmulatorComp == CompBits @@ ("A+D" :> CompBits["D+A"]) @@ ("M+D" :> CompBits["D+M"])

PushD == <<At(Symbol("SP")), Set("A", "M"), Set("M", "D"), At(Symbol("SP")), Set("M", "M+1")>>
PopD == <<At(Symbol("SP")), Set("AM", "M-1"), Set("D", "M")>>

\* Mutant of StaticSymbol: named without the class.
SharedStatic(class, n) == <<"static", ".", n>>
StaticSymbol(class, n) == <<class, ".", n>>

\* Where a segment begins: its pointer, or the cell itself.
Pointer == [local |-> "LCL", argument |-> "ARG", this |-> "THIS", that |-> "THAT"]
Fixed == [temp |-> 5, pointer |-> 3]

TranslatePush(segment, n, class) ==
  CASE segment = "constant" -> <<At(Number(n)), Set("D", "A")>> \o PushD
    [] segment \in DOMAIN Pointer ->
         <<At(Number(n)), Set("D", "A"), At(Symbol(Pointer[segment])), Set("A", "M+D"),
           Set("D", "M")>> \o PushD
    [] segment \in DOMAIN Fixed ->
         <<At(Number(n)), Set("D", "A"), At(Number(Fixed[segment])), Set("A", "A+D"),
           Set("D", "M")>> \o PushD
    [] segment = "static" -> <<At(StaticSymbol(class, n)), Set("D", "M")>> \o PushD
    [] OTHER -> <<>>

\* The address goes to cell 13 before the value is popped.
PopTo == <<At(Number(13)), Set("M", "D")>> \o PopD \o <<At(Number(13)), Set("A", "M"), Set("M", "D")>>

TranslatePop(segment, n, class) ==
  CASE segment \in DOMAIN Pointer ->
         <<At(Number(n)), Set("D", "A"), At(Symbol(Pointer[segment])), Set("D", "M+D")>> \o PopTo
    [] segment \in DOMAIN Fixed ->
         <<At(Number(n)), Set("D", "A"), At(Number(Fixed[segment])), Set("D", "A+D")>> \o PopTo
    [] segment = "static" -> PopD \o <<At(StaticSymbol(class, n)), Set("M", "D")>>
    [] OTHER -> <<>>

\* The two operands, one in D and one in the cell at A.
Operands == <<At(Symbol("SP")), Set("A", "M-1"), Set("D", "M"), Set("A", "A-1")>>
Shrink == <<At(Symbol("SP")), Set("M", "M-1")>>
Topmost == <<At(Symbol("SP")), Set("A", "M-1")>>

\* Mutant of NumberedLabel: one label for all comparisons.
SharedLabel(name, number) == Symbol(name)
NumberedLabel(name, number) == <<name, "", number>>

\* The comparisons: COMP_FUNCTION_TEMPLATE with its gaps filled.
Comparison(jump, number) ==
  LET true == NumberedLabel("TRUE_RESULT", number)
      continue == NumberedLabel("CONTINUE", number)
  IN  Operands \o <<Set("D", "M-D"), At(true), Jump("D", jump)>>
      \o Topmost \o <<Set("A", "A-1"), Set("M", "0"), At(continue), Jump("0", "JMP"), Label(true)>>
      \o Topmost \o <<Set("A", "A-1"), Set("M", "-1"), Label(continue)>>
      \o Shrink

TranslateOperation(op, number) ==
  CASE op = "add" -> Operands \o <<Set("D", "D+M"), Set("M", "D")>> \o Shrink
    [] op = "sub" -> Operands \o <<Set("D", "M-D"), Set("M", "D")>> \o Shrink
    [] op = "neg" -> Topmost \o <<Set("M", "-M")>>
    [] op = "not" -> Topmost \o <<Set("M", "!M")>>
    [] op = "or" -> Operands \o <<Set("M", "D|M")>> \o Shrink
    [] op = "and" -> Operands \o <<Set("M", "D&M")>> \o Shrink
    [] op = "eq" -> Comparison("JEQ", number)
    [] op = "gt" -> Comparison("JGT", number)
    [] op = "lt" -> Comparison("JLT", number)

TranslateGoto(op, name) ==
  IF op = "goto" THEN <<At(Symbol(name)), Jump("0", "JMP")>>
  ELSE PopD \o <<At(Symbol(name)), Jump("D", "JNE")>>

\* The return address and the caller's pointers are pushed: a frame.
TranslateCall(f, n, number) ==
  LET ret == <<f, "$ret.", number>>
      Saved(pointer) == <<At(Symbol(pointer)), Set("D", "M")>> \o PushD
  IN  <<At(ret), Set("D", "A")>> \o PushD
      \o Saved("LCL") \o Saved("ARG") \o Saved("THIS") \o Saved("THAT")
      \o <<At(Symbol("SP")), Set("D", "M"), At(Number(5)), Set("D", "D-A"),
           At(Number(n)), Set("D", "D-A"), At(Symbol("ARG")), Set("M", "D"),
           At(Symbol("SP")), Set("D", "M"), At(Symbol("LCL")), Set("M", "D")>>
      \o TranslateGoto("goto", f) \o <<Label(ret)>>

TranslateFunction(f, n) ==
  LET Zeros[k \in 0 .. n] ==
        IF k = 0 THEN <<>> ELSE Zeros[k - 1] \o <<At(Number(0)), Set("D", "A")>> \o PushD
  IN  <<Label(Symbol(f))>> \o Zeros[n]

\* FUNC_RET: the return address is saved before the result is stored, which may be
\* where it was.
TranslateReturn ==
  LET Restored(pointer) == <<At(Symbol("R13")), Set("AM", "M-1"), Set("D", "M"),
                             At(Symbol(pointer)), Set("M", "D")>>
  IN  <<At(Symbol("LCL")), Set("D", "M"), At(Symbol("R13")), Set("M", "D"),
        At(Number(5)), Set("A", "D-A"), Set("D", "M"), At(Symbol("R14")), Set("M", "D")>>
      \o PopD \o <<At(Symbol("ARG")), Set("A", "M"), Set("M", "D"),
                   At(Symbol("ARG")), Set("D", "M"), At(Symbol("SP")), Set("M", "D+1")>>
      \o Restored("THAT") \o Restored("THIS") \o Restored("ARG") \o Restored("LCL")
      \o <<At(Symbol("R14")), Set("A", "M"), Jump("0", "JMP")>>

TranslateCommand(c, class, number) ==
  CASE c.op = "push" -> TranslatePush(c.name, c.n, class)
    [] c.op = "pop" -> TranslatePop(c.name, c.n, class)
    [] c.op = "label" -> <<Label(Symbol(c.name))>>
    [] c.op \in {"goto", "if-goto"} -> TranslateGoto(c.op, c.name)
    [] c.op = "call" -> TranslateCall(c.name, c.n, number)
    [] c.op = "function" -> TranslateFunction(c.name, c.n)
    [] c.op = "return" -> TranslateReturn
    [] OTHER -> TranslateOperation(c.op, number)

-----------------------------------------------------------------------------
\* A program is a sequence of files, in the order in which they are found.  If there is
\* more than one, each begins with a call of Sys.init.  Commands are counted per file.
File(class, commands) == [class |-> class, commands |-> commands]

Started(files, f) ==
  (IF Len(files) > 1 THEN <<Command("call", "Sys.init", 0)>> ELSE <<>>) \o files[f].commands

\* All commands, with their class and number.
Linked(files) ==
  LET Numbered(f) ==
        LET s == Started(files, f)
        IN  [i \in DOMAIN s |-> [op |-> s[i].op, name |-> s[i].name, n |-> s[i].n,
                                 class |-> files[f].class, ind |-> i]]
      All[f \in 0 .. Len(files)] == IF f = 0 THEN <<>> ELSE All[f - 1] \o Numbered(f)
  IN  All[Len(files)]

Bootstrap(files) ==
  IF Len(files) > 1
  THEN <<At(Number(256)), Set("D", "A"), At(Symbol("SP")), Set("M", "D")>> ELSE <<>>

\* Lines of assembly, and how many there are before each command.  Pieces are joined.
Assembly(lines, starts) == [lines |-> lines, starts |-> starts]
RECURSIVE Joined(_)
Joined(pieces) ==
  IF Len(pieces) = 1 THEN pieces[1]
  ELSE LET half == Len(pieces) \div 2
           a == Joined(SubSeq(pieces, 1, half))
           b == Joined(SubSeq(pieces, half + 1, Len(pieces)))
       IN  Assembly(a.lines \o b.lines,
                    a.starts \o [k \in DOMAIN b.starts |-> Len(a.lines) + b.starts[k]])

\* VmProgram.translate.
Translate(files) ==
  LET commands == Linked(files)
      Piece(k) == LET c == commands[k] IN Assembly(TranslateCommand(c, c.class, c.ind), <<0>>)
  IN  Joined(<<Assembly(Bootstrap(files), <<>>)>> \o [k \in DOMAIN commands |-> Piece(k)])
=============================================================================

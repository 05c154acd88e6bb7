------------------------------ MODULE VMOnHack ------------------------------
(***************************************************************************)
(* VM programs, translated by VM(2), assembled and run by the Hack          *)
(* simulator, and what the memory means to the program in between.          *)
(***************************************************************************)
EXTENDS JackCompiler
LOCAL INSTANCE Functions
LOCAL INSTANCE SequencesExt

CONSTANT Programs      \* what Built makes of each

Run(c) == c.op \notin {"label", "function"}

\* No command begins at an instruction.
None == 0

\* The translator numbers the labels of comparisons and calls in each file anew
\* (translator.py:231, 262), and what a program calls a label or a function is a label as it
\* is.  A program must see to it itself that no two of these meet in one label; only the
\* calls of Sys.init that the translator puts first do in each one of several files.
LabelsApart(commands) ==
  LET Writes == {k \in DOMAIN commands :
                   \/ commands[k].op \in {"eq", "gt", "lt", "label", "function"}
                   \/ commands[k].op = "call" /\ commands[k].name # "Sys.init"}
      LabelOf(c) == CASE c.op \in {"label", "function"} -> <<"", c.name, 0>>
                      [] c.op = "call" -> <<"ret", c.name, c.ind>>
                      [] OTHER -> <<"result", "", c.ind>>
  IN  Cardinality({LabelOf(commands[k]) : k \in Writes}) = Cardinality(Writes)

\* So must a class that the compiler may give one cell to two of its variables
\* (generator.py:123, 143).
CellsApart(class) ==
  LET symbols == ConstructSymbols(class.vars, <<>>).symbols
      CellOf(name) == <<symbols[name].kind, symbols[name].index>>
  IN  \A x, y \in DOMAIN symbols : CellOf(x) = CellOf(y) => x = y

\* Of a program's files, its commands, the command that begins at each instruction, if
\* any, and the instructions and symbols that are made of them by an assembler with some
\* table of computations; whether it assembles and its labels are apart, and the cells of
\* the Jack classes that it was compiled from, if any; with its results, which say what is
\* in which cells in the end.
Built(p) ==
  LET commands == Linked(p.files)
      assembly == Translate(p.files)
      assembled == Assemble(assembly.lines, p.comps)
      ends == Append(Tail(assembly.starts), Len(assembly.lines))
      Size(from, to) == Len(Instructions(SubSeq(assembly.lines, from + 1, to)))
      Mark(k) == [i \in 1 .. Size(assembly.starts[k], ends[k]) |->
                    IF i = 1 /\ Run(commands[k]) THEN k ELSE None]
      bootstrap == [i \in 1 .. Size(0, assembly.starts[1]) |-> None]
  IN  [commands |-> commands,
       begins |-> bootstrap \o FlattenSeq([k \in DOMAIN commands |-> Mark(k)]),
       symbols |-> assembled.symbols, rom |-> assembled.hack,
       sound |-> ~Raises(assembly.lines, p.comps) /\ LabelsApart(commands),
       apart |-> \A c \in Range(p.classes) : CellsApart(c), results |-> p.results]

\* The programs: a definition is evaluated once where a constant is looked up each time.
Building == Programs
Commands(i) == Building[i].commands
Rom(i) == Building[i].rom

Sound(i) == Building[i].sound

VARIABLES program, ram, address_register, data_register, ind     \* program: which one runs

INSTANCE HackSimulator

VARIABLE vm      \* what the memory meant when the last command began

vars == <<computerVars, vm>>

-----------------------------------------------------------------------------
\* The command that begins at an instruction, and the function that it is in.
CommandAt(line) == Building[program].begins[line + 1]
CommandBegins(line) == CommandAt(line) # None
FunctionOf(k) == CHOOSE j \in 1 .. k :
  /\ Commands(program)[j].op = "function"
  /\ \A i \in j + 1 .. k : Commands(program)[i].op # "function"

\* The cells from one address on, up to another.
Cells(from, to) == [i \in 1 .. to - from |-> Read(ram, Cell(from + i - 1))]

\* The frame with these pointers that is at a command, and those that it was called
\* from: each has saved the pointers of the one before.  The first has LCL 0.
RECURSIVE Frames(_, _, _, _, _, _)
Frames(k, sp, lcl, arg, this, that) ==
  IF lcl = 0
  THEN <<[ret |-> 0, args |-> <<>>, locals |-> <<>>, stack |-> Cells(256, sp),
          this |-> this, that |-> that]>>
  ELSE LET locals == Commands(program)[FunctionOf(k)].n
           bottom == Read(ram, lcl - 4) = 0
           ret == IF bottom THEN 0 ELSE CommandAt(Read(ram, lcl - 5))
       IN  Frames(ret, arg, Read(ram, lcl - 4), Read(ram, lcl - 3), Read(ram, lcl - 2),
                  Read(ram, lcl - 1))
           \o <<[ret |-> ret, args |-> Cells(arg, lcl - 5), locals |-> Cells(lcl, lcl + locals),
                 stack |-> Cells(lcl + locals, sp), this |-> this, that |-> that]>>

\* What this and that point at lies beyond the stack.
Heap == {cell \in DOMAIN ram : cell >= 2048}
Statics == {<<c.class, c.n>> : c \in {d \in Range(Commands(program)) : d.name = "static"}}

Meaning ==
  LET at == CommandAt(ind)
      frames == Frames(at, Read(ram, 0), Read(ram, 1), Read(ram, 2), Read(ram, 3), Read(ram, 4))
  IN  [at |-> at, frames |-> frames,
       heap |-> [cell \in Heap |-> ram[cell]],
       static |-> [v \in Statics |->
                     Read(ram, Building[program].symbols[StaticSymbol(v[1], v[2])])],
       temp |-> [i \in 0 .. 7 |-> Read(ram, 5 + i)]]

VM == INSTANCE VMStack

-----------------------------------------------------------------------------
\* The first computer that is made: the memory is the class's, and every later one
\* finds what this one leaves there.
Init ==
  /\ program \in DOMAIN Building
  /\ ram = <<>> /\ address_register = 0 /\ data_register = 0 /\ ind = 0
  /\ VM!VMInit

Next ==
  /\ Cycle
  /\ vm' = IF Sound(program) /\ CommandBegins(ind) THEN Meaning ELSE vm

\* The simulator's loop runs as many cycles as it is asked for: enough of them.
Spec == Init /\ [][Next]_vars /\ WF_vars(Next)

-----------------------------------------------------------------------------
\* Every cell and register holds a signed 16-bit word, and the next instruction is at an
\* address that A can hold: get_comp's results are cut by c_short before they are saved.
TypeOK == ComputerTypeOK

\* The code that VM(2) writes for a program does what its commands say, one after the
\* other, if an assembler takes it and its labels are apart.  Between two commands the
\* memory holds the frames, the heap and the segments of the machine with a stack, however
\* calls nest and return.
ImplementsVM ==
  /\ VM!VMInit
  /\ [][Sound(program) => VM!VMNext]_vm
  /\ WF_vm(Sound(program) /\ VM!VMNext)

\* Such programs of VM(2)'s tests end with what their .cmp files say in the cells that
\* those look at, and compiled Jack programs, if the cells of their classes are apart, with
\* what Jack says they answer, whatever objects, arrays, loops and calls the compiler has
\* made segments and labels of; and they keep it.
GivesResults ==
  <>[](LET results == Building[program].results
       IN  Sound(program) /\ Building[program].apart =>
             \A cell \in DOMAIN results : Read(ram, cell) = results[cell])
=============================================================================

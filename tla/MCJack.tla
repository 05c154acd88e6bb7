------------------------------- MODULE MCJack -------------------------------
(***************************************************************************)
(* Jack programs that are compiled, translated, assembled and run, with     *)
(* what they answer.                                                        *)
(***************************************************************************)
EXTENDS JackCompiler, CompilationEngine, Jack

C(n) == Only(Constant(n))
V(name) == Only(Variable(name))
T(term) == Only(term)
Parameters(type, names) == [i \in DOMAIN names |-> [name |-> names[i], type |-> type]]
IntVars(names) == <<Declare("var", "int", names)>>

\* A class that counts its objects, with a method that calls others.
Point ==
  JackClass("Point",
    <<Declare("field", "int", <<"x", "y">>), Declare("static", "int", <<"made">>)>>,
    <<Subroutine("constructor", "new", Parameters("int", <<"ax", "ay">>), <<>>,
        <<Let("x", V("ax")), Let("y", V("ay")),
          Let("made", Binary(Variable("made"), "+", Constant(1))),
          Return(<<T(Keyword("this"))>>)>>),
      Subroutine("method", "get", <<>>, <<>>, <<Return(<<V("x")>>)>>),
      Subroutine("method", "move", Parameters("int", <<"d">>), <<>>,
        <<Let("x", Binary(Variable("x"), "+", Variable("d"))), Return(<<>>)>>),
      Subroutine("method", "moved", Parameters("int", <<"d">>), <<>>,
        <<DoCall(CallHere("move", <<V("d")>>)), Return(<<T(CallHere("get", <<>>))>>)>>),
      Subroutine("function", "count", <<>>, <<>>, <<Return(<<V("made")>>)>>)>>)

\* Enough of the operating system's String: how many characters one was made for and the
\* sum of those it got.  Its first subroutine keeps new from calling Memory.alloc where
\* Point's does.
String ==
  JackClass("String", <<Declare("field", "int", <<"size", "sum">>)>>,
    <<Subroutine("method", "value", <<>>, <<>>,
        <<Return(<<Binary(Variable("sum"), "-", Variable("size"))>>)>>),
      Subroutine("constructor", "new", Parameters("int", <<"n">>), <<>>,
        <<Let("size", V("n")), Let("sum", C(0)), Return(<<T(Keyword("this"))>>)>>),
      Subroutine("method", "appendChar", Parameters("int", <<"c">>), <<>>,
        <<Let("sum", Binary(Variable("sum"), "+", Variable("c"))),
          Return(<<T(Keyword("this"))>>)>>)>>)

\* What the variables, the array and the objects hold in the end goes into one number.
ArrayAt == 4000
Weigh(term) ==
  Let("i", [first |-> Variable("i"),
            rest |-> <<[op |-> "+", term |-> Variable("i")],
                       [op |-> "+", term |-> Variable("i")], [op |-> "+", term |-> term]>>])

Main(statements) ==
  JackClass("Main", <<Declare("static", "int", <<"total">>)>>,
    <<Subroutine("function", "run", <<>>,
        <<Declare("var", "Array", <<"a">>), Declare("var", "int", <<"i", "n">>),
          Declare("var", "Point", <<"p", "q">>), Declare("var", "String", <<"s">>)>>,
        <<Let("a", C(ArrayAt)), LetItem("a", C(0), C(2)), LetItem("a", C(2), C(1)),
          Let("i", C(1)), Let("p", T(CallOf("Point", "new", <<C(5), C(6)>>))), Let("q", V("p"))>>
        \o statements
        \o <<Weigh(Item("a", C(0))), Weigh(Item("a", C(1))), Weigh(Variable("n")),
             Weigh(Variable("total")), Weigh(CallOf("p", "get", <<>>)), Return(<<V("i")>>)>>),
      \* The first power of x that is not less than y.
      Subroutine("function", "power", Parameters("int", <<"x", "y">>), IntVars(<<"r">>),
        <<Let("r", C(1)),
          While(T(Keyword("true")),
            <<If(Binary(Variable("r"), "<", Variable("y")),
                <<Let("r", Binary(Variable("r"), "*", Variable("x")))>>,
                <<Return(<<V("r")>>)>>)>>),
          Return(<<>>)>>)>>)

-----------------------------------------------------------------------------
Chain(t, op, u, op2, w) == [Binary(t, op, u) EXCEPT !.rest = @ \o <<[op |-> op2, term |-> w]>>]
Inner == Item("a", T(Item("a", C(2))))

\* All pairs of an element of each of two sequences.
Product(s, t) ==
  [k \in 1 .. Len(s) * Len(t) |-> <<s[1 + (k - 1) \div Len(t)], t[1 + ((k - 1) % Len(t))]>>]

\* Values that need calls, objects and items of the array, some inside others.
Values ==
  <<Binary(Item("a", V("i")), "-", Inner),
    Binary(Inner, "+", CallOf("p", "moved", <<T(Inner)>>)),
    Binary(CallOf("p", "get", <<>>), "-", CallOf("q", "moved", <<C(3)>>)),
    Binary(Variable("i"), "-", CallOf("Main", "power", <<C(2), T(Item("a", C(0)))>>)),
    Chain(Constant(9), "-", Constant(4), "-", Variable("i")),
    Binary(Constant(9), "-", Brackets(Binary(Constant(4), "-", Variable("i")))),
    Chain(Unary("-", Variable("i")), "&", Constant(6), "|", Unary("~", Constant(9))),
    T(CallOf("Point", "count", <<>>))>>

\* Where they go.
Assignment(to, e) ==
  CASE to = "local" -> Let("n", e)
    [] to = "static" -> Let("total", e)
    [] to = "item" -> LetItem("a", V("i"), e)
    [] to = "inner item" -> LetItem("a", T(Inner), e)
Assignments ==
  LET all == Product(<<"local", "static", "item", "inner item">>, Values)
  IN  [k \in DOMAIN all |-> <<Assignment(all[k][1], all[k][2])>>]

\* Statements that jump.
Increment(name) == Let(name, Binary(Variable(name), "+", Constant(1)))
Jumping ==
  <<While(Binary(Variable("i"), "<", Constant(3)),
      <<Increment("i"),
        If(Binary(Variable("i"), "=", Constant(2)), <<Increment("n")>>, <<Increment("total")>>)>>),
    If(Binary(Variable("n"), ">", Constant(0)), <<Increment("i")>>,
      <<If(T(Variable("n")), <<Increment("i")>>, <<>>), Increment("n")>>),
    While(Binary(Variable("n"), "<", Variable("i")),
      <<While(Binary(Variable("n"), "<", Constant(1)), <<Increment("n")>>), Increment("n")>>)>>

\* Strings and objects.
Objects ==
  <<<<Let("s", T(Text(<<72, 105>>))), Let("n", T(CallOf("s", "value", <<>>)))>>,
    <<Let("total", C(1)), Let("q", T(CallOf("Point", "new", <<C(3), C(4)>>))),
      DoCall(CallOf("q", "move", <<C(2)>>)),
      Let("n", Binary(CallOf("q", "get", <<>>), "-", CallOf("Point", "count", <<>>)))>>>>

\* The operating system's part, as VM code.
Vm(op, name, n) == Command(op, name, n)
Memory ==
  File("Memory",
    <<Vm("function", "Memory.alloc", 0), Vm("push", "constant", 5000), Vm("push", "static", 0),
      Vm("add", "", 0), Vm("push", "static", 0), Vm("push", "argument", 0), Vm("add", "", 0),
      Vm("pop", "static", 0), Vm("return", "", 0)>>)
Math ==
  File("Math",
    <<Vm("function", "Math.multiply", 1), Vm("label", "MORE", 0), Vm("push", "argument", 1),
      Vm("if-goto", "ADD", 0), Vm("push", "local", 0), Vm("return", "", 0),
      Vm("label", "ADD", 0), Vm("push", "local", 0), Vm("push", "argument", 0), Vm("add", "", 0),
      Vm("pop", "local", 0), Vm("push", "argument", 1), Vm("push", "constant", 1),
      Vm("sub", "", 0), Vm("pop", "argument", 1), Vm("goto", "MORE", 0)>>)
System ==
  File("Sys",
    <<Vm("function", "Sys.init", 0), Vm("call", "Main.run", 0), Vm("pop", "temp", 1),
      Vm("label", "STOP", 0), Vm("goto", "STOP", 0)>>)

\* A class's file, compiled from its tokens.
JackFile(c) == File(c.name, Generate(CompileClass(ClassTokens(c))))

\* Main.run's answer is in the second cell of temp.
JackProgram(statements, more) ==
  LET p == <<Main(statements), Point, String>> \o more
  IN  [files |-> <<System, Memory, Math>> \o [i \in DOMAIN p |-> JackFile(p[i])],
       classes |-> p, comps |-> EmulatorComp, results |-> (6 :> Answer(p, "run"))]

\* A class that jumps, as Main does, and one with three statics in a declaration.
Chooser ==
  JackClass("Chooser", <<>>,
    <<Subroutine("function", "larger", Parameters("int", <<"x", "y">>), <<>>,
        <<If(Binary(Variable("x"), ">", Variable("y")), <<Return(<<V("x")>>)>>, <<>>),
          Return(<<V("y")>>)>>)>>)
Tally ==
  JackClass("Tally", <<Declare("static", "int", <<"a", "b", "c">>)>>,
    <<Subroutine("function", "left", <<>>, <<>>,
        <<Let("b", C(1)), Let("c", C(2)),
          Return(<<Binary(Variable("b"), "-", Variable("c"))>>)>>)>>)
Failing ==
  <<JackProgram(<<Let("n", T(CallOf("Main", "power", <<C(2), T(CallOf("Chooser", "larger",
                                                                      <<C(3), C(1)>>))>>)))>>,
                <<Chooser>>),
    JackProgram(<<Let("n", T(CallOf("Tally", "left", <<>>)))>>, <<Tally>>)>>

JackPrograms ==
  LET all == Assignments \o Product(Jumping, Jumping) \o Objects
  IN  [k \in DOMAIN all |-> JackProgram(all[k], <<>>)] \o Failing
=============================================================================

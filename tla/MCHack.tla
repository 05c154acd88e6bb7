------------------------------- MODULE MCHack -------------------------------
(***************************************************************************)
(* Programs of the VM translator's tests, all short ones of a kind, and     *)
(* some that the repository's assembler, translator or compiler fails on.   *)
(***************************************************************************)
EXTENDS VMOnHack, MCJack

Do(op) == Command(op, "", 0)
PushConstant(n) == Command("push", "constant", n)
Loop == <<Command("label", "WHILE", 0), Command("goto", "WHILE", 0)>>

\* FibonacciElement, StaticsTest and NestedCall of VM(2)'s tests; NestedCall's main is in
\* a file of its own, so that the program starts as the others do.
Fibonacci ==
  <<File("Main",
      <<Command("function", "Main.fibonacci", 0), Command("push", "argument", 0),
        PushConstant(2), Do("lt"), Command("if-goto", "IF_TRUE", 0),
        Command("goto", "IF_FALSE", 0), Command("label", "IF_TRUE", 0),
        Command("push", "argument", 0), Do("return"), Command("label", "IF_FALSE", 0),
        Command("push", "argument", 0), PushConstant(2), Do("sub"),
        Command("call", "Main.fibonacci", 1), Command("push", "argument", 0),
        PushConstant(1), Do("sub"), Command("call", "Main.fibonacci", 1), Do("add"),
        Do("return")>>),
    File("Sys",
      <<Command("function", "Sys.init", 0), PushConstant(4),
        Command("call", "Main.fibonacci", 1)>> \o Loop)>>

Class(name) ==
  File(name,
    <<Command("function", name \o ".set", 0), Command("push", "argument", 0),
      Command("pop", "static", 0), Command("push", "argument", 1),
      Command("pop", "static", 1), PushConstant(0), Do("return"),
      Command("function", name \o ".get", 0), Command("push", "static", 0),
      Command("push", "static", 1), Do("sub"), Do("return")>>)

Drop == <<Command("pop", "temp", 0)>>
StaticsTest ==
  <<Class("Class1"), Class("Class2"),
    File("Sys",
      <<Command("function", "Sys.init", 0), PushConstant(6), PushConstant(8),
        Command("call", "Class1.set", 2)>> \o Drop
      \o <<PushConstant(23), PushConstant(15), Command("call", "Class2.set", 2)>> \o Drop
      \o <<Command("call", "Class1.get", 0), Command("call", "Class2.get", 0)>> \o Loop)>>

Pointers(this, that) ==
  <<PushConstant(this), Command("pop", "pointer", 0), PushConstant(that),
    Command("pop", "pointer", 1)>>
NestedCall ==
  <<File("Sys",
      <<Command("function", "Sys.init", 0)>> \o Pointers(4000, 5000)
      \o <<Command("call", "Main.main", 0), Command("pop", "temp", 1)>> \o Loop),
    File("Main",
      <<Command("function", "Main.main", 5)>> \o Pointers(4001, 5001)
      \o <<PushConstant(200), Command("pop", "local", 1), PushConstant(40),
           Command("pop", "local", 2), PushConstant(6), Command("pop", "local", 3),
           PushConstant(123), Command("call", "Main.add12", 1)>> \o Drop
      \o [i \in 1 .. 5 |-> Command("push", "local", i - 1)]
      \o [i \in 1 .. 4 |-> Do("add")]
      \o <<Do("return"), Command("function", "Main.add12", 0)>> \o Pointers(4002, 5002)
      \o <<Command("push", "argument", 0), PushConstant(12), Do("add"), Do("return")>>)>>

\* They and what their .cmp files say.
Program(files, comps, results) ==
  [files |-> files, classes |-> <<>>, comps |-> comps, results |-> results]
Tests ==
  <<Program(Fibonacci, EmulatorComp, (0 :> 262) @@ (261 :> 3)),
    Program(StaticsTest, EmulatorComp, (0 :> 263) @@ (261 :> -2) @@ (262 :> 8)),
    Program(NestedCall, EmulatorComp, (0 :> 261) @@ (1 :> 261) @@ (2 :> 256) @@ (3 :> 4000)
                                      @@ (4 :> 5000) @@ (5 :> 135) @@ (6 :> 246))>>

\* Assembled by the repository's own assembler: NestedCall, which it cannot take, and a
\* program without any of the segments whose translation it cannot take.
Own ==
  LET constants ==
        <<File("Sys",
            <<Command("function", "Sys.init", 0), PushConstant(7), PushConstant(3), Do("lt"),
              Command("pop", "static", 1), Command("call", "Main.less", 0), PushConstant(9),
              Command("push", "static", 1), Do("sub")>> \o Loop),
          File("Main",
            <<Command("function", "Main.less", 1), PushConstant(0), PushConstant(3),
              PushConstant(7), Do("lt"), Command("pop", "static", 1),
              Command("push", "static", 1), Do("return")>>)>>
  IN  <<Program(NestedCall, CompBits, 6 :> 246),
        Program(constants, CompBits, (0 :> 263) @@ (261 :> -1) @@ (262 :> 9))>>

\* Two files that compare at the same place: the first one goes on in the second.
Colliding ==
  LET Comparing(name, ops) ==
        File(name, <<Command("function", name \o ".of", 0), Command("push", "argument", 0),
                     PushConstant(5)>> \o ops \o <<Do("return")>>)
  IN  <<Program(<<File("Sys", <<Command("function", "Sys.init", 0), PushConstant(3),
                                Command("call", "Less.of", 1), PushConstant(3),
                                Command("call", "AtMost.of", 1)>> \o Loop),
                  Comparing("Less", <<Do("lt")>>), Comparing("AtMost", <<Do("gt"), Do("not")>>)>>,
                EmulatorComp, (0 :> 263) @@ (261 :> -1) @@ (262 :> -1))>>

-----------------------------------------------------------------------------
\* All bodies of a function that push its two arguments and then do two of these, or
\* compare twice; the top of what is left is returned.
Comparisons == <<Do("eq"), Do("lt"), Do("gt")>>
Free ==
  Comparisons \o <<Do("add"), Do("sub"), Do("neg"), Do("not"), Do("and"), Do("or")>>
  \o [i \in 1 .. 5 |-> Command("push", <<"argument", "local", "static", "temp", "that">>[i], 0)]
  \o [i \in 1 .. 5 |-> Command("pop", <<"argument", "local", "static", "temp", "this">>[i], 0)]
  \o <<PushConstant(32767), Command("call", "Sys.none", 0), Command("call", "Main.first", 2),
       Command("goto", "END", 0), Command("if-goto", "END", 0)>>

Takes(c) ==
  CASE c.op \in {"neg", "not"} -> 1
    [] c.op \in {"add", "sub", "and", "or", "eq", "lt", "gt"} -> 2
    [] c.op \in {"pop", "if-goto"} -> 1
    [] c.op = "call" -> c.n
    [] OTHER -> 0
Gives(c) == IF c.op \in {"pop", "goto", "if-goto"} THEN 0 ELSE 1
Fits(body) ==
  LET one == 2 - Takes(body[1]) + Gives(body[1])
      two == one - Takes(body[2]) + Gives(body[2])
  IN  /\ one >= Takes(body[2])
      /\ one >= 1 \/ body[1].op \notin {"goto", "if-goto"}
      /\ two >= 1

Body(x, y, free) ==
  <<File("Sys",
      <<Command("function", "Sys.init", 0)>> \o Pointers(3000, 3001) \o x \o y
      \o <<Command("call", "Main.body", 2)>> \o Drop \o Loop
      \o <<Command("function", "Sys.none", 0), PushConstant(5), Do("return")>>),
    File("Main",
      <<Command("function", "Main.first", 1), Command("push", "argument", 0), Do("return"),
        Command("function", "Main.body", 1)>> \o Pointers(3001, 3000)
      \o <<Command("push", "argument", 0), Command("push", "argument", 1)>> \o free
      \o <<Command("label", "END", 0), Do("return")>>)>>

TwoComparisons(pair) == <<pair[1], PushConstant(0), pair[2]>>
Bodies ==
  LET comparisons == Product(Comparisons, Comparisons)
  IN  SelectSeq(Product(Free, Free), Fits)
      \o [k \in DOMAIN comparisons |-> TwoComparisons(comparisons[k])]
BodyProgram(free) ==
  Program(Body(<<PushConstant(7)>>, <<PushConstant(3)>>, free), EmulatorComp, <<>>)

MCPrograms ==
  LET bodies == Bodies
      functions == [k \in DOMAIN bodies |-> BodyProgram(bodies[k])]
      all == Tests \o Own \o Colliding \o JackPrograms \o functions
  IN  <<>> \o [k \in DOMAIN all |-> Built(all[k])]
=============================================================================

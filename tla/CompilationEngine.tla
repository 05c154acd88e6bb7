-------------------------- MODULE CompilationEngine --------------------------
(***************************************************************************)
(* The compilation engine of Nand2Tetris/Compiler(2): from tokens to the    *)
(* elements that they make up.  A tree stands for the XML that the code     *)
(* writes around the tokens of an element.                                  *)
(***************************************************************************)
EXTENDS JackSyntax

\* An element, and the token after it.
Compiled(tree, next) == [tree |-> tree, next |-> next]

OP == {"+", "-", "*", "/", "&", "|", "<", ">", "="}
CLASS_VAR_DEC == {"field", "static"}
SUB_ROUTINE_DEC == {"constructor", "method", "function"}

RECURSIVE CompileTerm(_, _), CompileExpression(_, _), CompileExpressionList(_, _)

\* A call of a subroutine here or, with a dot, of another class or object.
CompileSubroutineCall(tokens, i) ==
  LET elsewhere == tokens[i + 1].inp = "."
      first == IF elsewhere THEN i + 4 ELSE i + 2
      args == IF tokens[first].inp = ")" THEN Compiled(<<>>, first)
              ELSE CompileExpressionList(tokens, first)
      call == IF elsewhere THEN CallOf(tokens[i].inp, tokens[i + 2].inp, args.tree)
              ELSE CallHere(tokens[i].inp, args.tree)
  IN  Compiled(call, args.next + 1)

\* What a term is depends on its first token and, after a name, on the next one.
CompileTerm(tokens, i) ==
  LET t == tokens[i]
      next == tokens[i + 1].inp
      Inside(from) == CompileExpression(tokens, from)
  IN  CASE t.tag = "integerConstant" -> Compiled(Constant(t.value), i + 1)
        [] t.tag = "stringConstant" -> Compiled(Text(t.value), i + 1)
        [] t.inp \in {"true", "null", "false", "this"} -> Compiled(Keyword(t.inp), i + 1)
        [] t.inp \in {"-", "~"} ->
             LET u == CompileTerm(tokens, i + 1) IN Compiled(Unary(t.inp, u.tree), u.next)
        [] t.inp = "(" -> LET e == Inside(i + 1) IN Compiled(Brackets(e.tree), e.next + 1)
        [] OTHER ->
             CASE next \in {"(", "."} -> CompileSubroutineCall(tokens, i)
               [] next = "[" ->
                    LET e == Inside(i + 2) IN Compiled(Item(t.inp, e.tree), e.next + 1)
               [] OTHER -> Compiled(Variable(t.inp), i + 1)

CompileExpression(tokens, i) ==
  LET first == CompileTerm(tokens, i)
      Rest[k \in DOMAIN tokens] ==
        IF tokens[k].inp \notin OP THEN Compiled(<<>>, k)
        ELSE LET term == CompileTerm(tokens, k + 1)
                 more == Rest[term.next]
             IN  Compiled(<<[op |-> tokens[k].inp, term |-> term.tree]>> \o more.tree, more.next)
      rest == Rest[first.next]
  IN  Compiled([first |-> first.tree, rest |-> rest.tree], rest.next)

CompileExpressionList(tokens, i) ==
  LET first == CompileExpression(tokens, i)
      others == IF tokens[first.next].inp = ","
                THEN CompileExpressionList(tokens, first.next + 1)
                ELSE Compiled(<<>>, first.next)
  IN  Compiled(<<first.tree>> \o others.tree, others.next)

-----------------------------------------------------------------------------
RECURSIVE CompileStatements(_, _)

CompileLetStatement(tokens, i) ==
  LET name == tokens[i + 1].inp
      index == CompileExpression(tokens, i + 3)
      Value(from) == CompileExpression(tokens, from)
  IN  IF tokens[i + 2].inp = "["
      THEN LET exp == Value(index.next + 2)
           IN  Compiled(LetItem(name, index.tree, exp.tree), exp.next + 1)
      ELSE LET exp == Value(i + 3) IN Compiled(Let(name, exp.tree), exp.next + 1)

CompileDoStatement(tokens, i) ==
  LET call == CompileSubroutineCall(tokens, i + 1)
  IN  Compiled(DoCall(call.tree), call.next + 1)

CompileReturnStatement(tokens, i) ==
  IF tokens[i + 1].inp = ";" THEN Compiled(Return(<<>>), i + 2)
  ELSE LET exp == CompileExpression(tokens, i + 1)
       IN  Compiled(Return(<<exp.tree>>), exp.next + 1)

CompileWhileStatement(tokens, i) ==
  LET cond == CompileExpression(tokens, i + 2)
      body == CompileStatements(tokens, cond.next + 2)
  IN  Compiled(While(cond.tree, body.tree), body.next + 1)

\* The same up to the first closing brace.
CompileIfStatement(tokens, i) ==
  LET w == CompileWhileStatement(tokens, i)
      else == IF tokens[w.next].inp = "else"
              THEN LET body == CompileStatements(tokens, w.next + 2)
                   IN  Compiled(body.tree, body.next + 1)
              ELSE Compiled(<<>>, w.next)
  IN  Compiled(If(w.tree.cond, w.tree.body, else.tree), else.next)

CompileStatements(tokens, i) ==
  LET inp == tokens[i].inp
      statement ==
        CASE inp = "let" -> CompileLetStatement(tokens, i)
          [] inp = "do" -> CompileDoStatement(tokens, i)
          [] inp = "return" -> CompileReturnStatement(tokens, i)
          [] inp = "while" -> CompileWhileStatement(tokens, i)
          [] inp = "if" -> CompileIfStatement(tokens, i)
      more == CompileStatements(tokens, statement.next)
  IN  IF inp = "}" THEN Compiled(<<>>, i)
      ELSE Compiled(<<statement.tree>> \o more.tree, more.next)

-----------------------------------------------------------------------------
\* The first of these tokens from i on.
Upto(tokens, i, inp) ==
  CHOOSE k \in i .. Len(tokens) : tokens[k].inp = inp /\ \A j \in i .. k - 1 : tokens[j].inp # inp

\* Declarations of variables, as long as they are of these kinds: a type and names.
RECURSIVE CompileVarDec(_, _, _)
CompileVarDec(tokens, i, kinds) ==
  IF tokens[i].inp \notin kinds THEN Compiled(<<>>, i)
  ELSE LET end == Upto(tokens, i, ";")
           names == [k \in 1 .. (end - i - 1) \div 2 |-> tokens[i + 2 * k].inp]
           more == CompileVarDec(tokens, end + 1, kinds)
       IN  Compiled(<<Declare(tokens[i].inp, tokens[i + 1].inp, names)>> \o more.tree, more.next)

\* A type and a name each, with a comma in between.
CompileParameterList(tokens, i) ==
  LET end == Upto(tokens, i, ")")
  IN  Compiled([k \in 1 .. (end - i + 1) \div 3 |->
                  [type |-> tokens[i + 3 * k - 3].inp, name |-> tokens[i + 3 * k - 2].inp]], end)

\* From its opening brace to the closing one.
CompileSubroutineBody(tokens, i) ==
  LET vars == CompileVarDec(tokens, i + 1, {"var"})
      statements == CompileStatements(tokens, vars.next)
  IN  Compiled([vars |-> vars.tree, body |-> statements.tree], statements.next)

RECURSIVE CompileSubroutineDec(_, _)
CompileSubroutineDec(tokens, i) ==
  LET params == CompileParameterList(tokens, i + 4)
      body == CompileSubroutineBody(tokens, params.next + 1)
      more == CompileSubroutineDec(tokens, body.next + 1)
  IN  IF tokens[i].inp \notin SUB_ROUTINE_DEC THEN Compiled(<<>>, i)
      ELSE Compiled(<<Subroutine(tokens[i].inp, tokens[i + 2].inp, params.tree,
                                 body.tree.vars, body.tree.body)>> \o more.tree, more.next)

CompileClass(tokens) ==
  LET vars == CompileVarDec(tokens, 4, CLASS_VAR_DEC)
  IN  JackClass(tokens[2].inp, vars.tree, CompileSubroutineDec(tokens, vars.next).tree)
=============================================================================

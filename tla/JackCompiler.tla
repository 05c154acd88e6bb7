---------------------------- MODULE JackCompiler ----------------------------
(***************************************************************************)
(* The code generator of Nand2Tetris/Compiler(2) (n2t/core/compiler): Jack  *)
(* classes to VM commands.                                                  *)
(***************************************************************************)
EXTENDS VMTranslator
LOCAL INSTANCE SequencesExt

Identifier(type, kind, index) == [type |-> type, kind |-> kind, index |-> index]

\* Symbols that are being collected, and the next index of a static and of another one.
Symbols(symbols, variable, static) ==
  [symbols |-> symbols, variable |-> variable, static |-> static]

\* The variables of a declaration.  The first one has the index of one that is not
\* static, and every further one moves that index on.
SingleTypeVariables(t, d, kind) ==
  LET First ==
        Symbols((d.names[1] :> Identifier(d.type, kind, t.variable)) @@ t.symbols,
                IF kind = "static" THEN t.variable ELSE t.variable + 1,
                IF kind = "static" THEN t.static + 1 ELSE t.static)
      Another(u, name) ==
        LET num == IF kind = "static" THEN u.static ELSE u.variable
        IN  Symbols((name :> Identifier(d.type, kind, num)) @@ u.symbols, num + 1, u.static)
  IN  FoldLeft(Another, First, Tail(d.names))

ConstructSymbols(decls, symbols) ==
  LET Declared(t, d) ==
        SingleTypeVariables(t, d, IF d.kind = "var" THEN "local" ELSE d.kind)
  IN  FoldLeft(Declared, Symbols(symbols, 0, 0), decls)

\* A method's first argument is its object.
SubroutineParameters(class, r) ==
  LET this == IF r.kind = "method" THEN "this" :> Identifier(class, "argument", 0) ELSE <<>>
      Parameter(symbols, a) ==
        (a.name :> Identifier(a.type, "argument", Cardinality(DOMAIN symbols))) @@ symbols
  IN  FoldLeft(Parameter, this, r.params)

\* What names mean in a subroutine: those of the class are looked up first.
Scope(class, classSymbols, symbols) ==
  [class |-> class, classSymbols |-> classSymbols, symbols |-> symbols]

LookVariableUp(name, scope) ==
  IF name \notin DOMAIN scope.classSymbols \cup DOMAIN scope.symbols
  THEN [segment |-> "NOT FOUND", type |-> "NOT FOUND", index |-> -1]
  ELSE LET v == IF name \in DOMAIN scope.classSymbols THEN scope.classSymbols[name]
                ELSE scope.symbols[name]
       IN  [segment |-> IF v.kind = "field" THEN "this" ELSE v.kind,
            type |-> v.type, index |-> v.index]

-----------------------------------------------------------------------------
One(op) == <<Command(op, "", 0)>>
PushOf(segment, n) == <<Command("push", segment, n)>>
PopOf(segment, n) == <<Command("pop", segment, n)>>
CallTo(class, f, n) == <<Command("call", class \o "." \o f, n)>>

Operations(op) ==
  CASE op = "+" -> One("add")
    [] op = "-" -> One("sub")
    [] op = "*" -> CallTo("Math", "multiply", 2)
    [] op = "/" -> CallTo("Math", "divide", 2)
    [] op = "=" -> One("eq")
    [] op = ">" -> One("gt")
    [] op = "<" -> One("lt")
    [] op = "&" -> One("and")
    [] op = "|" -> One("or")

UnaryOps(op) == IF op = "~" THEN One("not") ELSE One("neg")

RECURSIVE GenerateExpression(_, _), GenerateTerm(_, _)

\* The code of several expressions, one after the other.
GenerateAll(es, scope) ==
  LET Then(code, e) == code \o GenerateExpression(e, scope) IN FoldLeft(Then, <<>>, es)

GenerateExpression(e, scope) ==
  LET Then(code, r) == code \o GenerateTerm(r.term, scope) \o Operations(r.op)
  IN  FoldLeft(Then, GenerateTerm(e.first, scope), e.rest)

\* The address of an item of an array: the array first, and then the index.
AddressOf(name, index, scope) ==
  LET v == LookVariableUp(name, scope)
  IN  PushOf(v.segment, v.index) \o GenerateExpression(index, scope) \o One("add")

GenerateArray(name, index, scope) ==
  AddressOf(name, index, scope) \o PopOf("pointer", 1) \o PushOf("that", 0)

\* A call of a variable's method pushes the object before the arguments.
GenerateObjectMethodCall(x, f, args, scope) ==
  LET v == LookVariableUp(x, scope)
      object == IF v.segment \in {"local", "argument", "this", "static"}
                THEN PushOf(v.segment, v.index) ELSE <<>>
  IN  object \o GenerateAll(args, scope)
      \o CallTo(IF v.index = -1 THEN x ELSE v.type, f, Len(object) + Len(args))

GenerateThisMethodCall(f, args, scope) ==
  PushOf("pointer", 0) \o GenerateAll(args, scope) \o CallTo(scope.class, f, 1 + Len(args))

GenerateStringConstant(codes) ==
  LET Then(code, c) == code \o PushOf("constant", c) \o CallTo("String", "appendChar", 2)
  IN  FoldLeft(Then, PushOf("constant", Len(codes)) \o CallTo("String", "new", 1), codes)

GenerateKeyword(name) ==
  CASE name = "this" -> PushOf("pointer", 0)
    [] name = "true" -> PushOf("constant", 1) \o One("neg")
    [] name \in {"false", "null"} -> PushOf("constant", 0)

GenerateTerm(t, scope) ==
  CASE t.is = "unary" -> GenerateTerm(t.term, scope) \o UnaryOps(t.op)
    [] t.is = "constant" -> PushOf("constant", t.n)
    [] t.is = "string" -> GenerateStringConstant(t.codes)
    [] t.is = "keyword" -> GenerateKeyword(t.name)
    [] t.is = "brackets" -> GenerateExpression(t.exp, scope)
    [] t.is = "variable" -> LET v == LookVariableUp(t.name, scope) IN PushOf(v.segment, v.index)
    [] t.is = "item" -> GenerateArray(t.name, t.index, scope)
    [] t.is = "of" -> GenerateObjectMethodCall(t.name, t.f, t.args, scope)
    [] t.is = "here" -> GenerateThisMethodCall(t.f, t.args, scope)

-----------------------------------------------------------------------------
\* Code, and the number of the next label.
Code(lines, labels) == [lines |-> lines, labels |-> labels]
JackLabel(k) == "Label$" \o ToString(k)
Labelled(k) == <<Command("label", JackLabel(k), 0)>>
Goto(k) == <<Command("goto", JackLabel(k), 0)>>
IfGoto(k) == <<Command("if-goto", JackLabel(k), 0)>>

\* Mutant of GenerateLet: THAT is set before the value is there.
LetEarly(c, scope) ==
  LET v == LookVariableUp(c.name, scope)
  IN  IF c.is = "letItem"
      THEN AddressOf(c.name, c.index, scope) \o PopOf("pointer", 1)
           \o GenerateExpression(c.exp, scope) \o PopOf("that", 0)
      ELSE GenerateExpression(c.exp, scope) \o PopOf(v.segment, v.index)

\* The value waits in temp 0 while THAT is set: it may have needed THAT itself.
GenerateLet(c, scope) ==
  IF c.is = "letItem"
  THEN AddressOf(c.name, c.index, scope) \o GenerateExpression(c.exp, scope)
       \o PopOf("temp", 0) \o PopOf("pointer", 1) \o PushOf("temp", 0) \o PopOf("that", 0)
  ELSE LET v == LookVariableUp(c.name, scope)
       IN  GenerateExpression(c.exp, scope) \o PopOf(v.segment, v.index)

GenerateDo(c, scope) == GenerateTerm(c.call, scope) \o PopOf("temp", 0)

GenerateReturn(c, scope) ==
  (IF c.exps = <<>> THEN PushOf("constant", 0) ELSE GenerateExpression(c.exps[1], scope))
  \o One("return")

RECURSIVE GenerateStatements(_, _, _), GenerateStatement(_, _, _)

GenerateStatements(body, scope, labels) ==
  LET Then(code, c) ==
        LET more == GenerateStatement(c, scope, code.labels)
        IN  Code(code.lines \o more.lines, more.labels)
  IN  FoldLeft(Then, Code(<<>>, labels), body)

GenerateWhile(c, scope, labels) ==
  LET body == GenerateStatements(c.body, scope, labels + 2)
  IN  Code(Labelled(labels) \o GenerateExpression(c.cond, scope) \o One("not")
             \o IfGoto(labels + 1) \o body.lines \o Goto(labels) \o Labelled(labels + 1),
           body.labels)

GenerateIf(c, scope, labels) ==
  LET head == GenerateExpression(c.cond, scope) \o One("not") \o IfGoto(labels)
      then == GenerateStatements(c.then, scope, labels + 1)
      else == GenerateStatements(c.else, scope, then.labels + 1)
  IN  IF c.else = <<>>
      THEN Code(head \o then.lines \o Labelled(labels), then.labels)
      ELSE Code(head \o then.lines \o Goto(then.labels) \o Labelled(labels)
                  \o else.lines \o Labelled(then.labels), else.labels)

GenerateStatement(c, scope, labels) ==
  CASE c.is \in {"let", "letItem"} -> Code(GenerateLet(c, scope), labels)
    [] c.is = "do" -> Code(GenerateDo(c, scope), labels)
    [] c.is = "while" -> GenerateWhile(c, scope, labels)
    [] c.is = "if" -> GenerateIf(c, scope, labels)
    [] c.is = "return" -> Code(GenerateReturn(c, scope), labels)

\* A constructor allocates a word for every variable of the class, statics too.
Prologue(r, classSymbols) ==
  CASE r.kind = "constructor" ->
         PushOf("constant", Cardinality(DOMAIN classSymbols)) \o CallTo("Memory", "alloc", 1)
         \o PopOf("pointer", 0)
    [] r.kind = "method" -> PushOf("argument", 0) \o PopOf("pointer", 0)
    [] OTHER -> <<>>

GenerateSingleSubroutine(c, classSymbols, r, labels) ==
  LET locals == ConstructSymbols(r.vars, SubroutineParameters(c.name, r))
      body == GenerateStatements(r.body, Scope(c.name, classSymbols, locals.symbols), labels)
  IN  Code(<<Command("function", c.name \o "." \o r.name, locals.variable + locals.static)>>
             \o Prologue(r, classSymbols) \o body.lines, body.labels)

\* Labels are counted from 0 in each class.
GenerateSubroutines(c, classSymbols) ==
  LET Then(code, r) ==
        LET more == GenerateSingleSubroutine(c, classSymbols, r, code.labels)
        IN  Code(code.lines \o more.lines, more.labels)
  IN  FoldLeft(Then, Code(<<>>, 0), c.subroutines).lines

Generate(c) == GenerateSubroutines(c, ConstructSymbols(c.vars, <<>>).symbols)
=============================================================================

----------------------------- MODULE JackSyntax -----------------------------
(***************************************************************************)
(* Jack programs as trees, and the tokens that they are written in.         *)
(***************************************************************************)
EXTENDS Integers, Sequences, TLC
LOCAL INSTANCE SequencesExt

\* Terms.
Constant(n) == [is |-> "constant", n |-> n]
Text(codes) == [is |-> "string", codes |-> codes]      \* a string, by the codes of its characters
Keyword(name) == [is |-> "keyword", name |-> name]
Variable(name) == [is |-> "variable", name |-> name]
Item(name, index) == [is |-> "item", name |-> name, index |-> index]
Unary(op, term) == [is |-> "unary", op |-> op, term |-> term]
Brackets(exp) == [is |-> "brackets", exp |-> exp]
\* A call of f, and of x.f where x is a class or a variable.
CallHere(f, args) == [is |-> "here", f |-> f, args |-> args]
CallOf(x, f, args) == [is |-> "of", name |-> x, f |-> f, args |-> args]

\* An expression is a term and then operators, each with a term.
Only(term) == [first |-> term, rest |-> <<>>]
Binary(t, op, u) == [first |-> t, rest |-> <<[op |-> op, term |-> u]>>]

\* Statements.
Let(name, exp) == [is |-> "let", name |-> name, exp |-> exp]
LetItem(name, index, exp) == [is |-> "letItem", name |-> name, index |-> index, exp |-> exp]
DoCall(call) == [is |-> "do", call |-> call]
While(cond, body) == [is |-> "while", cond |-> cond, body |-> body]
If(cond, then, else) == [is |-> "if", cond |-> cond, then |-> then, else |-> else]
Return(exps) == [is |-> "return", exps |-> exps]        \* one expression or none

\* Declarations: of variables of one type, of a subroutine, of a class.
Declare(kind, type, names) == [kind |-> kind, type |-> type, names |-> names]
Subroutine(kind, name, params, vars, body) ==
  [kind |-> kind, name |-> name, params |-> params, vars |-> vars, body |-> body]
JackClass(name, vars, subroutines) ==
  [name |-> name, vars |-> vars, subroutines |-> subroutines]

-----------------------------------------------------------------------------
\* A token, as the tokenizer writes it; value is that of a number or string.
Token(tag, inp, value) == [tag |-> tag, inp |-> inp, value |-> value]
Sign(inp) == <<Token("symbol", inp, 0)>>
Reserved(inp) == <<Token("keyword", inp, 0)>>
Name(inp) == <<Token("identifier", inp, 0)>>

\* Pieces that follow each other, with something in between.
Separated(pieces, between) ==
  LET Then(tokens, piece) == IF tokens = <<>> THEN piece ELSE tokens \o between \o piece
  IN  FoldLeft(Then, <<>>, pieces)
InBrackets(tokens) == Sign("(") \o tokens \o Sign(")")
InBraces(tokens) == Sign("{") \o tokens \o Sign("}")

RECURSIVE TermTokens(_), ExpTokens(_)

ArgTokens(args) ==
  InBrackets(Separated([k \in DOMAIN args |-> ExpTokens(args[k])], Sign(",")))
ExpTokens(e) ==
  TermTokens(e.first)
  \o FlattenSeq([k \in DOMAIN e.rest |-> Sign(e.rest[k].op) \o TermTokens(e.rest[k].term)])
ItemTokens(name, index) == Name(name) \o Sign("[") \o ExpTokens(index) \o Sign("]")

TermTokens(t) ==
  CASE t.is = "constant" -> <<Token("integerConstant", ToString(t.n), t.n)>>
    [] t.is = "string" -> <<Token("stringConstant", "text", t.codes)>>
    [] t.is = "keyword" -> Reserved(t.name)
    [] t.is = "variable" -> Name(t.name)
    [] t.is = "item" -> ItemTokens(t.name, t.index)
    [] t.is = "unary" -> Sign(t.op) \o TermTokens(t.term)
    [] t.is = "brackets" -> InBrackets(ExpTokens(t.exp))
    [] t.is = "here" -> Name(t.f) \o ArgTokens(t.args)
    [] t.is = "of" -> Name(t.name) \o Sign(".") \o Name(t.f) \o ArgTokens(t.args)

RECURSIVE StatementTokens(_)
BodyTokens(body) == FlattenSeq([k \in DOMAIN body |-> StatementTokens(body[k])])

StatementTokens(c) ==
  CASE c.is = "let" ->
         Reserved("let") \o Name(c.name) \o Sign("=") \o ExpTokens(c.exp) \o Sign(";")
    [] c.is = "letItem" ->
         Reserved("let") \o ItemTokens(c.name, c.index) \o Sign("=") \o ExpTokens(c.exp)
         \o Sign(";")
    [] c.is = "do" -> Reserved("do") \o TermTokens(c.call) \o Sign(";")
    [] c.is = "while" ->
         Reserved("while") \o InBrackets(ExpTokens(c.cond)) \o InBraces(BodyTokens(c.body))
    [] c.is = "if" ->
         Reserved("if") \o InBrackets(ExpTokens(c.cond)) \o InBraces(BodyTokens(c.then))
         \o (IF c.else = <<>> THEN <<>> ELSE Reserved("else") \o InBraces(BodyTokens(c.else)))
    [] c.is = "return" ->
         Reserved("return") \o FlattenSeq([k \in DOMAIN c.exps |-> ExpTokens(c.exps[k])])
         \o Sign(";")

DeclarationTokens(decls) ==
  LET Of(d) == Reserved(d.kind) \o Name(d.type)
               \o Separated([k \in DOMAIN d.names |-> Name(d.names[k])], Sign(",")) \o Sign(";")
  IN  FlattenSeq([k \in DOMAIN decls |-> Of(decls[k])])

\* What a subroutine returns has no part in what follows.
SubroutineTokens(r) ==
  LET params == [k \in DOMAIN r.params |-> Name(r.params[k].type) \o Name(r.params[k].name)]
  IN  Reserved(r.kind) \o Name("int") \o Name(r.name) \o InBrackets(Separated(params, Sign(",")))
      \o InBraces(DeclarationTokens(r.vars) \o BodyTokens(r.body))

ClassTokens(c) ==
  Reserved("class") \o Name(c.name)
  \o InBraces(DeclarationTokens(c.vars)
              \o FlattenSeq([k \in DOMAIN c.subroutines |-> SubroutineTokens(c.subroutines[k])]))
=============================================================================

-------------------------------- MODULE Jack --------------------------------
(***************************************************************************)
(* What Jack programs mean: a reference for what                           *)
(* Nand2Tetris/Compiler(2) makes of them.  Objects are records of their    *)
(* fields and variables go by their names; there are no segments, pointers  *)
(* or labels.                                                               *)
(***************************************************************************)
EXTENDS JackSyntax, FiniteSets
LOCAL INSTANCE Word
LOCAL INSTANCE SequencesExt

Element(s) == {s[i] : i \in DOMAIN s}
NamesOf(decls, kind) == UNION {Element(d.names) : d \in {e \in Element(decls) : e.kind = kind}}
TypeIn(decls, name) == (CHOOSE d \in Element(decls) : name \in Element(d.names)).type

-----------------------------------------------------------------------------
\* A state: the variables of the subroutine that runs, its class and object, what the
\* objects, the classes and the memory hold, and what has been returned.
Untouched(p) ==
  [vars |-> <<>>, types |-> <<>>, class |-> p[1], this |-> 0, objects |-> <<>>,
   static |-> [v \in UNION {{c.name} \X NamesOf(c.vars, "static") : c \in Element(p)} |-> 0],
   memory |-> <<>>, returned |-> <<>>]

\* Objects are numbered from here on: no arithmetic is done with them.
Reference(n) == 20000 + n
Fields(s) == s.objects[s.this - Reference(0)]

Load(s, name) ==
  IF name \in DOMAIN s.vars THEN s.vars[name]
  ELSE IF <<s.class.name, name>> \in DOMAIN s.static THEN s.static[<<s.class.name, name>>]
  ELSE Fields(s)[name]

Store(s, name, v) ==
  IF name \in DOMAIN s.vars THEN [s EXCEPT !.vars[name] = v]
  ELSE IF <<s.class.name, name>> \in DOMAIN s.static
  THEN [s EXCEPT !.static[<<s.class.name, name>>] = v]
  ELSE [s EXCEPT !.objects[s.this - Reference(0)][name] = v]

IsVariable(s, name) ==
  \/ name \in DOMAIN s.vars
  \/ \E d \in Element(s.class.vars) : name \in Element(d.names)
TypeOf(s, name) == IF name \in DOMAIN s.types THEN s.types[name] ELSE TypeIn(s.class.vars, name)

Held(s, address) == IF address \in DOMAIN s.memory THEN s.memory[address] ELSE 0

Truth(b) == IF b THEN -1 ELSE 0
Applied(op, x, y) ==
  CASE op = "+" -> Short(x + y)
    [] op = "-" -> Short(x - y)
    [] op = "*" -> Short(x * y)
    [] op = "&" -> BitAnd(x, y)
    [] op = "|" -> BitOr(x, y)
    [] op = "=" -> Truth(x = y)
    [] op = "<" -> Truth(x < y)
    [] op = ">" -> Truth(x > y)

-----------------------------------------------------------------------------
\* Evaluating gives a value v and the state s afterwards.
Got(v, s) == [v |-> v, s |-> s]

RECURSIVE Term(_, _, _), Expression(_, _, _), Arguments(_, _, _), Called(_, _, _, _, _, _),
          Executed(_, _, _)

\* Operators have no precedence: what is on the left is evaluated first.
Expression(p, e, s) ==
  LET Then(got, r) == LET u == Term(p, r.term, got.s) IN Got(Applied(r.op, got.v, u.v), u.s)
  IN  FoldLeft(Then, Term(p, e.first, s), e.rest)

\* The values of several expressions, from left to right.
Arguments(p, es, s) ==
  LET Then(got, e) == LET u == Expression(p, e, got.s) IN Got(Append(got.v, u.v), u.s)
  IN  FoldLeft(Then, Got(<<>>, s), es)

Term(p, t, s) ==
  CASE t.is = "constant" -> Got(t.n, s)
    [] t.is = "keyword" -> Got(CASE t.name = "this" -> s.this [] t.name = "true" -> -1
                                 [] OTHER -> 0, s)
    [] t.is = "variable" -> Got(Load(s, t.name), s)
    [] t.is = "item" -> LET i == Expression(p, t.index, s)
                        IN  Got(Held(i.s, Load(s, t.name) + i.v), i.s)
    [] t.is = "unary" -> LET u == Term(p, t.term, s)
                         IN  Got(IF t.op = "-" THEN Short(-u.v) ELSE BitNot(u.v), u.s)
    [] t.is = "brackets" -> Expression(p, t.exp, s)
    [] t.is = "string" ->
         LET Then(got, c) == Called(p, "String", "appendChar", got.v, <<c>>, got.s)
         IN  FoldLeft(Then, Called(p, "String", "new", 0, <<Len(t.codes)>>, s), t.codes)
    [] t.is = "here" -> LET a == Arguments(p, t.args, s)
                        IN  Called(p, s.class.name, t.f, s.this, a.v, a.s)
    [] t.is = "of" -> LET a == Arguments(p, t.args, s)
                      IN  IF IsVariable(s, t.name)
                          THEN Called(p, TypeOf(s, t.name), t.f, Load(s, t.name), a.v, a.s)
                          ELSE Called(p, t.name, t.f, 0, a.v, a.s)

\* A subroutine starts with its arguments and with locals that are 0, a constructor with
\* a new object too, and it leaves the variables of its caller alone.
Called(p, class, f, object, args, s) ==
  LET c == CHOOSE d \in Element(p) : d.name = class
      r == CHOOSE q \in Element(c.subroutines) : q.name = f
      new == r.kind = "constructor"
      types == [n \in {a.name : a \in Element(r.params)} |->
                  (CHOOSE a \in Element(r.params) : a.name = n).type]
               @@ [n \in NamesOf(r.vars, "var") |-> TypeIn(r.vars, n)]
      vars == [n \in DOMAIN types |->
                 IF \E i \in DOMAIN r.params : r.params[i].name = n
                 THEN args[CHOOSE i \in DOMAIN r.params : r.params[i].name = n] ELSE 0]
      objects == IF new THEN Append(s.objects, [n \in NamesOf(c.vars, "field") |-> 0])
                        ELSE s.objects
      end == Executed(p, r.body,
               [s EXCEPT !.vars = vars, !.types = types, !.class = c, !.objects = objects,
                         !.this = IF new THEN Reference(Len(objects)) ELSE object])
  IN  Got(end.returned[1], [end EXCEPT !.vars = s.vars, !.types = s.types, !.class = s.class,
                                       !.this = s.this, !.returned = <<>>])

\* Statements run until one of them returns.
Executed(p, body, s) ==
  IF body = <<>> \/ s.returned # <<>> THEN s
  ELSE
  LET c == Head(body)
      next ==
        CASE c.is = "let" -> LET u == Expression(p, c.exp, s) IN Store(u.s, c.name, u.v)
          [] c.is = "letItem" ->
               LET u == Arguments(p, <<c.index, c.exp>>, s)
               IN  [u.s EXCEPT !.memory = (Load(s, c.name) + u.v[1] :> u.v[2]) @@ @]
          [] c.is = "do" -> Term(p, c.call, s).s
          [] c.is = "while" ->
               LET u == Expression(p, c.cond, s)
               IN  IF u.v = 0 THEN u.s ELSE Executed(p, c.body \o <<c>>, u.s)
          [] c.is = "if" ->
               LET u == Expression(p, c.cond, s)
               IN  Executed(p, IF u.v = 0 THEN c.else ELSE c.then, u.s)
          [] c.is = "return" ->
               LET u == Arguments(p, c.exps, s)
               IN  [u.s EXCEPT !.returned = <<IF u.v = <<>> THEN 0 ELSE u.v[1]>>]
  IN  Executed(p, Tail(body), next)

\* What a function of the first class returns when the program is started with it.
Answer(p, f) == Called(p, p[1].name, f, 0, <<>>, Untouched(p)).v
=============================================================================

------------------------------ MODULE VMStack ------------------------------
(***************************************************************************)
(* What the VM translator promises: a program of VM commands runs on a      *)
(* machine with a stack of frames.  A frame has the arguments and locals of *)
(* one call of a function, what it has pushed, and the addresses that its   *)
(* segments this and that begin at.                                         *)
(***************************************************************************)
EXTENDS Word, Sequences, TLC

CONSTANT Commands(_)      \* the commands of a program

VARIABLES program, vm

Code == Commands(program)

\* Labels and functions' entries take no step of their own.
Runs(k) == Code[k].op \notin {"label", "function"}
From(k) == CHOOSE j \in k .. Len(Code) + 1 :
             /\ j <= Len(Code) => Runs(j)
             /\ \A i \in k .. j - 1 : ~Runs(i)

Labelled(name) == CHOOSE k \in DOMAIN Code : Code[k].op = "label" /\ Code[k].name = name
Entry(f) == CHOOSE k \in DOMAIN Code : Code[k].op = "function" /\ Code[k].name = f

Statics == {<<Code[k].class, Code[k].n>> : k \in {j \in DOMAIN Code : Code[j].name = "static"}}

\* A frame of a function that was called with some arguments.  Nobody returns from the
\* function that was called first.
Nobody == 0
Frame(ret, args, locals, this, that) ==
  [ret |-> ret, args |-> args, locals |-> locals, stack |-> <<>>, this |-> this, that |-> that]

Booted ==
  [at |-> From(1), frames |-> <<Frame(Nobody, <<>>, <<>>, 0, 0)>>,
   heap |-> <<>>, static |-> [v \in Statics |-> 0], temp |-> [i \in 0 .. 7 |-> 0]]

VMInit == vm = Booted

-----------------------------------------------------------------------------
Depth == Len(vm.frames)
Top == vm.frames[Depth]
Held(n) == Top.stack[Len(Top.stack) - n]       \* n elements below the top one
Below(n) == SubSeq(Top.stack, 1, Len(Top.stack) - n)

Stored(address) == IF address \in DOMAIN vm.heap THEN vm.heap[address] ELSE 0

Value(c) ==
  CASE c.name = "constant" -> c.n
    [] c.name = "local" -> Top.locals[c.n + 1]
    [] c.name = "argument" -> Top.args[c.n + 1]
    [] c.name = "this" -> Stored(Top.this + c.n)
    [] c.name = "that" -> Stored(Top.that + c.n)
    [] c.name = "static" -> vm.static[<<c.class, c.n>>]
    [] c.name = "temp" -> vm.temp[c.n]
    [] c.name = "pointer" -> IF c.n = 0 THEN Top.this ELSE Top.that

Assigned(m, c, v) ==
  CASE c.name = "local" -> [m EXCEPT !.frames[Depth].locals[c.n + 1] = v]
    [] c.name = "argument" -> [m EXCEPT !.frames[Depth].args[c.n + 1] = v]
    [] c.name = "this" -> [m EXCEPT !.heap = (Top.this + c.n :> v) @@ @]
    [] c.name = "that" -> [m EXCEPT !.heap = (Top.that + c.n :> v) @@ @]
    [] c.name = "static" -> [m EXCEPT !.static[<<c.class, c.n>>] = v]
    [] c.name = "temp" -> [m EXCEPT !.temp[c.n] = v]
    [] c.name = "pointer" -> IF c.n = 0 THEN [m EXCEPT !.frames[Depth].this = v]
                                        ELSE [m EXCEPT !.frames[Depth].that = v]

\* The machine further on, with another stack in the frame on top.
At(k, stack) == [vm EXCEPT !.at = From(k), !.frames[Depth].stack = stack]

Binary == {"add", "sub", "and", "or", "eq", "lt", "gt"}
Unary == {"neg", "not"}

\* What an operation may answer.  Which of two numbers is greater is left open if their
\* difference is no 16-bit word.
Answers(op, x, y) ==
  LET truth(b) == IF b THEN -1 ELSE 0
      ordered(b) == IF x - y \in Word THEN {truth(b)} ELSE {0, -1}
  IN  CASE op = "add" -> {Short(x + y)}
        [] op = "sub" -> {Short(x - y)}
        [] op = "and" -> {BitAnd(x, y)}
        [] op = "or" -> {BitOr(x, y)}
        [] op = "eq" -> {truth(x = y)}
        [] op = "lt" -> ordered(x < y)
        [] op = "gt" -> ordered(x > y)

-----------------------------------------------------------------------------
Push(c) == c.op = "push" /\ vm' = At(vm.at + 1, Append(Top.stack, Value(c)))

Pop(c) == c.op = "pop" /\ vm' = Assigned(At(vm.at + 1, Below(1)), c, Held(0))

Operate(c) ==
  \/ /\ c.op \in Binary
     /\ \E v \in Answers(c.op, Held(1), Held(0)) : vm' = At(vm.at + 1, Append(Below(2), v))
  \/ /\ c.op \in Unary
     /\ vm' = At(vm.at + 1, Append(Below(1), IF c.op = "neg" THEN Short(-Held(0)) ELSE BitNot(Held(0))))

Goto(c) == c.op = "goto" /\ vm' = At(Labelled(c.name), Top.stack)

IfGoto(c) ==
  /\ c.op = "if-goto"
  /\ vm' = At(IF Held(0) # 0 THEN Labelled(c.name) ELSE vm.at + 1, Below(1))

Call(c) ==
  /\ c.op = "call"
  /\ LET left == Len(Top.stack) - c.n
         frame == Frame(IF Depth = 1 THEN Nobody ELSE From(vm.at + 1),
                        SubSeq(Top.stack, left + 1, left + c.n),
                        [i \in 1 .. Code[Entry(c.name)].n |-> 0], Top.this, Top.that)
         caller == At(Entry(c.name), Below(c.n))
     IN  vm' = [caller EXCEPT !.frames = Append(@, frame)]

Return(c) ==
  /\ c.op = "return" /\ Top.ret # Nobody
  /\ LET frames == SubSeq(vm.frames, 1, Depth - 1)
     IN  vm' = [vm EXCEPT !.at = Top.ret,
                          !.frames = [frames EXCEPT ![Depth - 1].stack = Append(@, Held(0))]]

VMNext ==
  /\ vm.at <= Len(Code)
  /\ LET c == Code[vm.at]
     IN  Push(c) \/ Pop(c) \/ Operate(c) \/ Goto(c) \/ IfGoto(c) \/ Call(c) \/ Return(c)
  /\ UNCHANGED program

\* The machine goes on until it is past the last command.
VMSpec == VMInit /\ [][VMNext]_vm /\ WF_vm(VMNext)
=============================================================================

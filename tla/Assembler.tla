------------------------------ MODULE Assembler ------------------------------
(***************************************************************************)
(* The assembler of Nand2Tetris/Assembler (n2t/core/assembler): two passes  *)
(* over the lines, the first for the labels, the second for the variables   *)
(* and the bits.                                                            *)
(***************************************************************************)
EXTENDS Integers, Sequences, FiniteSets, TLC

\* A symbol is a name, what joins it to a number, and the number; a number alone is one
\* without a name.
Symbol(name) == <<name, "", 0>>
Number(n) == <<"", "", n>>
IsNumber(symbol) == symbol[1] = ""

\* Lines of assembly code.
At(symbol) == [type |-> "A", symbol |-> symbol]
Label(symbol) == [type |-> "L", symbol |-> symbol]
Set(dest, comp) == [type |-> "C", dest |-> dest, comp |-> comp, jump |-> ""]
Jump(comp, jump) == [type |-> "C", dest |-> "", comp |-> comp, jump |-> jump]

\* SymbolTable.__MAP.  R0 to R15 are left out but for the two that are used.
Predefined ==
  (Symbol("SP") :> 0) @@ (Symbol("LCL") :> 1) @@ (Symbol("ARG") :> 2) @@
  (Symbol("THIS") :> 3) @@ (Symbol("THAT") :> 4) @@
  (Symbol("R13") :> 13) @@ (Symbol("R14") :> 14) @@
  (Symbol("SCREEN") :> 16384) @@ (Symbol("KBD") :> 24576)

\* Translator's tables.  Sums are there one way round only: no "A+D" and no "M+D".
DestBits ==
  ("" :> "000") @@ ("M" :> "001") @@ ("D" :> "010") @@ ("MD" :> "011") @@
  ("A" :> "100") @@ ("AM" :> "101") @@ ("AD" :> "110") @@ ("AMD" :> "111")

CompBits ==
  ("0" :> <<"0", "101010">>) @@ ("1" :> <<"0", "111111">>) @@ ("-1" :> <<"0", "111010">>) @@
  ("D" :> <<"0", "001100">>) @@ ("A" :> <<"0", "110000">>) @@ ("M" :> <<"1", "110000">>) @@
  ("!D" :> <<"0", "001101">>) @@ ("!A" :> <<"0", "110001">>) @@ ("!M" :> <<"1", "110001">>) @@
  ("-D" :> <<"0", "001111">>) @@ ("-A" :> <<"0", "110011">>) @@ ("-M" :> <<"1", "110011">>) @@
  ("D+1" :> <<"0", "011111">>) @@ ("A+1" :> <<"0", "110111">>) @@ ("M+1" :> <<"1", "110111">>) @@
  ("D-1" :> <<"0", "001110">>) @@ ("A-1" :> <<"0", "110010">>) @@ ("M-1" :> <<"1", "110010">>) @@
  ("D+A" :> <<"0", "000010">>) @@ ("D+M" :> <<"1", "000010">>) @@
  ("D-A" :> <<"0", "010011">>) @@ ("A-D" :> <<"0", "000111">>) @@
  ("D-M" :> <<"1", "010011">>) @@ ("M-D" :> <<"1", "000111">>) @@
  ("D&A" :> <<"0", "000000">>) @@ ("D&M" :> <<"1", "000000">>) @@
  ("D|A" :> <<"0", "010101">>) @@ ("D|M" :> <<"1", "010101">>)

JumpBits ==
  ("" :> "000") @@ ("JGT" :> "001") @@ ("JEQ" :> "010") @@ ("JGE" :> "011") @@
  ("JLT" :> "100") @@ ("JNE" :> "101") @@ ("JLE" :> "110") @@ ("JMP" :> "111")

-----------------------------------------------------------------------------
IsInstruction(c) == c.type # "L"
Instructions(assembly) == SelectSeq(assembly, IsInstruction)

\* Each label stands for the instruction that follows it; of two equal ones the last
\* does.
FirstIteration(assembly) ==
  LET Labels == {k \in DOMAIN assembly : assembly[k].type = "L"}
      Last(symbol) == CHOOSE k \in Labels :
                        /\ assembly[k].symbol = symbol
                        /\ \A j \in Labels : assembly[j].symbol = symbol => j <= k
  IN  [symbol \in {assembly[k].symbol : k \in Labels} |->
         Len(Instructions(SubSeq(assembly, 1, Last(symbol))))]
      @@ Predefined

\* Each other symbol is a variable, and they get the cells from 16 on, in the order in
\* which they come.
Variables(assembly, labels) ==
  LET Uses == {k \in DOMAIN assembly :
                 /\ assembly[k].type = "A" /\ ~IsNumber(assembly[k].symbol)
                 /\ assembly[k].symbol \notin DOMAIN labels}
      Names == {assembly[k].symbol : k \in Uses}
      Found(symbol) == CHOOSE k \in Uses :
                         /\ assembly[k].symbol = symbol
                         /\ \A j \in Uses : assembly[j].symbol = symbol => k <= j
  IN  [symbol \in Names |-> 15 + Cardinality({s \in Names : Found(s) <= Found(symbol)})]

Address(symbol, symbols) == IF IsNumber(symbol) THEN symbol[3] ELSE symbols[symbol]

\* With a table of the computations: an assembler that takes more of them has another.
AssembleCommand(c, symbols, comps) ==
  IF c.type = "A" THEN [type |-> "A", value |-> Address(c.symbol, symbols)]
  ELSE [type |-> "C", a |-> comps[c.comp][1], comp |-> comps[c.comp][2],
        dest |-> DestBits[c.dest], jump |-> JumpBits[c.jump]]

\* A computation that the table lacks raises KeyError.
Raises(assembly, comps) ==
  \E i \in DOMAIN assembly : assembly[i].type = "C" /\ assembly[i].comp \notin DOMAIN comps

\* The instructions, none if it raises, and the symbols that they were assembled with.
Assemble(assembly, comps) ==
  LET labels == FirstIteration(assembly)
      symbols == labels @@ Variables(assembly, labels)
      code == Instructions(assembly)
  IN  [symbols |-> symbols,
       hack |-> IF Raises(assembly, comps) THEN <<>>
                ELSE <<>> \o [i \in DOMAIN code |-> AssembleCommand(code[i], symbols, comps)]]
=============================================================================

---------------------------- MODULE HackSimulator ----------------------------
(***************************************************************************)
(* The Hack computer as Nand2Tetris/Hack Simulator runs it                  *)
(* (n2t/core/hack_simulator/facade.py).  ram holds the cells that were      *)
(* written; every other one is 0.                                           *)
(***************************************************************************)
EXTENDS Word, Sequences, TLC

CONSTANT Rom(_)      \* the instructions of a program

VARIABLES program, ram, address_register, data_register, ind

computerVars == <<program, ram, address_register, data_register, ind>>

A == address_register
D == data_register

\* Python's index into a list of 32768 cells: a negative one counts from the end.
Cell(address) == address % 32768
Read(memory, cell) == IF cell \in DOMAIN memory THEN memory[cell] ELSE 0
M == Read(ram, Cell(A))

\* get_comp
Comp(c) ==
  LET Y == IF c.a = "0" THEN A ELSE M
  IN  CASE c.comp = "101010" -> 0
        [] c.comp = "111111" -> 1
        [] c.comp = "111010" -> -1
        [] c.comp = "001100" -> D
        [] c.comp = "110000" -> Y
        [] c.comp = "001101" -> BitNot(D)
        [] c.comp = "110001" -> BitNot(Y)
        [] c.comp = "001111" -> -D
        [] c.comp = "110011" -> -Y
        [] c.comp = "011111" -> D + 1
        [] c.comp = "110111" -> Y + 1
        [] c.comp = "001110" -> D - 1
        [] c.comp = "110010" -> Y - 1
        [] c.comp = "000010" -> D + Y
        [] c.comp = "010011" -> D - Y
        [] c.comp = "000111" -> Y - D
        [] c.comp = "000000" -> BitAnd(Y, D)
        [] OTHER -> BitOr(Y, D)

\* Mutant of Bounded: Python's numbers as they are.
Unbounded(n) == n

\* c_short(comp).value
Bounded(n) == Short(n)

\* save_value: the memory is written before the address changes.
Save(dest, value) ==
  /\ ram' = IF dest \in {"001", "011", "101", "111"} THEN (Cell(A) :> value) @@ ram ELSE ram
  /\ data_register' = IF dest \in {"010", "011", "110", "111"} THEN value ELSE D
  /\ address_register' = IF dest \in {"100", "101", "110", "111"} THEN value ELSE A

\* simulate_jump_instruction
Jumps(jump, value) ==
  CASE jump = "000" -> FALSE
    [] jump = "001" -> value > 0
    [] jump = "010" -> value = 0
    [] jump = "011" -> value >= 0
    [] jump = "100" -> value < 0
    [] jump = "101" -> value # 0
    [] jump = "110" -> value <= 0
    [] OTHER -> TRUE

AInstruction(c) ==
  /\ c.type = "A"
  /\ address_register' = c.value
  /\ ind' = ind + 1
  /\ UNCHANGED <<ram, data_register>>

CInstruction(c) ==
  /\ c.type = "C"
  /\ LET comp == Bounded(Comp(c))
     IN  /\ Save(c.dest, comp)
         /\ ind' = IF Jumps(c.jump, comp) THEN address_register' ELSE ind + 1

\* One cycle.  Past the last instruction there is nothing to do.
Cycle ==
  /\ ind < Len(Rom(program))
  /\ LET c == Rom(program)[ind + 1] IN AInstruction(c) \/ CInstruction(c)
  /\ UNCHANGED program

ComputerTypeOK ==
  /\ DOMAIN ram \subseteq 0 .. 32767 /\ \A cell \in DOMAIN ram : ram[cell] \in Word
  /\ address_register \in Word /\ data_register \in Word
  /\ ind \in 0 .. 32767
=============================================================================

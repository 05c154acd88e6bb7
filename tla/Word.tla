-------------------------------- MODULE Word --------------------------------
(***************************************************************************)
(* 16-bit words, signed as ctypes.c_short has them.                         *)
(***************************************************************************)
EXTENDS Integers
LOCAL INSTANCE Bitwise

Word == -32768 .. 32767

\* c_short(n).value
Short(n) == ((n + 32768) % 65536) - 32768

BitNot(x) == -x - 1
BitAnd(x, y) == Short((x % 65536) & (y % 65536))
BitOr(x, y) == Short((x % 65536) | (y % 65536))
=============================================================================

--------------------------- MODULE AdditionChains ---------------------------
(***************************************************************************)
(* fe_invert and fe_pow22523 with their real exponents. A register holds a *)
(* power of z; here it is the exponent: how often each power of two counts *)
(* in it. Multiplications add exponents, squarings move them up.           *)
(***************************************************************************)
EXTENDS Integers, Sequences

Exponent == 0..255  \* bits of the exponents that can occur

VARIABLES
  power,  \* the function called
  reg,    \* its z, t0 .. t3 and out
  line,   \* its current statement
  turn    \* how many squarings of the statement, and of the loop after it, are done

powerVars == <<power, reg, line, turn>>

Registers == {"z", "t0", "t1", "t2", "t3", "out"}

\* fe_sq(out, x) and the loop that squares out times - 1 times again;
\* fe_mul(out, x, y).
Sq(out, x, times) == [out |-> out, x |-> x, y |-> x, times |-> times]
Mul(out, x, y) == [out |-> out, x |-> x, y |-> y, times |-> 0]

\* z^(2^255 - 21).
Invert ==
  << Sq("t0", "z", 1), Sq("t1", "t0", 2), Mul("t1", "z", "t1"), Mul("t0", "t0", "t1"),
     Sq("t2", "t0", 1), Mul("t1", "t1", "t2"),
     Sq("t2", "t1", 5), Mul("t1", "t2", "t1"),
     Sq("t2", "t1", 10), Mul("t2", "t2", "t1"),
     Sq("t3", "t2", 20), Mul("t2", "t3", "t2"),
     Sq("t2", "t2", 10), Mul("t1", "t2", "t1"),
     Sq("t2", "t1", 50), Mul("t2", "t2", "t1"),
     Sq("t3", "t2", 100), Mul("t2", "t3", "t2"),
     Sq("t2", "t2", 50), Mul("t1", "t2", "t1"),
     Sq("t1", "t1", 5), Mul("out", "t1", "t0") >>

\* z^(2^252 - 3).
Pow22523 ==
  << Sq("t0", "z", 1), Sq("t1", "t0", 2), Mul("t1", "z", "t1"), Mul("t0", "t0", "t1"),
     Sq("t0", "t0", 1), Mul("t0", "t1", "t0"),
     Sq("t1", "t0", 5), Mul("t0", "t1", "t0"),
     Sq("t1", "t0", 10), Mul("t1", "t1", "t0"),
     Sq("t2", "t1", 20), Mul("t1", "t2", "t1"),
     Sq("t1", "t1", 10), Mul("t0", "t1", "t0"),
     Sq("t1", "t0", 50), Mul("t1", "t1", "t0"),
     Sq("t2", "t1", 100), Mul("t1", "t2", "t1"),
     Sq("t1", "t1", 50), Mul("t0", "t1", "t0"),
     Sq("t0", "t0", 2), Mul("out", "t0", "z") >>

Program == [fe_invert |-> Invert, fe_pow22523 |-> Pow22523, none |-> <<>>]

Unset == [k \in Exponent |-> 0]

Powering(name) ==
  /\ power = name
  /\ reg = [r \in Registers |-> IF r = "z" THEN [Unset EXCEPT ![0] = 1] ELSE Unset]
  /\ line = 1
  /\ turn = 0

PowerInit == \E name \in {"fe_invert", "fe_pow22523"} : Powering(name)

\* Mutant of Turns: the loop runs from 0.
TurnsFromZero(s) == s.times + 1

\* Squarings in a statement and the loop behind it.
Turns(s) == s.times

Square ==
  LET s == Program[power][line]
      x == reg[IF turn = 0 THEN s.x ELSE s.out] IN
  /\ line <= Len(Program[power]) /\ s.times > 0 /\ turn < Turns(s)
  /\ reg' = [reg EXCEPT ![s.out] = [k \in Exponent |-> IF k = 0 THEN 0 ELSE x[k - 1]]]
  /\ IF turn + 1 = Turns(s) THEN line' = line + 1 /\ turn' = 0
                            ELSE line' = line /\ turn' = turn + 1
  /\ UNCHANGED power

Multiply ==
  LET s == Program[power][line] IN
  /\ line <= Len(Program[power]) /\ s.times = 0
  /\ reg' = [reg EXCEPT ![s.out] = [k \in Exponent |-> reg[s.x][k] + reg[s.y][k]]]
  /\ line' = line + 1
  /\ UNCHANGED <<power, turn>>

PowerNext == Square \/ Multiply

PowerSpec == PowerInit /\ [][PowerNext]_powerVars

-----------------------------------------------------------------------------
\* fe_invert raises to 2^255 - 1 - 20, the prime less two, and fe_pow22523 to
\* 2^252 - 1 - 2, the prime less five by eight: what inverts and what takes
\* square roots in the field of this prime.
ExponentReached ==
  line > Len(Program[power]) /\ power # "none" =>
    reg["out"] = [k \in Exponent |->
      IF IF power = "fe_invert" THEN k < 255 /\ k \notin {2, 4} ELSE k < 252 /\ k # 1
        THEN 1 ELSE 0]
=============================================================================

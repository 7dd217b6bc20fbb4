------------------------------- MODULE Parameters ------------------------------
(***************************************************************************)
(* The parser of conf.txt (parser.c): defaults, a line for each parameter  *)
(* in any order, and the corrections made once all are read.  A line is a  *)
(* name and a number, of which the array of a parameter keeps what fits:   *)
(* only a number too large for an unsigned long is noticed.                *)
(*                                                                         *)
(* The file has the NUM_PARAMETERS lines the code takes for granted; names *)
(* may be repeated, and then others are missing.                           *)
(***************************************************************************)
EXTENDS Integers

CONSTANTS
    SO_BLOCK_SIZE,
    Default,       \* assign_defaults: a number for each name
    Wide,          \* the names of unsigned longs; others are unsigned ints
    Width,         \* one more than the largest unsigned int
    Number,        \* bound: the numbers in the file
    NUM_PARAMETERS

Name == DOMAIN Default

VARIABLES
    par,     \* the parameters in shared memory
    lines,   \* how many lines have been read
    erange,  \* is errno ERANGE?
    done,    \* have the corrections been made?
    zeroed   \* history: the divisors whose last line left 0 of its number

vars == <<par, lines, erange, done, zeroed>>

Init == par = Default /\ lines = 0 /\ erange = FALSE /\ done = FALSE /\ zeroed = {}

\* The parameters by which, or by twice which, RAND divides: a friend of a
\* node's (nodes.c) and the node of a transaction (users.c) are drawn with it.
Divisors == {"SO_FRIENDS_NUM", "SO_NODES_NUM"}

\* What an unsigned int, or an unsigned long, keeps of a number.
Kept(name, n) ==
    IF name \in Wide THEN n ELSE n % Width

\* There is no file.
NoFile ==
    /\ lines = 0 /\ ~done
    /\ done' = TRUE
    /\ UNCHANGED <<par, lines, erange, zeroed>>

\* A line, if it is not a reward above 100.
ReadLine(name, n) ==
    /\ lines < NUM_PARAMETERS /\ ~done
    /\ par' = IF name = "SO_REWARD" /\ n > 100
              THEN par ELSE [par EXCEPT ![name] = Kept(name, n)]
    /\ lines' = lines + 1
    /\ zeroed' = IF Kept(name, n) = 0 THEN zeroed \cup ({name} \cap Divisors)
                                      ELSE zeroed \ {name}
    /\ UNCHANGED <<erange, done>>

\* A number out of range: whatever it leaves behind is forgotten.
ReadTooLarge ==
    /\ lines < NUM_PARAMETERS /\ ~done
    /\ erange' = TRUE
    /\ lines' = lines + 1
    /\ UNCHANGED <<par, done, zeroed>>

\* A parameter that must not exceed another.
Capped(p, name, bound) == [p EXCEPT ![name] = IF @ > p[bound] THEN p[bound] ELSE @]

\* Mutant: the comparison forgets equality.
PoolRaisedBelow(p) ==
    [p EXCEPT !.SO_TP_SIZE = IF @ < SO_BLOCK_SIZE THEN SO_BLOCK_SIZE + 1 ELSE @]

\* A pool has room for more than a block.
PoolRaised(p) ==
    [p EXCEPT !.SO_TP_SIZE = IF @ <= SO_BLOCK_SIZE THEN SO_BLOCK_SIZE + 1 ELSE @]

\* The corrections, which are made to the defaults, too.
Correct ==
    /\ lines = NUM_PARAMETERS /\ ~done
    /\ LET read == IF erange THEN Default ELSE par
           gen  == Capped(read, "SO_MIN_TRANS_GEN_NSEC", "SO_MAX_TRANS_GEN_NSEC")
           proc == Capped(gen, "SO_MIN_TRANS_PROC_NSEC", "SO_MAX_TRANS_PROC_NSEC")
       IN  par' = Capped(PoolRaised(proc), "SO_FRIENDS_NUM", "SO_NODES_NUM")
    /\ done' = TRUE
    /\ UNCHANGED <<lines, erange, zeroed>>

Next ==
    \/ \E name \in Name, n \in Number : ReadLine(name, n)
    \/ ReadTooLarge \/ NoFile \/ Correct

Spec == Init /\ [][Next]_vars

-------------------------------------------------------------------------------

\* Parameters that agree with each other: a pool holds more than a block, there
\* are no more friends than nodes (the Knuth algorithm reads what it has not
\* written otherwise), the sleeps have a range, and a reward is a share.
Consistent(p) ==
    /\ p.SO_TP_SIZE > SO_BLOCK_SIZE
    /\ p.SO_FRIENDS_NUM <= p.SO_NODES_NUM
    /\ p.SO_MIN_TRANS_GEN_NSEC <= p.SO_MAX_TRANS_GEN_NSEC
    /\ p.SO_MIN_TRANS_PROC_NSEC <= p.SO_MAX_TRANS_PROC_NSEC
    /\ p.SO_REWARD <= 100
    /\ \A name \in Name \ Wide : p[name] < Width

\* The corrections, in their order, make the parameters agree with each other.
\* They let a divisor of 0 through, with which a node or a user ends in RAND;
\* but only a line that says 0, or a number cut to 0, can bring that about, and
\* no correction or default: the friends are none exactly if the file leaves 0
\* of them or of the nodes, and nothing it says was out of range.
Admissible ==
    done =>
        /\ Consistent(par)
        /\ par.SO_NODES_NUM = 0 <=> ~erange /\ "SO_NODES_NUM" \in zeroed
        /\ par.SO_FRIENDS_NUM = 0 <=> ~erange /\ zeroed # {}

===============================================================================

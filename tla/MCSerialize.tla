---------------------------- MODULE MCSerialize ----------------------------
(* Small instances of Serialize.  A `big' block ends 12 bytes before the   *)
(* first 16 KB page does in format v01, which an UPDATE_REG exactly fills. *)
EXTENDS Serialize, TLC

C(o, r, n) == [op |-> o, reg |-> r, len |-> n]

big == C("blockwrite", 0, 4085)

MCCommands ==
    { big,
      C("blockwrite", 4 * 4085, 1),     \* continues big
      C("blockwrite", 8, 2),
      C("blockset", 8, 1),
      C("ddr_patch", 8, 40),
      C("custom", 0, 3),
      C("pm_start", 0, 0), C("pm_end", 0, 0),
      C("update_reg", 8, 0) }

MCLimit == [c \in MCCommands |-> IF c.op \in {"update_reg", "ddr_patch", "pm_start"} THEN 2 ELSE 1]

(* Transactions of another tool, as sequences of operations and sizes.     *)
Tool == {<<"blockwrite", 16356>>, <<"noop", 4>>, <<"custom", 11>>, <<"user_op", 8>>,
         <<"update_reg", 12>>}
RECURSIVE EndOfFirst(_, _)
EndOfFirst(s, k) == IF k = 0 THEN TXN_HEADER_SIZE ELSE EndOfFirst(s, k - 1) + s[k][2]
Binary(s) == [k \in DOMAIN s |-> [op |-> s[k][1], src |-> <<k>>, at |-> EndOfFirst(s, k - 1),
                                  size |-> s[k][2], count |-> 0]]
MCSources == {Binary(s) : s \in UNION {[1..n -> Tool] : n \in 1..4}}
=============================================================================

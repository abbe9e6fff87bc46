----------------------------- MODULE MCTextCode -----------------------------
EXTENDS TextCode, MCHttpParser

CONSTANTS c, js, MaxStack, MaxFields

(* Texts of up to MaxFields fields and of about ten characters, with the    *)
(* values at the bounds of months and days.                                 *)
ValuesOf(digits) ==
  CASE digits = 0 -> {0}
    [] digits = 1 -> {0, 1}
    [] digits = 2 -> {0, 1, 12, 13, 31, 32}
    [] OTHER -> {1, 13, 32}

Fields ==
  UNION {{[digits |-> n, value |-> v, junk |-> FALSE] : v \in ValuesOf(n)} :
           n \in {0, 1, 2, 4, 6, 8, 10}}
  \cup {[digits |-> 2, value |-> 0, junk |-> TRUE]}

SmallDates ==
  {d \in UNION {[1 .. n -> Fields] : n \in 1 .. MaxFields} : TextLength(d) \in 9 .. 11}

(* Stacks of up to MaxStack texts, one of every kind a literal tells apart. *)
Texts ==
  {<<>>, <<c>>, <<js>>, <<c, js>>,
   <<c, "comma", js>>, <<"open", c, "close">>, <<"open", c>>, <<js, "close">>,
   <<"quote", c, "quote">>, <<"quote", "quote">>, <<c, "quote">>,
   <<"quote", c, "comma", js, "quote">>, <<"quote", "open", c, "quote">>,
   <<"quote", js, "close", "quote">>}

SmallStacks == UNION {[1 .. n -> Texts] : n \in 0 .. MaxStack}

(* A row with a text of every length around the limits of the buffers, and *)
(* a row of two columns of every type, and two rows.                       *)
OneText(n) == <<<<[type |-> "string", size |-> n, quotes |-> FALSE]>>>>

Columns ==
  {[type |-> "null", size |-> 4], [type |-> "integer", size |-> 2],
   [type |-> "string", size |-> 3, quotes |-> TRUE],
   [type |-> "string", size |-> 60, quotes |-> FALSE]}
  \cup {[type |-> "array", texts |-> t] :
          t \in {<<>>, <<[size |-> 3, quotes |-> FALSE]>>,
                 <<[size |-> 0, quotes |-> FALSE], [size |-> 253, quotes |-> FALSE]>>,
                 <<[size |-> 30, quotes |-> FALSE], [size |-> 252, quotes |-> FALSE]>>}}

Few == {v \in Columns : v.type # "array" \/ Len(v.texts) = 1}

SmallRows ==
  {<<>>} \cup {OneText(n) : n \in 0 .. 260}
  \cup [1 .. 1 -> [1 .. 2 -> Columns]] \cup [1 .. 2 -> [1 .. 2 -> Few]]
=============================================================================

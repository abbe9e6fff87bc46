----------------------------- MODULE StackArray -----------------------------
(***************************************************************************)
(* The stack of a person on its way to the table and back: the array       *)
(* literal that db_exec_function_postgres writes, the array Postgres makes *)
(* of it, and the loops of db_process_entries_postgres that count the      *)
(* values of the array it returns and take them apart                      *)
(* (src/src/db_postgres.h).                                                *)
(*                                                                         *)
(* A text is a sequence of tokens: a word, or one of the characters that   *)
(* mean something in a literal: comma, open and close brace, quote.  Texts *)
(* with backslashes, white space or the word NULL are left out.            *)
(***************************************************************************)
EXTENDS Naturals, Sequences, SequencesExt

CONSTANTS
  Words,     \* words without characters that mean something
  Stacks,    \* the stacks that are sent: sequences of texts
  NotSet     \* a value the decoder did not set, malloc left it

Special == {"comma", "open", "close", "quote"}

ASSUME StackAssumption ==
  /\ Stacks \subseteq Seq(Seq(Words \cup Special))
  /\ Words \cap Special = {}
  /\ NotSet \notin Words \cup Special

Scanner ==
  [ok |-> TRUE, last |-> "start", depth |-> 0, leaves |-> {}, items |-> 0, lengths |-> {},
   quoted |-> <<>>, out |-> <<>>]

VARIABLES
  stack,    \* what the client sent
  stage,    \* where the stack is
  scan,     \* what Postgres read of the literal
  text,     \* the literal, then the text Postgres returns
  cursor,   \* the token the loop looks at
  count,    \* entry.count
  elem,     \* the value to set next, from 0
  current,  \* where that value starts
  values    \* entry.value

stackvars == <<stack, stage, scan, text, cursor, count, elem, current, values>>

StackStart(texts) ==
  /\ stack = texts
  /\ stage = "sent"
  /\ scan = Scanner
  /\ text = <<>>
  /\ cursor = 1 /\ count = 0 /\ elem = 0 /\ current = 0
  /\ values = <<>>

StackInit == \E texts \in Stacks : StackStart(texts)

(* db_exec_function_postgres: elements are joined as they are.             *)
Literal(elements) ==
  <<"open">> \o FlattenSeq([j \in 1 .. Len(elements) |->
                           IF j = 1 THEN elements[j] ELSE <<"comma">> \o elements[j]])
          \o <<"close">>

SendStack ==
  /\ stage = "sent"
  /\ text' = Literal(stack)
  /\ stage' = "stored"
  /\ UNCHANGED <<stack, scan, cursor, count, elem, current, values>>

-----------------------------------------------------------------------------
(* What Postgres makes of a literal, token by token: an item may start     *)
(* after a brace or a comma; a quote only starts an item or ends it; items *)
(* are all at the same depth; inner arrays all have the same length.       *)
Malformed(s) == [s EXCEPT !.ok = FALSE]

(* The text Postgres prints for a quoted item: quoted when it has to be.   *)
Printed(item) ==
  IF item = <<>> \/ \E k \in DOMAIN item : item[k] \in Special
  THEN <<"quote">> \o item \o <<"quote">> ELSE item

Scan(s, token) ==
  IF ~s.ok THEN s ELSE
  CASE s.last = "quoting" /\ token = "quote" ->
         [s EXCEPT !.last = "quoted", !.leaves = @ \cup {s.depth}, !.items = @ + 1,
                   !.out = @ \o Printed(s.quoted)]
    [] s.last = "quoting" /\ token # "quote" -> [s EXCEPT !.quoted = Append(@, token)]
    [] token = "open" /\ s.last \in {"start", "open", "comma"} /\ (s.depth = 0 => s.last = "start") ->
         [s EXCEPT !.last = "open", !.depth = @ + 1, !.items = 0, !.out = Append(@, token)]
    [] token = "quote" /\ s.last \in {"open", "comma"} ->
         [s EXCEPT !.last = "quoting", !.quoted = <<>>]
    [] token = "comma" /\ s.last \in {"word", "quoted", "close"} /\ s.depth > 0 ->
         [s EXCEPT !.last = "comma", !.out = Append(@, token)]
    [] token = "close" /\ s.depth > 0
       /\ s.last \in (IF s.depth = 1 THEN {"open"} ELSE {}) \cup {"word", "quoted", "close"} ->
         [s EXCEPT !.last = "close", !.depth = @ - 1, !.out = Append(@, token),
                   !.lengths = IF s.last \in {"word", "quoted"} THEN @ \cup {s.items} ELSE @]
    [] token \in Words /\ s.last \in {"open", "comma", "word"} ->
         [s EXCEPT !.last = "word", !.leaves = @ \cup {s.depth}, !.out = Append(@, token),
                   !.items = IF s.last = "word" THEN @ ELSE @ + 1]
    [] OTHER -> Malformed(s)

ReadToken ==
  /\ stage = "stored"
  /\ cursor <= Len(text)
  /\ scan' = Scan(scan, text[cursor])
  /\ cursor' = cursor + 1
  /\ UNCHANGED <<stack, stage, text, count, elem, current, values>>

WellFormed ==
  /\ scan.ok /\ scan.depth = 0 /\ scan.last = "close"
  /\ \A a, b \in scan.leaves : a = b
  /\ \A a, b \in scan.lengths : a = b

(* The row is stored and selected again.                                   *)
Store ==
  /\ stage = "stored"
  /\ cursor > Len(text)
  /\ WellFormed
  /\ text' = scan.out
  /\ cursor' = 1
  /\ stage' = "count"
  /\ UNCHANGED <<stack, scan, count, elem, current, values>>

(* "malformed array literal": nothing is stored.                           *)
Reject ==
  /\ stage = "stored"
  /\ cursor > Len(text)
  /\ ~WellFormed
  /\ stage' = "rejected"
  /\ UNCHANGED <<stack, scan, text, cursor, count, elem, current, values>>

-----------------------------------------------------------------------------
(* The loops of db_process_entries_postgres for a string array.            *)

(* Only the commas are counted.                                            *)
CountToken_NoBraceBug ==
  /\ stage = "count"
  /\ cursor <= Len(text)
  /\ count' = IF text[cursor] = "comma" THEN count + 1 ELSE count
  /\ cursor' = cursor + 1
  /\ UNCHANGED <<stack, scan, stage, text, elem, current, values>>

(* As in the loop of the integer arrays, which compares the cursor with    *)
(* NULL: the end of the text is no end.                                    *)
CountToken_NoEndBug ==
  /\ stage = "count"
  /\ count' = IF cursor <= Len(text) /\ text[cursor] \in {"comma", "open"} THEN count + 1 ELSE count
  /\ cursor' = cursor + 1
  /\ UNCHANGED <<stack, scan, stage, text, elem, current, values>>

CountToken ==
  /\ stage = "count"
  /\ cursor <= Len(text)
  /\ count' = IF text[cursor] \in {"comma", "open"} THEN count + 1 ELSE count
  /\ cursor' = cursor + 1
  /\ UNCHANGED <<stack, scan, stage, text, elem, current, values>>

Allocate ==
  /\ stage = "count"
  /\ cursor > Len(text)
  /\ values' = [k \in 0 .. count - 1 |-> NotSet]
  /\ cursor' = 1
  /\ stage' = "get"
  /\ UNCHANGED <<stack, scan, text, count, elem, current>>

(* The loop gets to a token that is one of some.                           *)
At(tokens) == stage = "get" /\ cursor <= Len(text) /\ text[cursor] \in tokens

(* entry.value[elem] is set, whether or not it is one of the values.       *)
SetValue ==
  values' = [k \in DOMAIN values \cup {elem} |->
               IF k = elem THEN SubSeq(text, current, cursor - 1) ELSE values[k]]

OpenBrace ==
  /\ At({"open"})
  /\ cursor' = cursor + 1
  /\ current' = cursor + 1
  /\ UNCHANGED <<stack, scan, stage, text, count, elem, values>>

CloseBrace ==
  /\ At({"close"})
  /\ SetValue
  /\ stage' = "done"
  /\ UNCHANGED <<stack, scan, text, cursor, count, elem, current>>

(* As in the loop of the integer arrays, where the next value starts is    *)
(* forgotten.                                                              *)
Comma_SameStartBug ==
  /\ At({"comma"})
  /\ SetValue
  /\ elem' = elem + 1
  /\ cursor' = cursor + 1
  /\ UNCHANGED <<stack, scan, stage, text, count, current>>

Comma ==
  /\ At({"comma"})
  /\ SetValue
  /\ elem' = elem + 1
  /\ cursor' = cursor + 1
  /\ current' = cursor + 1
  /\ UNCHANGED <<stack, scan, stage, text, count>>

(* The cursor stays at a quote.                                            *)
Skip_QuoteBug ==
  /\ At(Words)
  /\ cursor' = cursor + 1
  /\ UNCHANGED <<stack, scan, stage, text, count, elem, current, values>>

Skip ==
  /\ At(Words \cup {"quote"})
  /\ cursor' = cursor + 1
  /\ UNCHANGED <<stack, scan, stage, text, count, elem, current, values>>

StackNext ==
  SendStack \/ ReadToken \/ Store \/ Reject \/ CountToken \/ Allocate
  \/ OpenBrace \/ CloseBrace \/ Comma \/ Skip

StackSpec == StackInit /\ [][StackNext]_stackvars

-----------------------------------------------------------------------------
StackTypeOK ==
  /\ stack \in Seq(Seq(Words \cup Special))
  /\ stage \in {"sent", "stored", "rejected", "count", "get", "done"}
  /\ text \in Seq(Words \cup Special)
  /\ cursor \in 1 .. Len(text) + 1
  /\ count \in Nat /\ elem \in Nat /\ current \in 0 .. Len(text) + 1

(* Whatever the stack, no value is written outside the memory that was     *)
(* allocated for the count (db_process_entries_postgres, get values).      *)
ValuesInBounds == stage \in {"get", "done"} => DOMAIN values = 0 .. count - 1

Plain(element) == element # <<>> /\ \A k \in DOMAIN element : element[k] \in Words

(* A stack of words comes back as it was sent.                             *)
PlainRoundTrip ==
  stage \in {"done", "rejected"} /\ stack # <<>> /\ (\A j \in DOMAIN stack : Plain(stack[j]))
    => /\ stage = "done"
       /\ count = Len(stack)
       /\ \A j \in DOMAIN stack : values[j - 1] = stack[j]

(* The loop that takes the values apart comes to its end, for any text     *)
(* Postgres returns.                                                       *)
DecodeEnds == stage = "get" ~> stage = "done"
=============================================================================

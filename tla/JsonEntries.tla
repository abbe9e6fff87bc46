---------------------------- MODULE JsonEntries -----------------------------
(***************************************************************************)
(* db_json_entries (src/src/db.c): the rows of a result written as JSON    *)
(* into a growing string (src/src/string+.c).                              *)
(*                                                                         *)
(* A text is a sequence of pieces, each with its number of bytes; what a   *)
(* value says does not matter, but whether it holds a quote does.          *)
(***************************************************************************)
EXTENDS Naturals, Sequences, SequencesExt

CONSTANTS
  Rows,       \* the results: sequences of rows, sequences of values
  Chunk,      \* STRING_ALLOCATION_CHUNK
  NameLimit,  \* the buffer_size of a name
  TextLimit   \* the buffer_size of a text

Value ==
  [type : {"null", "integer"}, size : Nat]
  \cup [type : {"string"}, size : Nat, quotes : BOOLEAN]
  \cup [type : {"array"}, texts : Seq([size : Nat, quotes : BOOLEAN])]

ASSUME JsonAssumption ==
  /\ Rows \subseteq Seq(Seq(Value))
  /\ Chunk \in Nat \ {0} /\ NameLimit \in Nat /\ NameLimit > 7 /\ TextLimit \in Nat \ {0}

VARIABLES
  rows,    \* results->entries
  squash,  \* squash_if_single
  json,    \* the growing string: its text, len and allocated
  line,    \* where db_json_entries is
  row,     \* i, from 1
  col,     \* j, from 1
  item     \* k, from 1

jsonvars == <<rows, squash, json, line, row, col, item>>

(* string_new.                                                             *)
JsonStart(entries, single) ==
  /\ rows = entries
  /\ squash = single
  /\ json = [text |-> <<>>, len |-> 0, allocated |-> Chunk]
  /\ line = "begin"
  /\ row = 1 /\ col = 1 /\ item = 1

JsonInit == \E entries \in Rows, single \in BOOLEAN : JsonStart(entries, single)

-----------------------------------------------------------------------------
Piece(what, bytes) == [what |-> what, bytes |-> bytes]
Char(c) == Piece(c, 1)
Bytes(text) == FoldSeq(LAMBDA p, sum : p.bytes + sum, 0, text)

(* The pieces of "%s" of a text, and of the name of a column.              *)
Quoted(t) ==
  <<Char("quote"), Piece(IF t.quotes THEN "textWithQuotes" ELSE "text", t.size), Char("quote")>>
Name(j) == <<Char("quote"), Piece(j, 4), Char("quote"), Char(":")>>

(* The terminating NUL is forgotten.                                       *)
Cat_NoTerminatorBug(str, text) ==
  LET len == str.len + Bytes(text) IN
  [text |-> str.text \o text,
   len |-> len,
   allocated |-> IF str.allocated < len THEN len + Chunk ELSE str.allocated]

(* _string_cat_raw: the buffer grows when text and NUL do not fit.         *)
Cat(str, text) ==
  LET len == str.len + Bytes(text) IN
  [text |-> str.text \o text,
   len |-> len,
   allocated |-> IF str.allocated < len + 1 THEN len + Chunk ELSE str.allocated]

(* vsnprintf: no more than limit - 1 bytes.                                *)
Cut(text, limit) ==
  LET before(k) == Bytes(SubSeq(text, 1, k - 1))
      over == SelectInSeq([k \in DOMAIN text |-> before(k + 1) > limit - 1], LAMBDA b : b)
  IN  IF over = 0 THEN text
      ELSE Append(SubSeq(text, 1, over - 1),
                  Piece("cut", limit - 1 - before(over)))

CatFmt(str, text, limit) == Cat(str, Cut(text, limit))

-----------------------------------------------------------------------------
Trail == ~(squash /\ Len(rows) = 1)
Current == rows[row][col]

(* The handlers ask for the JSON of results with entries only: the early   *)
(* return of db_json_entries for an array that is NULL is left out.        *)
Begin ==
  /\ line = "begin"
  /\ json' = Cat(json, <<Char(IF Trail THEN "[" ELSE "{")>>)
  /\ line' = IF rows = <<>> THEN "end" ELSE "row"
  /\ UNCHANGED <<rows, squash, row, col, item>>

BeginRow ==
  /\ line = "row"
  /\ json' = IF Trail THEN Cat(json, <<Char("{")>>) ELSE json
  /\ line' = IF rows[row] = <<>> THEN "rowEnd" ELSE "name"
  /\ UNCHANGED <<rows, squash, row, col, item>>

(* A comma, and the name of the column.                                    *)
WriteName ==
  /\ line = "name"
  /\ json' = CatFmt(IF col = 1 THEN json ELSE Cat(json, <<Char(",")>>), Name(col), NameLimit)
  /\ line' = "value"
  /\ UNCHANGED <<rows, squash, row, col, item>>

NextColumn ==
  /\ line' = IF col = Len(rows[row]) THEN "rowEnd" ELSE "name"
  /\ col' = IF col = Len(rows[row]) THEN 1 ELSE col + 1

WriteScalar ==
  /\ line = "value" /\ Current.type # "array"
  /\ json' = IF Current.type = "string"
             THEN CatFmt(json, Quoted(Current), TextLimit)
             ELSE Cat(json, <<Piece(Current.type, Current.size)>>)
  /\ NextColumn
  /\ UNCHANGED <<rows, squash, row, item>>

BeginArray ==
  /\ line = "value" /\ Current.type = "array"
  /\ json' = Cat(json, <<Char("[")>>)
  /\ line' = "item"
  /\ item' = 1
  /\ UNCHANGED <<rows, squash, row, col>>

WriteItem ==
  /\ line = "item" /\ item <= Len(Current.texts)
  /\ json' = CatFmt(IF item = 1 THEN json ELSE Cat(json, <<Char(",")>>),
                    Quoted(Current.texts[item]), TextLimit)
  /\ item' = item + 1
  /\ UNCHANGED <<rows, squash, line, row, col>>

EndArray ==
  /\ line = "item" /\ item > Len(Current.texts)
  /\ json' = Cat(json, <<Char("]")>>)
  /\ NextColumn
  /\ UNCHANGED <<rows, squash, row, item>>

(* A comma after every row.                                                *)
EndRow_LastCommaBug ==
  /\ line = "rowEnd"
  /\ LET closed == IF Trail THEN Cat(json, <<Char("}")>>) ELSE json
     IN  json' = Cat(closed, <<Char(",")>>)
  /\ line' = IF row = Len(rows) THEN "end" ELSE "row"
  /\ row' = row + 1
  /\ UNCHANGED <<rows, squash, col, item>>

EndRow ==
  /\ line = "rowEnd"
  /\ LET closed == IF Trail THEN Cat(json, <<Char("}")>>) ELSE json
     IN  json' = IF row # Len(rows) THEN Cat(closed, <<Char(",")>>) ELSE closed
  /\ line' = IF row = Len(rows) THEN "end" ELSE "row"
  /\ row' = row + 1
  /\ UNCHANGED <<rows, squash, col, item>>

End ==
  /\ line = "end"
  /\ json' = Cat(json, <<Char(IF Trail THEN "]" ELSE "}")>>)
  /\ line' = "done"
  /\ UNCHANGED <<rows, squash, row, col, item>>

JsonNext ==
  \/ Begin \/ BeginRow \/ WriteName \/ WriteScalar
  \/ BeginArray \/ WriteItem \/ EndArray \/ EndRow \/ End

JsonSpec == JsonInit /\ [][JsonNext]_jsonvars

-----------------------------------------------------------------------------
JsonTypeOK ==
  /\ line \in {"begin", "row", "name", "value", "item", "rowEnd", "end", "done"}
  /\ json.len \in Nat /\ json.allocated \in Nat
  /\ row \in 1 .. Len(rows) + 1 /\ col \in Nat /\ item \in Nat

(* The text and its NUL are in the memory of the string, after every       *)
(* string_cat, up to the exact byte where the buffer must grow.            *)
BufferInBounds == json.len + 1 <= json.allocated

(* What JSON says the rows are, independently of the loops.                *)
Joined(texts) ==
  FlattenSeq([k \in DOMAIN texts |-> IF k = 1 THEN texts[k] ELSE <<Char(",")>> \o texts[k]])
Written(v) ==
  CASE v.type = "string" -> Quoted(v)
    [] v.type = "array" ->
         <<Char("[")>> \o Joined([k \in DOMAIN v.texts |-> Quoted(v.texts[k])]) \o <<Char("]")>>
    [] OTHER -> <<Piece(v.type, v.size)>>
Object(values) ==
  <<Char("{")>> \o Joined([j \in DOMAIN values |-> Name(j) \o Written(values[j])]) \o <<Char("}")>>

(* Texts without quotes of at most TextLimit - 3 bytes, as the columns of  *)
(* pessoas allow them.                                                     *)
Renders(t) == ~t.quotes /\ t.size <= TextLimit - 3
Renderable ==
  \A i \in DOMAIN rows : \A j \in DOMAIN rows[i] :
    LET v == rows[i][j] IN
    /\ v.type = "string" => Renders(v)
    /\ v.type = "array" => \A k \in DOMAIN v.texts : Renders(v.texts[k])

(* The response is the JSON of the rows: one object when one is asked for  *)
(* and found, otherwise the array of all.                                  *)
RenderedIsJson ==
  line = "done" /\ Renderable =>
    json.text = IF squash /\ Len(rows) = 1
                THEN Object(rows[1])
                ELSE <<Char("[")>> \o Joined([i \in DOMAIN rows |-> Object(rows[i])])
                     \o <<Char("]")>>
=============================================================================

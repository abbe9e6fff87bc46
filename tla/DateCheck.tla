----------------------------- MODULE DateCheck ------------------------------
(***************************************************************************)
(* date_check (models/date.h) as on_post uses it: the loop over the text   *)
(* of nascimento, which it cuts at every dash.                             *)
(*                                                                         *)
(* A text is the sequence of its fields, the parts between dashes.  A      *)
(* field has a number of digits and a value; a field with junk has another *)
(* character among its digits.  The loop is one step per field.            *)
(***************************************************************************)
EXTENDS Naturals, Sequences, SequencesExt

CONSTANT Dates  \* the texts that are sent: sequences of fields

Field == [digits : Nat, value : Nat, junk : BOOLEAN]

ASSUME DateAssumption == Dates \subseteq Seq(Field) \ {<<>>}

VARIABLES
  date,    \* the text that was sent
  check,      \* "length", "loop", or the result
  part,    \* how many fields the loop passed
  passed   \* what is left of the text: the fields before the first NUL

datevars == <<date, check, part, passed>>

DateStart(text) ==
  /\ date = text
  /\ check = "length"
  /\ part = 0
  /\ passed = text

DateInit == \E text \in Dates : DateStart(text)

(* strlen: the digits, and a dash between fields.                          *)
TextLength(text) ==
  FoldSeq(LAMBDA field, sum : field.digits + sum, Len(text) - 1, text)

(* on_post: "strlen(nascimento) != 10".                                    *)
CheckLength ==
  /\ check = "length"
  /\ check' = IF TextLength(date) # 10 THEN "refused" ELSE "loop"
  /\ UNCHANGED <<date, part, passed>>

(* A character that is neither a digit nor a dash.                         *)
JunkField ==
  /\ check = "loop" /\ part < Len(date)
  /\ date[part + 1].junk
  /\ check' = "refused"
  /\ UNCHANGED <<date, part, passed>>

(* A month 0 is let through.                                               *)
Allowed_ZeroBug(k, value) ==
  CASE k = 1 -> value \in 0 .. 12
    [] k = 2 -> value \in 1 .. 31
    [] OTHER -> TRUE

(* What the value of a part may be: any year, a month, a day, and anything *)
(* after that.                                                             *)
Allowed(k, value) ==
  CASE k = 1 -> value \in 1 .. 12
    [] k = 2 -> value \in 1 .. 31
    [] OTHER -> TRUE

(* The part is counted before it is checked.                               *)
EndField_EarlyPartBug ==
  /\ check = "loop" /\ part < Len(date)
  /\ ~date[part + 1].junk
  /\ passed' = SubSeq(passed, 1, 1)
  /\ part' = part + 1
  /\ check' = IF Allowed(part + 1, date[part + 1].value) THEN check ELSE "refused"
  /\ UNCHANGED date

(* The loop goes on behind the end of the text.                            *)
AcceptDate_LateBug ==
  /\ check = "loop"
  /\ part >= Len(date)
  /\ part' = part + 1
  /\ check' \in {"loop", "accepted"}
  /\ UNCHANGED <<date, passed>>

(* The end of a field: its dash becomes a NUL.                             *)
EndField ==
  /\ check = "loop" /\ part < Len(date)
  /\ ~date[part + 1].junk
  /\ passed' = SubSeq(passed, 1, 1)
  /\ \/ /\ ~Allowed(part, date[part + 1].value)
        /\ check' = "refused"
        /\ UNCHANGED part
     \/ /\ Allowed(part, date[part + 1].value)
        /\ part' = part + 1
        /\ UNCHANGED check
  /\ UNCHANGED date

AcceptDate ==
  /\ check = "loop"
  /\ part = Len(date)
  /\ check' = "accepted"
  /\ UNCHANGED <<date, part, passed>>

DateNext == CheckLength \/ JunkField \/ EndField \/ AcceptDate

DateSpec == DateInit /\ [][DateNext]_datevars

-----------------------------------------------------------------------------
DateTypeOK ==
  /\ date \in Seq(Field) \ {<<>>}
  /\ check \in {"length", "loop", "accepted", "refused"}
  /\ part \in 0 .. Len(date)
  /\ passed = date \/ passed = SubSeq(date, 1, 1)

Digits(k, n) == date[k].digits = n /\ ~date[k].junk

(* YYYY-MM-DD.                                                             *)
Shaped == Len(date) = 3 /\ Digits(1, 4) /\ Digits(2, 2) /\ Digits(3, 2)

(* Every text YYYY-MM-DD of a year, a month and a day up to 31 passes.     *)
DatesAccepted ==
  Shaped /\ date[2].value \in 1 .. 12 /\ date[3].value \in 1 .. 31 => check # "refused"

(* No text with a month or a day that is none passes, however the text is  *)
(* cut into fields.                                                        *)
NoBadMonthOrDay ==
  check = "accepted" =>
    /\ Len(date) > 1 => date[2].value \in 1 .. 12
    /\ Len(date) > 2 => date[3].value \in 1 .. 31
    /\ \A k \in 1 .. Len(date) : ~date[k].junk
=============================================================================

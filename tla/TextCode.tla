------------------------------ MODULE TextCode ------------------------------
(***************************************************************************)
(* The sequential code over texts, from a request to its response: the     *)
(* bytes of requests (HttpParser), the date of a person (DateCheck), the   *)
(* stack as an array literal (StackArray) and the rows as JSON             *)
(* (JsonEntries).  They share no state: a behaviour runs one of them.      *)
(***************************************************************************)
EXTENDS HttpParser, DateCheck, StackArray, JsonEntries

VARIABLE code  \* which of them runs

textvars == <<code, parservars, datevars, stackvars, jsonvars>>

TextInit ==
  \/ /\ code = "parser" /\ ParserInit
     /\ DateStart(<<>>) /\ StackStart(<<>>) /\ JsonStart(<<>>, FALSE)
  \/ /\ code = "date" /\ DateInit
     /\ ParserStart(<<>>) /\ StackStart(<<>>) /\ JsonStart(<<>>, FALSE)
  \/ /\ code = "stack" /\ StackInit
     /\ ParserStart(<<>>) /\ DateStart(<<>>) /\ JsonStart(<<>>, FALSE)
  \/ /\ code = "json" /\ JsonInit
     /\ ParserStart(<<>>) /\ DateStart(<<>>) /\ StackStart(<<>>)

TextNext ==
  \/ code = "parser" /\ ParserNext /\ UNCHANGED <<code, datevars, stackvars, jsonvars>>
  \/ code = "date" /\ DateNext /\ UNCHANGED <<code, parservars, stackvars, jsonvars>>
  \/ code = "stack" /\ StackNext /\ UNCHANGED <<code, parservars, datevars, jsonvars>>
  \/ code = "json" /\ JsonNext /\ UNCHANGED <<code, parservars, datevars, stackvars>>

(* The code is sequential: it goes on while it can.                        *)
TextSpec == TextInit /\ [][TextNext]_textvars /\ WF_textvars(TextNext)

-----------------------------------------------------------------------------
(* The types of the four parts.                                            *)
TypeOK ==
  /\ ParserTypeOK
  /\ code = "date" => DateTypeOK
  /\ StackTypeOK
  /\ JsonTypeOK

(* Neither the values of a decoded array nor the JSON text leave the       *)
(* memory that was allocated for them.                                     *)
InBounds == ValuesInBounds /\ BufferInBounds
=============================================================================

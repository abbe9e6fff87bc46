---------------------------- MODULE QueryResults ----------------------------
(***************************************************************************)
(* What db_exec_function_postgres makes of the answer of libpq, and what   *)
(* the db_results_* functions read of it (src/src/db_postgres.h and        *)
(* src/src/db.c).                                                          *)
(*                                                                         *)
(* An answer is a record with the status of PQresultStatus ("no result"    *)
(* stands for a NULL PGresult), what the error message contains and the    *)
(* rows, a sequence of sequences of fields.  A field is a record of a type *)
(* and a value.                                                            *)
(***************************************************************************)
EXTENDS Naturals, Sequences

Statuses ==
  {"PGRES_EMPTY_QUERY", "PGRES_COMMAND_OK", "PGRES_TUPLES_OK", "PGRES_COPY_OUT",
   "PGRES_COPY_IN", "PGRES_BAD_RESPONSE", "PGRES_NONFATAL_ERROR", "PGRES_FATAL_ERROR",
   "PGRES_COPY_BOTH", "PGRES_SINGLE_TUPLE", "PGRES_PIPELINE_SYNC",
   "PGRES_PIPELINE_ABORTED", "no result"}

(* What strstr looks for in the message of a fatal error.                  *)
Messages ==
  {"invalid input syntax", "violates unique constraint", "too long", "too short", "other"}

(* db_error_code_map_postgres.                                             *)
ErrorCode(status) ==
  CASE status \in {"PGRES_EMPTY_QUERY", "PGRES_COMMAND_OK", "PGRES_TUPLES_OK",
                   "PGRES_SINGLE_TUPLE"} -> "ok"
    [] status \in {"PGRES_COPY_OUT", "PGRES_COPY_IN", "PGRES_COPY_BOTH",
                   "PGRES_PIPELINE_SYNC"} -> "processing"
    [] status \in {"PGRES_NONFATAL_ERROR", "PGRES_PIPELINE_ABORTED"} -> "info"
    [] status \in {"PGRES_BAD_RESPONSE", "PGRES_FATAL_ERROR"} -> "fatal"
    [] OTHER -> "unknown"

(* The message of a unique violation is not looked for.                    *)
ResultCode_NoUniqueBug(answer) ==
  IF answer.status # "no result" /\ ErrorCode(answer.status) = "fatal"
  THEN CASE answer.message = "invalid input syntax" -> "invalid_type"
         [] answer.message \in {"too long", "too short"} -> "invalid_range"
         [] OTHER -> "ok"
  ELSE "ok"

(* The code of the results: it starts as ok, and only a fatal error with a *)
(* message that is looked for changes it.                                  *)
ResultCode(answer) ==
  IF answer.status # "no result" /\ ErrorCode(answer.status) = "fatal"
  THEN CASE answer.message = "invalid input syntax" -> "invalid_type"
         [] answer.message = "violates unique constraint" -> "unique_constrain_violation"
         [] answer.message \in {"too long", "too short"} -> "invalid_range"
         [] OTHER -> "ok"
  ELSE "ok"

(* db_exec_function_postgres: the entries are processed when the code is   *)
(* ok; an answer without rows has zero entries, and so does a NULL one.    *)
Results(answer) ==
  LET code == ResultCode(answer)
  IN  [code |-> code,
       processed |-> code = "ok",   \* results->entries is not NULL
       entries |-> IF code = "ok" THEN answer.rows ELSE <<>>]

(* db_exec without a connection: its own results, never processed.         *)
NoConnectionResults == [code |-> "fatal", processed |-> FALSE, entries |-> <<>>]

-----------------------------------------------------------------------------
(* Reading a result.  Entries and fields are counted from 0 in C.          *)

Nothing == [type |-> "nothing", value |-> 0]  \* a NULL pointer
Fault == [type |-> "fault", value |-> 0]      \* a NULL pointer was dereferenced

(* db_results_get_entry.                                                   *)
GetEntry(results, entry, field) ==
  IF /\ results.processed
     /\ entry < Len(results.entries)
     /\ field < Len(results.entries[entry + 1])
     /\ results.entries[entry + 1][field + 1].type # "invalid"
  THEN results.entries[entry + 1][field + 1]
  ELSE Nothing

(* db_results_get_entry_tc: the type of what db_results_get_entry gave is  *)
(* read, whether it gave something or not.                                 *)
GetEntryChecked(results, entry, field, type) ==
  LET value == GetEntry(results, entry, field)
  IN  IF value.type = "nothing" THEN Fault
      ELSE IF value.type # type THEN Nothing
      ELSE value

ReadInteger(results, entry, field) == GetEntryChecked(results, entry, field, "integer")
ReadString(results, entry, field) == GetEntryChecked(results, entry, field, "string")
=============================================================================

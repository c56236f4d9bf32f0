------------------------------- MODULE JsonlFile -------------------------------
(***************************************************************************)
(* An append-only JSONL file, as append_jsonl writes it and read_jsonl     *)
(* reads it: the lines that hold a record, a torn last line, and whether   *)
(* the bytes of the file are still text.                                   *)
(*                                                                         *)
(* A write that is cut short leaves a torn line, and the next record is    *)
(* glued to it: the line they make together is skipped by every reader.    *)
(* A write cut inside a character leaves bytes that never decode again.    *)
(* A record that contains a line separator (U+2028, U+0085: JSON does not  *)
(* escape them, splitlines breaks at them) is not `whole`: it is skipped.  *)
(***************************************************************************)
EXTENDS Naturals, SequencesExt, Selection

EmptyFile == [records |-> <<>>, torn |-> FALSE, decodes |-> TRUE]

FileOf(Records) == [records : Seq(Records), torn : BOOLEAN, decodes : BOOLEAN]

\* The record and its line feed are written.
Written(file, record) ==
    IF file.torn
    THEN [file EXCEPT !.torn = FALSE]
    ELSE [file EXCEPT !.records = Append(@, record)]

\* What a write that fails may leave behind; "all" when only the close fails.
Remains == {"nothing", "part", "halfCharacter", "all"}

Left(file, record, remains) ==
    CASE remains = "nothing"       -> file
      [] remains = "part"          -> [file EXCEPT !.torn = TRUE]
      [] remains = "halfCharacter" -> [file EXCEPT !.torn = TRUE, !.decodes = FALSE]
      [] remains = "all"           -> Written(file, record)

\* The records a reader gets, if the file decodes.
Readable(file) == Picked(file.records, {i \in DOMAIN file.records : file.records[i].whole})

\* find_latest_by_fields: the last of the records that match, or none.
LatestOf(records, matching, none) == IF matching = {} THEN none ELSE records[Max(matching)]
================================================================================

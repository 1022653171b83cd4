------------------------------ MODULE Redaction ------------------------------
(***************************************************************************)
(* core/redaction.py, on classes of text.  A text is "plain", "secret" (a  *)
(* secret pattern matches it), "redacted", or "reactive": no pattern       *)
(* matches it as a Python value, but one does once it is part of a JSON    *)
(* string, where an escape stands for a control character ("secret=" and a *)
(* newline, for example).                                                  *)
(***************************************************************************)

NoteClasses == {"plain", "secret", "redacted", "reactive"}

redact(note) == IF note = "secret" THEN "redacted" ELSE note

(* redact on the JSON text a value was dumped to. *)
redact_dumped(note) == IF note = "reactive" THEN "redacted" ELSE redact(note)

==============================================================================

------------------------------ MODULE ExecLine ------------------------------
(***************************************************************************)
(* routes.exec_argv: the argument list of an Exec value, a sequence of     *)
(* characters given by name; "s" and "f" stand for the letters that mean   *)
(* something after a backslash and after a percent sign.                   *)
(***************************************************************************)
EXTENDS Integers, Sequences

\* What a loop over a text holds at the end of it.
Scan(Step(_, _), start, text) ==
  LET read[n \in 0 .. Len(text)] == IF n = 0 THEN start ELSE Step(read[n - 1], text[n])
  IN  read[Len(text)]
-----------------------------------------------------------------------------
\* \s and \\ anywhere, before the quoting rules; any other backslash stays.
Translated(c) == IF c = "s" THEN "space" ELSE c

Unescaped(acc, c) ==
  IF acc.pending
  THEN [pending |-> FALSE,
        out |-> IF c \in {"s", "backslash"} THEN Append(acc.out, Translated(c))
                ELSE acc.out \o <<"backslash", c>>]
  ELSE IF c = "backslash" THEN [pending |-> TRUE, out |-> acc.out]
  ELSE [pending |-> FALSE, out |-> Append(acc.out, c)]

Unescaping(value) == Scan(Unescaped, [pending |-> FALSE, out |-> <<>>], value)

AsWritten(value) == value                                                  \* mutant

Unescape(value) ==
  LET end == Unescaping(value)
  IN  IF end.pending THEN Append(end.out, "backslash") ELSE end.out
-----------------------------------------------------------------------------
Word(acc) == IF acc.current # <<>> \/ acc.started THEN Append(acc.args, acc.current) ELSE acc.args

\* One character under the quoting rules; pending is a backslash inside quotes.
Split(acc, c) ==
  CASE acc.pending ->
         [acc EXCEPT !.pending = FALSE,
                     !.current = IF c \in {"quote", "dollar", "backslash"} THEN Append(@, c)
                                 ELSE @ \o <<"backslash", c>>]
    [] ~acc.pending /\ acc.quoted ->
         CASE c = "backslash" -> [acc EXCEPT !.pending = TRUE]
           [] c = "quote"     -> [acc EXCEPT !.quoted = FALSE]
           [] OTHER           -> [acc EXCEPT !.current = Append(@, c)]
    [] OTHER ->
         CASE c = "quote" -> [acc EXCEPT !.quoted = TRUE, !.started = TRUE]
           [] c = "space" -> [acc EXCEPT !.args = Word(acc), !.current = <<>>, !.started = FALSE]
           [] c \in {"apostrophe", "backslash"} -> [acc EXCEPT !.bad = TRUE]
           [] OTHER       -> [acc EXCEPT !.current = Append(@, c)]

Splitting(text) ==
  Scan(Split, [args |-> <<>>, current |-> <<>>, quoted |-> FALSE, started |-> FALSE,
               pending |-> FALSE, bad |-> FALSE], text)
-----------------------------------------------------------------------------
FieldCodes == {"f"}

\* Field codes inside an argument vanish, %% is a percent sign, any other code is malformed.
Expanded(acc, c) ==
  IF acc.percent
  THEN [percent |-> FALSE,
        out |-> IF c = "percent" THEN Append(acc.out, c) ELSE acc.out,
        bad |-> acc.bad \/ c \notin FieldCodes \cup {"percent"}]
  ELSE IF c = "percent" THEN [percent |-> TRUE, out |-> acc.out, bad |-> acc.bad]
  ELSE [percent |-> FALSE, out |-> Append(acc.out, c), bad |-> acc.bad]

Expanding(arg) == Scan(Expanded, [percent |-> FALSE, bad |-> FALSE, out |-> <<>>], arg)

\* An argument that is a field code and nothing else is no argument.
IsFieldCode(arg) == Len(arg) = 2 /\ arg[1] = "percent" /\ arg[2] \in FieldCodes

Kept(acc, arg) ==
  LET end == Expanding(arg)
  IN  IF IsFieldCode(arg) THEN acc
      ELSE [bad |-> acc.bad \/ end.bad \/ end.percent, words |-> Append(acc.words, end.out)]

Keeping(args) == Scan(Kept, [bad |-> FALSE, words |-> <<>>], args)

Malformed == <<>>

ExecArgv(value) ==
  LET end == Splitting(Unescape(value))
      kept == Keeping(Word(end))
  IN  IF end.quoted \/ end.bad \/ kept.bad THEN Malformed ELSE kept.words
-----------------------------------------------------------------------------
(* How the Desktop Entry Specification has an argument written: quoted,    *)
(* then escaped.                                                           *)

Escaped(text, c) ==
  text \o CASE c = "percent"   -> <<"percent", "percent">>
            [] c = "backslash" -> <<"backslash", "backslash", "backslash", "backslash">>
            [] c \in {"quote", "dollar"} -> <<"backslash", "backslash", c>>
            [] OTHER           -> <<c>>

Writing(text, arg) == Scan(Escaped, text, arg)

\* An argument written after what is there.
Written(text, arg) == Append(Writing(Append(text, "quote"), arg), "quote")
=============================================================================
